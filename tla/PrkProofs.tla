----------------------------- MODULE PrkProofs -----------------------------
(***************************************************************************)
(* Proofs about prk's profiles.  First the edits of a configuration: each  *)
(* yields a configuration, keeps every tombstone leading to a profile, and *)
(* keeps the meaning of names.  Then the processes: the lock keeps updates *)
(* apart, so what an edit keeps the file keeps.  Last the sessions: which  *)
(* process may spend a token, and who owns a credential file while the     *)
(* commands do not overlap.                                                *)
(***************************************************************************)
EXTENDS Prk, TLAPS

----------------------------------------------------------------------------
(* Edits. *)

LEMMA SetDefaultKeeps ==
    ASSUME NEW c \in Config, NEW n \in Name, TombstonesLead(c)
    PROVE  SetDefault(c, n) \in Config /\ TombstonesLead(SetDefault(c, n))
  BY DEF SetDefault, Config, TombstonesLead, IsTombstone, IsProfile

LEMMA AddKeeps ==
    ASSUME NEW c \in Config, NEW n \in Name, NEW profile \in Profile, NEW d \in BOOLEAN,
           TombstonesLead(c)
    PROVE  Add(c, n, profile, d) \in Config /\ TombstonesLead(Add(c, n, profile, d))
  <1> DEFINE next == Add(c, n, profile, d)
  <1>1. next \in Config
    BY DEF Add, Config
  <1>2. ASSUME NEW m \in Name, IsTombstone(next, m)
        PROVE  ~IsProfile(next, m) /\ IsProfile(next, next.renamed[m].to)
    <2>1. m # n /\ next.renamed[m] = c.renamed[m] /\ IsTombstone(c, m)
      BY <1>2 DEF Add, Config, IsTombstone
    <2>2. ~IsProfile(c, m) /\ IsProfile(c, c.renamed[m].to)
      BY <2>1 DEF TombstonesLead
    <2> QED BY <2>1, <2>2, RecordsAssumption DEF Add, Config, IsProfile
  <1> QED BY <1>1, <1>2 DEF TombstonesLead

LEMMA RenameKeeps ==
    ASSUME NEW c \in Config, NEW old \in Name, NEW new, CanRename(c, old, new), TombstonesLead(c)
    PROVE  /\ new \in Name /\ new # old
           /\ Rename(c, old, new) \in Config /\ TombstonesLead(Rename(c, old, new))
  <1> DEFINE next == Rename(c, old, new)
  <1>1. new \in Name /\ ~IsProfile(c, new) /\ IsProfile(c, old) /\ new # old
    BY DEF CanRename, Available
  <1>2. c.profiles[old] \in Profile
    BY <1>1 DEF Config, IsProfile
  <1>3. [to |-> new, inst |-> c.profiles[old].inst] \in Tombstone
    BY <1>1, <1>2 DEF Profile, Tombstone
  <1>4. \A n \in Name : c.renamed[n] # None => [c.renamed[n] EXCEPT !.to = new] \in Tombstone
    BY <1>1 DEF Config, Tombstone
  <1>5. next.renamed \in [Name -> Tombstone \cup {None}]
    BY <1>3, <1>4 DEF Rename, Config
  <1>6. next \in Config
    BY <1>1, <1>2, <1>5 DEF Rename, Config
  <1>7. ASSUME NEW m \in Name, IsTombstone(next, m)
        PROVE  ~IsProfile(next, m) /\ IsProfile(next, next.renamed[m].to)
    <2>1. IsProfile(next, new) /\ ~IsProfile(next, old)
      BY <1>1, <1>2, RecordsAssumption DEF Rename, Config, IsProfile
    <2>2. CASE m = old
      BY <2>1, <2>2 DEF Rename
    <2>3. CASE m # old
      <3>1. m # new /\ IsTombstone(c, m)
        BY <1>7, <2>3 DEF Rename, IsTombstone
      <3>2. ~IsProfile(c, m) /\ IsProfile(c, c.renamed[m].to)
        BY <3>1 DEF TombstonesLead
      <3>3. ~IsProfile(next, m)
        BY <2>3, <3>1, <3>2 DEF Rename, Config, IsProfile
      <3>4. CASE c.renamed[m].to = old
        BY <3>4, <3>1, <2>1, <2>3, <3>3, <1>4 DEF Rename, IsTombstone, Config, Tombstone
      <3>5. CASE c.renamed[m].to # old
        <4>1. next.renamed[m].to = c.renamed[m].to /\ c.renamed[m].to # new
          BY <3>5, <3>1, <3>2, <2>3, <1>1 DEF Rename, IsTombstone
        <4>2. IsProfile(next, c.renamed[m].to)
          BY <4>1, <3>5, <3>2 DEF Rename, Config, IsProfile
        <4> QED BY <4>1, <4>2, <3>3
      <3> QED BY <3>4, <3>5
    <2> QED BY <2>2, <2>3
  <1> QED BY <1>1, <1>6, <1>7 DEF TombstonesLead

LEMMA ForgetKeeps ==
    ASSUME NEW c \in Config, NEW n \in Name, TombstonesLead(c)
    PROVE  Forget(c, n) \in Config /\ TombstonesLead(Forget(c, n))
  BY DEF Forget, Config, TombstonesLead, IsTombstone, IsProfile

LEMMA RemoveKeeps ==
    ASSUME NEW c \in Config, NEW n \in Name, TombstonesLead(c)
    PROVE  Remove(c, n) \in Config /\ TombstonesLead(Remove(c, n))
  <1> DEFINE next == Remove(c, n)
  <1>1. next \in Config
    BY DEF Remove, Config
  <1>2. ASSUME NEW m \in Name, IsTombstone(next, m)
        PROVE  ~IsProfile(next, m) /\ IsProfile(next, next.renamed[m].to)
    <2>1. IsTombstone(c, m) /\ c.renamed[m].to # n /\ next.renamed[m] = c.renamed[m]
      BY <1>2 DEF Remove, IsTombstone
    <2>2. ~IsProfile(c, m) /\ IsProfile(c, c.renamed[m].to)
      BY <2>1 DEF TombstonesLead
    <2> QED BY <2>1, <2>2 DEF Remove, Config, IsProfile
  <1> QED BY <1>1, <1>2 DEF TombstonesLead

\* Edits that leave every name what it was and change a profile in place.
LEMMA PinKeeps ==
    ASSUME NEW c \in Config, NEW ch \in Change, TombstonesLead(c)
    PROVE  Pin(c, ch) \in Config /\ TombstonesLead(Pin(c, ch))
  <1>1. CASE Pin(c, ch) = c
    BY <1>1
  <1>2. CASE Pin(c, ch) # c
    <2> DEFINE profile == [c.profiles[ch.name] EXCEPT !.inst = ch.inst]
    <2>1. /\ IsProfile(c, ch.name) /\ ch.name \in Name
          /\ Pin(c, ch) = [c EXCEPT !.profiles = [@ EXCEPT ![ch.name] = profile]]
      BY <1>2 DEF Pin, IsProfile
    <2>2. profile \in Profile
      BY <2>1 DEF Config, IsProfile, Profile, Change
    <2> HIDE DEF profile
    <2> QED BY <2>1, <2>2, RecordsAssumption DEF Config, TombstonesLead, IsTombstone, IsProfile
  <1> QED BY <1>1, <1>2

LEMMA SetCredentialKeeps ==
    ASSUME NEW c \in Config, NEW n, NEW cred \in Credential, TombstonesLead(c)
    PROVE  /\ SetCredential(c, n, cred) \in Config /\ TombstonesLead(SetCredential(c, n, cred))
           /\ \A m \in Name : IsProfile(SetCredential(c, n, cred), m) <=> IsProfile(c, m)
           /\ SetCredential(c, n, cred).renamed = c.renamed
           /\ \A m \in Name : IsProfile(c, m) =>
                 SetCredential(c, n, cred).profiles[m].inst = c.profiles[m].inst
  <1>1. CASE ~IsProfile(c, n)
    BY <1>1 DEF SetCredential
  <1>2. CASE IsProfile(c, n)
    <2> DEFINE profile == [c.profiles[n] EXCEPT !.cred = cred]
    <2>1. n \in Name /\ SetCredential(c, n, cred) = [c EXCEPT !.profiles = [@ EXCEPT ![n] = profile]]
      BY <1>2 DEF SetCredential, IsProfile
    <2>2. profile \in Profile /\ profile.inst = c.profiles[n].inst
      BY <1>2 DEF Config, IsProfile, Profile
    <2> HIDE DEF profile
    <2> QED BY <2>1, <2>2, <1>2, RecordsAssumption DEF Config, TombstonesLead, IsTombstone, IsProfile
  <1> QED BY <1>1, <1>2

LEMMA NewProfileType ==
    ASSUME NEW url \in Url, NEW cred \in Credential, NEW inst \in Instance \cup {None}
    PROVE  NewProfile(url, cred, inst) \in Profile
  BY DEF NewProfile, Profile

LEMMA AdoptKeeps ==
    ASSUME NEW c \in Config, NEW ch \in Change, TombstonesLead(c), ch.url # None,
           IsProfile(c, ch.name) \/ ch.name \in Name
    PROVE  Adopt(c, ch) \in Config /\ TombstonesLead(Adopt(c, ch))
  <1> DEFINE disowned == SetCredential(c, ch.to, ch.other)
  <1>1. /\ ch.other \in Credential /\ Legacy \in Credential /\ ch.url \in Url
        /\ ch.inst \in Instance \cup {None} /\ ch.name \in Name
    BY DEF Change, Credential, Legacy, IsProfile
  <1>2. disowned \in Config /\ TombstonesLead(disowned)
    BY <1>1, SetCredentialKeeps
  <1>3. NewProfile(ch.url, Legacy, ch.inst) \in Profile
    BY <1>1, NewProfileType
  <1> HIDE DEF disowned
  <1>4. SetCredential(disowned, ch.name, Legacy) \in Config
        /\ TombstonesLead(SetCredential(disowned, ch.name, Legacy))
    BY <1>1, <1>2, SetCredentialKeeps
  <1>5. /\ Add(disowned, ch.name, NewProfile(ch.url, Legacy, ch.inst), FALSE) \in Config
        /\ TombstonesLead(Add(disowned, ch.name, NewProfile(ch.url, Legacy, ch.inst), FALSE))
    BY <1>1, <1>2, <1>3, AddKeeps
  <1> QED BY <1>4, <1>5 DEF Adopt, disowned

LEMMA ApplyKeeps ==
    ASSUME NEW c \in Config, NEW ch \in Change, TombstonesLead(c), CanApply(c, ch),
           ch.kind \in {"add", "record", "adopt"} => ch.url # None
    PROVE  Apply(c, ch) \in Config /\ TombstonesLead(Apply(c, ch))
  <1>1. /\ ch.cred \in Credential /\ ch.inst \in Instance \cup {None} /\ ch.default \in BOOLEAN
        /\ ch.kind \in {"none", "use", "add", "rename", "forget", "remove", "record", "adopt", "pin"}
        /\ ch.url # None => ch.url \in Url
    BY DEF Change
  <1>2. CASE ch.kind = "use"
    BY <1>2, SetDefaultKeeps DEF CanApply, Apply, IsProfile
  <1>3. CASE ch.kind = "add"
    <2>1. ch.name \in Name /\ NewProfile(ch.url, ch.cred, None) \in Profile
      BY <1>1, <1>3, NewProfileType DEF CanApply, CanAdd, Available
    <2> QED BY <1>1, <1>3, <2>1, AddKeeps DEF Apply
  <1>4. CASE ch.kind = "rename"
    <2>1. CanRename(c, ch.name, ch.to) /\ ch.name \in Name
      BY <1>4 DEF CanApply, CanRename, IsProfile
    <2> QED BY <1>4, <2>1, RenameKeeps DEF Apply
  <1>5. CASE ch.kind = "forget"
    BY <1>5, ForgetKeeps DEF CanApply, Apply, CanForget, IsTombstone
  <1>6. CASE ch.kind = "remove"
    BY <1>6, RemoveKeeps DEF Apply, IsProfile
  <1>7. CASE ch.kind = "record"
    <2>1. CASE IsProfile(c, ch.name)
      BY <1>7, <2>1, PinKeeps DEF Apply
    <2>2. CASE ~IsProfile(c, ch.name)
      <3>1. ch.name \in Name /\ NewProfile(ch.url, ch.cred, ch.inst) \in Profile
        BY <1>1, <1>7, <2>2, NewProfileType DEF CanApply, CanAdd, Available
      <3> QED BY <1>7, <2>2, <3>1, AddKeeps DEF Apply
    <2> QED BY <2>1, <2>2
  <1>8. CASE ch.kind = "adopt"
    <2>1. ch.name \in Name
      BY <1>8 DEF CanApply, CanAdd, Available, IsProfile
    <2> QED BY <1>8, <2>1, AdoptKeeps DEF Apply
  <1>9. CASE ch.kind \in {"none", "pin"}
    BY <1>9, PinKeeps DEF Apply
  <1> QED BY <1>1, <1>2, <1>3, <1>4, <1>5, <1>6, <1>7, <1>8, <1>9
----------------------------------------------------------------------------
(* What names mean. *)

Meanings == [Name -> Instance \cup {None}]

LEMMA MeaningType ==
    ASSUME NEW m \in Meanings, NEW freed, NEW next \in Config
    PROVE  Meaning(m, freed, next) \in Meanings
  BY DEF Meaning, Meanings, Config, Profile, IsProfile

\* A profile added to a free name, to one freed for it, or to the old name of a
\* profile of the same deployment.
LEMMA AddMeans ==
    ASSUME NEW c \in Config, NEW m \in Meanings, NEW n \in Name, NEW profile \in Profile,
           NEW d \in BOOLEAN, NEW reuse \in BOOLEAN, NEW freed,
           TombstonesLead(c), Consistent(c, m), CanAdd(c, n, profile, reuse),
           freed = IF reuse THEN {n} ELSE {}
    PROVE  Consistent(Add(c, n, profile, d), Meaning(m, freed, Add(c, n, profile, d)))
  <1> DEFINE next == Add(c, n, profile, d)
             after == Meaning(m, freed, next)
  <1>1. /\ next.profiles = [c.profiles EXCEPT ![n] = profile]
        /\ next.renamed = [c.renamed EXCEPT ![n] = None]
    BY DEF Add
  <1>2. /\ \A x \in Name : x # n => (IsProfile(next, x) <=> IsProfile(c, x))
        /\ \A x \in Name : x # n => (IsTombstone(next, x) <=> IsTombstone(c, x))
        /\ IsProfile(next, n) /\ ~IsTombstone(next, n)
    BY <1>1, RecordsAssumption DEF Config, IsProfile, IsTombstone
  <1>3. after[n] = profile.inst
    <2>1. m[n] = None \/ n \in freed \/ m[n] = profile.inst
      <3>1. ~IsProfile(c, n) /\ (IsTombstone(c, n) =>
                reuse \/ (c.renamed[n].inst # None /\ c.renamed[n].inst = profile.inst))
        BY DEF CanAdd, Available
      <3> QED BY <3>1 DEF Consistent, Taken
    <2> QED BY <2>1, <1>1, <1>2 DEF Meaning, Config
  <1>4. ASSUME NEW x \in Name, x # n
        PROVE  after[x] = m[x]
    <2>1. x \notin freed
      BY <1>4
    <2>2. IsProfile(next, x) => next.profiles[x].inst = m[x]
      BY <1>4, <1>1, <1>2 DEF Consistent, Config
    <2> QED BY <2>1, <2>2 DEF Meaning
  <1>5. ASSUME NEW x \in Name
        PROVE  /\ IsProfile(next, x) => next.profiles[x].inst = after[x]
               /\ IsTombstone(next, x) =>
                     /\ after[x] # None => next.profiles[next.renamed[x].to].inst = after[x]
                     /\ next.renamed[x].inst # None => next.renamed[x].inst = after[x]
               /\ ~Taken(next, x) => after[x] = None
    <2>1. CASE x = n
      BY <2>1, <1>1, <1>2, <1>3 DEF Config, Taken
    <2>2. CASE x # n
      <3>1. after[x] = m[x]
        BY <2>2, <1>4
      <3>2. IsProfile(next, x) => next.profiles[x].inst = after[x]
        BY <2>2, <3>1, <1>1, <1>2 DEF Consistent, Config
      <3>3. ~Taken(next, x) => after[x] = None
        BY <2>2, <3>1, <1>2 DEF Consistent, Taken
      <3>4. ASSUME IsTombstone(next, x)
            PROVE  /\ after[x] # None => next.profiles[next.renamed[x].to].inst = after[x]
                   /\ next.renamed[x].inst # None => next.renamed[x].inst = after[x]
        <4>1. IsTombstone(c, x) /\ next.renamed[x] = c.renamed[x]
          BY <3>4, <2>2, <1>1, <1>2 DEF Config
        <4>2. c.renamed[x].to # n /\ c.renamed[x].to \in Name
          <5>1. ~IsProfile(c, n)
            BY DEF CanAdd, Available
          <5> QED BY <4>1, <5>1 DEF TombstonesLead, IsProfile
        <4> QED BY <4>1, <4>2, <3>1, <1>1 DEF Consistent, Config
      <3> QED BY <3>2, <3>3, <3>4
    <2> QED BY <2>1, <2>2
  <1> QED BY <1>5 DEF Consistent

LEMMA RenameMeans ==
    ASSUME NEW c \in Config, NEW m \in Meanings, NEW old \in Name, NEW new,
           TombstonesLead(c), Consistent(c, m), CanRename(c, old, new)
    PROVE  Consistent(Rename(c, old, new), Meaning(m, {}, Rename(c, old, new)))
  <1> DEFINE next == Rename(c, old, new)
             after == Meaning(m, {}, next)
  <1>1. new \in Name /\ ~IsProfile(c, new) /\ IsProfile(c, old) /\ new # old /\ c.profiles[old] \in Profile
    BY DEF CanRename, Available, Config, IsProfile
  <1>2. next.profiles = [c.profiles EXCEPT ![old] = None, ![new] = c.profiles[old]]
    BY DEF Rename
  <1>3. /\ next.renamed[old] = [to |-> new, inst |-> c.profiles[old].inst] /\ next.renamed[new] = None
        /\ \A x \in Name : x # old /\ x # new =>
              IF IsTombstone(c, x) /\ c.renamed[x].to = old
              THEN next.renamed[x] # None /\ next.renamed[x].to = new /\ next.renamed[x].inst = c.renamed[x].inst
              ELSE next.renamed[x] = c.renamed[x]
    <2>1. \A x \in Name : IsTombstone(c, x) =>
             /\ [c.renamed[x] EXCEPT !.to = new] \in Tombstone
             /\ [c.renamed[x] EXCEPT !.to = new].to = new
             /\ [c.renamed[x] EXCEPT !.to = new].inst = c.renamed[x].inst
      BY <1>1 DEF Config, Tombstone, IsTombstone
    <2> QED BY <2>1, <1>1, RecordsAssumption DEF Rename, IsTombstone
  <1>4. IsTombstone(next, old) /\ ~IsTombstone(next, new)
    <2>1. [to |-> new, inst |-> c.profiles[old].inst] \in Tombstone
      BY <1>1 DEF Tombstone, Profile
    <2> QED BY <2>1, <1>1, <1>3, RecordsAssumption DEF IsTombstone
  <1>5. /\ IsProfile(next, new) /\ ~IsProfile(next, old)
        /\ next.profiles[new] = c.profiles[old]
        /\ \A x \in Name : x # old /\ x # new => next.profiles[x] = c.profiles[x]
    BY <1>1, <1>2, RecordsAssumption DEF Config, IsProfile
  <1>6. c.profiles[old].inst = m[old]
    BY <1>1 DEF Consistent
  <1>7. m[new] = None \/ m[new] = m[old]
    <2>1. IsTombstone(c, new) =>
             \/ c.renamed[new].to = old
             \/ c.renamed[new].inst # None /\ c.renamed[new].inst = c.profiles[old].inst
      BY DEF CanRename, Available
    <2> QED BY <2>1, <1>1, <1>6 DEF Consistent, Taken
  <1>8. after[new] = m[old]
    BY <1>1, <1>5, <1>6, <1>7 DEF Meaning
  <1>9. ASSUME NEW x \in Name, x # new
        PROVE  after[x] = m[x]
    <2>1. IsProfile(next, x) => IsProfile(c, x) /\ next.profiles[x].inst = m[x]
      BY <1>9, <1>5 DEF Consistent, IsProfile
    <2> QED BY <2>1 DEF Meaning
  <1>10. ASSUME NEW x \in Name
         PROVE  /\ IsProfile(next, x) => next.profiles[x].inst = after[x]
                /\ IsTombstone(next, x) =>
                      /\ after[x] # None => next.profiles[next.renamed[x].to].inst = after[x]
                      /\ next.renamed[x].inst # None => next.renamed[x].inst = after[x]
                /\ ~Taken(next, x) => after[x] = None
    <2>1. CASE x = new
      BY <2>1, <1>1, <1>4, <1>5, <1>6, <1>8 DEF Taken
    <2>2. CASE x = old
      BY <2>2, <1>1, <1>3, <1>4, <1>5, <1>6, <1>9 DEF Taken
    <2>3. CASE x # new /\ x # old
      <3>1. after[x] = m[x] /\ (IsProfile(next, x) <=> IsProfile(c, x))
            /\ (IsTombstone(next, x) <=> IsTombstone(c, x))
        BY <2>3, <1>9, <1>5, <1>3 DEF IsProfile, IsTombstone
      <3>2. IsProfile(next, x) => next.profiles[x].inst = after[x]
        BY <2>3, <3>1, <1>5 DEF Consistent
      <3>3. ~Taken(next, x) => after[x] = None
        BY <3>1 DEF Consistent, Taken
      <3>4. ASSUME IsTombstone(next, x)
            PROVE  /\ after[x] # None => next.profiles[next.renamed[x].to].inst = after[x]
                   /\ next.renamed[x].inst # None => next.renamed[x].inst = after[x]
        <4>1. IsTombstone(c, x) /\ IsProfile(c, c.renamed[x].to)
          BY <3>4, <3>1 DEF TombstonesLead
        <4>2. /\ m[x] # None => c.profiles[c.renamed[x].to].inst = m[x]
              /\ c.renamed[x].inst # None => c.renamed[x].inst = m[x]
          BY <4>1 DEF Consistent
        <4>3. CASE c.renamed[x].to = old
          BY <4>1, <4>2, <4>3, <2>3, <3>1, <1>3, <1>5
        <4>4. CASE c.renamed[x].to # old
          <5>1. next.renamed[x] = c.renamed[x] /\ c.renamed[x].to # new /\ c.renamed[x].to \in Name
            BY <4>1, <4>4, <2>3, <1>1, <1>3 DEF IsProfile
          <5> QED BY <5>1, <4>2, <4>4, <3>1, <1>5
        <4> QED BY <4>3, <4>4
      <3> QED BY <3>2, <3>3, <3>4
    <2> QED BY <2>1, <2>2, <2>3
  <1> QED BY <1>10 DEF Consistent

LEMMA ForgetMeans ==
    ASSUME NEW c \in Config, NEW m \in Meanings, NEW n \in Name,
           TombstonesLead(c), Consistent(c, m), CanForget(c, n)
    PROVE  Consistent(Forget(c, n), Meaning(m, {n}, Forget(c, n)))
  <1> DEFINE next == Forget(c, n)
             after == Meaning(m, {n}, next)
  <1>1. /\ next.profiles = c.profiles /\ next.renamed = [c.renamed EXCEPT ![n] = None]
        /\ \A x \in Name : IsProfile(next, x) <=> IsProfile(c, x)
        /\ \A x \in Name : IsTombstone(next, x) <=> IsTombstone(c, x) /\ x # n
        /\ ~IsProfile(c, n)
    BY DEF Forget, Config, CanForget, IsTombstone, IsProfile, TombstonesLead
  <1>2. after[n] = None /\ \A x \in Name : x # n => after[x] = m[x]
    BY <1>1 DEF Meaning, Consistent
  <1>3. ASSUME NEW x \in Name
        PROVE  /\ IsProfile(next, x) => next.profiles[x].inst = after[x]
               /\ IsTombstone(next, x) =>
                     /\ after[x] # None => next.profiles[next.renamed[x].to].inst = after[x]
                     /\ next.renamed[x].inst # None => next.renamed[x].inst = after[x]
               /\ ~Taken(next, x) => after[x] = None
    <2>1. CASE x = n
      BY <2>1, <1>1, <1>2
    <2>2. CASE x # n
      <3>1. after[x] = m[x] /\ next.renamed[x] = c.renamed[x]
        BY <2>2, <1>1, <1>2 DEF Config
      <3> HIDE DEF next, after
      <3> QED BY <2>2, <3>1, <1>1 DEF Consistent, Taken
    <2> QED BY <2>1, <2>2
  <1> QED BY <1>3 DEF Consistent

LEMMA RemoveMeans ==
    ASSUME NEW c \in Config, NEW m \in Meanings, NEW n \in Name,
           TombstonesLead(c), Consistent(c, m), IsProfile(c, n)
    PROVE  LET freed == {n} \cup {x \in Name : IsTombstone(c, x) /\ c.renamed[x].to = n} IN
           Consistent(Remove(c, n), Meaning(m, freed, Remove(c, n)))
  <1> DEFINE freed == {n} \cup {x \in Name : IsTombstone(c, x) /\ c.renamed[x].to = n}
             next == Remove(c, n)
             after == Meaning(m, freed, next)
  <1>1. /\ next.profiles = [c.profiles EXCEPT ![n] = None]
        /\ \A x \in Name : IsProfile(next, x) <=> IsProfile(c, x) /\ x # n
        /\ \A x \in Name : x \notin freed => next.renamed[x] = c.renamed[x]
        /\ \A x \in Name : x \in freed => ~IsProfile(next, x) /\ ~IsTombstone(next, x)
    BY DEF Remove, Config, IsProfile, IsTombstone, TombstonesLead
  <1>2. \A x \in Name : after[x] = IF x \in freed THEN None ELSE m[x]
    <2> TAKE x \in Name
    <2>1. IsProfile(next, x) => x # n /\ next.profiles[x].inst = m[x]
      BY <1>1 DEF Consistent, Config
    <2> QED BY <2>1, <1>1 DEF Meaning
  <1>3. ASSUME NEW x \in Name
        PROVE  /\ IsProfile(next, x) => next.profiles[x].inst = after[x]
               /\ IsTombstone(next, x) =>
                     /\ after[x] # None => next.profiles[next.renamed[x].to].inst = after[x]
                     /\ next.renamed[x].inst # None => next.renamed[x].inst = after[x]
               /\ ~Taken(next, x) => after[x] = None
    <2>1. CASE x \in freed
      BY <2>1, <1>1, <1>2
    <2>2. CASE x \notin freed
      <3>1. after[x] = m[x] /\ next.renamed[x] = c.renamed[x] /\ x # n
        BY <2>2, <1>1, <1>2
      <3>2. IsTombstone(next, x) => IsTombstone(c, x) /\ c.renamed[x].to # n /\ c.renamed[x].to \in Name
        BY <2>2, <3>1 DEF IsTombstone, TombstonesLead, IsProfile
      <3> QED BY <3>1, <3>2, <1>1 DEF Consistent, Taken, Config, IsTombstone
    <2> QED BY <2>1, <2>2
  <1> QED BY <1>3 DEF Consistent

\* A change that keeps every profile's pin, or gives a pin to one that has none.
LEMMA InPlaceMeans ==
    ASSUME NEW c \in Config, NEW m \in Meanings, NEW next \in Config,
           Consistent(c, m), TombstonesLead(c),
           next.renamed = c.renamed,
           \A x \in Name : IsProfile(next, x) <=> IsProfile(c, x),
           \A x \in Name : IsProfile(c, x) =>
              next.profiles[x].inst = c.profiles[x].inst \/ c.profiles[x].inst = None
    PROVE  Consistent(next, Meaning(m, {}, next))
  <1> DEFINE after == Meaning(m, {}, next)
  <1>1. \A x \in Name : after[x] = IF IsProfile(c, x) THEN next.profiles[x].inst ELSE m[x]
    BY DEF Meaning, Consistent
  <1>2. \A x \in Name : IsTombstone(next, x) <=> IsTombstone(c, x)
    BY DEF IsTombstone
  <1>3. ASSUME NEW x \in Name, IsTombstone(c, x)
        PROVE  /\ after[x] # None => next.profiles[next.renamed[x].to].inst = after[x]
               /\ next.renamed[x].inst # None => next.renamed[x].inst = after[x]
    <2>1. ~IsProfile(c, x) /\ IsProfile(c, c.renamed[x].to) /\ c.renamed[x].to \in Name
      BY <1>3 DEF TombstonesLead, IsProfile
    <2>2. after[x] = m[x]
      BY <1>1, <2>1
    <2>3. m[x] # None => c.profiles[c.renamed[x].to].inst = m[x]
      BY <1>3 DEF Consistent
    <2> QED BY <1>3, <2>1, <2>2, <2>3 DEF Consistent
  <1> HIDE DEF after
  <1> QED BY <1>1, <1>2, <1>3 DEF Consistent, Taken, after

LEMMA PinMeans ==
    ASSUME NEW c \in Config, NEW m \in Meanings, NEW ch \in Change, TombstonesLead(c), Consistent(c, m)
    PROVE  Consistent(Pin(c, ch), Meaning(m, {}, Pin(c, ch)))
  <1>1. Pin(c, ch) \in Config
    BY PinKeeps
  <1>2. /\ Pin(c, ch).renamed = c.renamed
        /\ \A x \in Name : IsProfile(Pin(c, ch), x) <=> IsProfile(c, x)
        /\ \A x \in Name : IsProfile(c, x) =>
              Pin(c, ch).profiles[x].inst = c.profiles[x].inst \/ c.profiles[x].inst = None
    <2>1. CASE Pin(c, ch) = c
      BY <2>1
    <2>2. CASE Pin(c, ch) # c
      <3> DEFINE profile == [c.profiles[ch.name] EXCEPT !.inst = ch.inst]
      <3>1. /\ IsProfile(c, ch.name) /\ ch.name \in Name /\ c.profiles[ch.name].inst = None
            /\ Pin(c, ch) = [c EXCEPT !.profiles = [@ EXCEPT ![ch.name] = profile]]
        BY <2>2 DEF Pin, IsProfile
      <3>2. profile \in Profile
        BY <3>1 DEF Config, IsProfile, Profile, Change
      <3> HIDE DEF profile
      <3> QED BY <3>1, <3>2, RecordsAssumption DEF Config, IsProfile
    <2> QED BY <2>1, <2>2
  <1> QED BY <1>1, <1>2, InPlaceMeans

LEMMA AdoptMeans ==
    ASSUME NEW c \in Config, NEW m \in Meanings, NEW ch \in Change, TombstonesLead(c), Consistent(c, m),
           ch.kind = "adopt", CanApply(c, ch), ch.url # None
    PROVE  Consistent(Adopt(c, ch), Meaning(m, {}, Adopt(c, ch)))
  <1> DEFINE disowned == SetCredential(c, ch.to, ch.other)
  <1>1. /\ ch.other \in Credential /\ Legacy \in Credential /\ ch.url \in Url
        /\ ch.inst \in Instance \cup {None}
    BY DEF Change, Credential, Legacy
  <1>2. /\ disowned \in Config /\ TombstonesLead(disowned) /\ disowned.renamed = c.renamed
        /\ \A x \in Name : IsProfile(disowned, x) <=> IsProfile(c, x)
        /\ \A x \in Name : IsProfile(c, x) => disowned.profiles[x].inst = c.profiles[x].inst
    BY <1>1, SetCredentialKeeps
  <1> HIDE DEF disowned
  <1>3. CASE IsProfile(c, ch.name)
    <2> DEFINE next == SetCredential(disowned, ch.name, Legacy)
    <2>1. /\ next \in Config /\ next.renamed = disowned.renamed
          /\ \A x \in Name : IsProfile(next, x) <=> IsProfile(disowned, x)
          /\ \A x \in Name : IsProfile(disowned, x) => next.profiles[x].inst = disowned.profiles[x].inst
      BY <1>1, <1>2, SetCredentialKeeps
    <2>2. Adopt(c, ch) = next
      BY <1>3 DEF Adopt, disowned
    <2> HIDE DEF next
    <2>3. /\ next.renamed = c.renamed
          /\ \A x \in Name : IsProfile(next, x) <=> IsProfile(c, x)
          /\ \A x \in Name : IsProfile(c, x) => next.profiles[x].inst = c.profiles[x].inst
      BY <1>2, <2>1
    <2>4. Consistent(next, Meaning(m, {}, next))
      BY <2>1, <2>3, InPlaceMeans
    <2> QED BY <2>2, <2>4
  <1>4. CASE ~IsProfile(c, ch.name)
    <2> DEFINE profile == NewProfile(ch.url, Legacy, ch.inst)
    <2>1. profile \in Profile
      BY <1>1, NewProfileType
    <2>2. CanAdd(c, ch.name, profile, FALSE) /\ ch.name \in Name
      BY <1>4 DEF CanApply, CanAdd, Available
    <2>3. CanAdd(disowned, ch.name, profile, FALSE)
      BY <2>2, <1>2 DEF CanAdd, Available, IsTombstone
    <2>4. Consistent(disowned, m)
      <3>1. \A x \in Name : IsTombstone(disowned, x) <=> IsTombstone(c, x)
        BY <1>2 DEF IsTombstone
      <3>2. \A x \in Name : IsTombstone(c, x) => c.renamed[x].to \in Name /\ IsProfile(c, c.renamed[x].to)
        BY DEF TombstonesLead, IsProfile
      <3>3. ASSUME NEW x \in Name
            PROVE  /\ IsProfile(disowned, x) => disowned.profiles[x].inst = m[x]
                   /\ IsTombstone(disowned, x) =>
                         /\ m[x] # None => disowned.profiles[disowned.renamed[x].to].inst = m[x]
                         /\ disowned.renamed[x].inst # None => disowned.renamed[x].inst = m[x]
                   /\ ~Taken(disowned, x) => m[x] = None
        <4>1. /\ IsProfile(c, x) => c.profiles[x].inst = m[x]
              /\ IsTombstone(c, x) => /\ m[x] # None => c.profiles[c.renamed[x].to].inst = m[x]
                                      /\ c.renamed[x].inst # None => c.renamed[x].inst = m[x]
              /\ ~Taken(c, x) => m[x] = None
          BY DEF Consistent
        <4> QED BY <4>1, <1>2, <3>1, <3>2 DEF Taken
      <3> QED BY <3>3 DEF Consistent
    <2> HIDE DEF profile
    <2>5. Consistent(Add(disowned, ch.name, profile, FALSE), Meaning(m, {}, Add(disowned, ch.name, profile, FALSE)))
      BY <1>2, <2>1, <2>2, <2>3, <2>4, AddMeans
    <2> QED BY <1>4, <2>5 DEF Adopt, disowned, profile
  <1> QED BY <1>3, <1>4

LEMMA ApplyMeans ==
    ASSUME NEW c \in Config, NEW m \in Meanings, NEW ch \in Change,
           TombstonesLead(c), Consistent(c, m), CanApply(c, ch),
           ch.kind \in {"add", "record", "adopt"} => ch.url # None
    PROVE  Consistent(Apply(c, ch), Meaning(m, Freed(c, ch), Apply(c, ch)))
  <1>1. /\ ch.cred \in Credential /\ ch.inst \in Instance \cup {None} /\ ch.default \in BOOLEAN
        /\ ch.force \in BOOLEAN
        /\ ch.kind \in {"none", "use", "add", "rename", "forget", "remove", "record", "adopt", "pin"}
        /\ ch.url # None => ch.url \in Url
    BY DEF Change
  <1>2. CASE ch.kind = "use"
    <2>1. ch.name \in Name
      BY <1>2 DEF CanApply, IsProfile
    <2>2. SetDefault(c, ch.name) \in Config
      BY <2>1, SetDefaultKeeps
    <2>3. /\ SetDefault(c, ch.name).renamed = c.renamed
          /\ SetDefault(c, ch.name).profiles = c.profiles
      BY DEF SetDefault, Config
    <2>4. Consistent(SetDefault(c, ch.name), Meaning(m, {}, SetDefault(c, ch.name)))
      BY <2>2, <2>3, InPlaceMeans DEF IsProfile
    <2> QED BY <1>2, <2>4 DEF Apply, Freed
  <1>3. CASE ch.kind = "add"
    <2> DEFINE profile == NewProfile(ch.url, ch.cred, None)
               next == Add(c, ch.name, profile, ch.default)
    <2>1. profile \in Profile
      BY <1>1, <1>3, NewProfileType
    <2>2. CanAdd(c, ch.name, profile, ch.force) /\ ch.name \in Name
      BY <1>3 DEF CanApply, CanAdd, Available
    <2>3. Freed(c, ch) = IF ch.force THEN {ch.name} ELSE {}
      BY <1>3 DEF Freed
    <2> HIDE DEF profile
    <2>4. Consistent(next, Meaning(m, Freed(c, ch), next))
      BY <1>1, <2>1, <2>2, <2>3, AddMeans
    <2> QED BY <1>3, <2>4 DEF Apply, profile
  <1>4. CASE ch.kind = "rename"
    <2>1. CanRename(c, ch.name, ch.to) /\ ch.name \in Name
      BY <1>4 DEF CanApply, CanRename, IsProfile
    <2>2. Consistent(Rename(c, ch.name, ch.to), Meaning(m, {}, Rename(c, ch.name, ch.to)))
      BY <2>1, RenameMeans
    <2> QED BY <1>4, <2>2 DEF Apply, Freed
  <1>5. CASE ch.kind = "forget"
    <2>1. CanForget(c, ch.name) /\ ch.name \in Name
      BY <1>5 DEF CanApply, CanForget, IsTombstone
    <2>2. Consistent(Forget(c, ch.name), Meaning(m, {ch.name}, Forget(c, ch.name)))
      BY <2>1, ForgetMeans
    <2> QED BY <1>5, <2>2 DEF Apply, Freed
  <1>6. CASE ch.kind = "remove"
    <2>1. CASE IsProfile(c, ch.name)
      <3>1. Freed(c, ch) = {ch.name} \cup {x \in Name : IsTombstone(c, x) /\ c.renamed[x].to = ch.name}
        BY <1>6, <2>1 DEF Freed
      <3>2. ch.name \in Name
        BY <2>1 DEF IsProfile
      <3>3. Consistent(Remove(c, ch.name), Meaning(m, Freed(c, ch), Remove(c, ch.name)))
        BY <2>1, <3>1, <3>2, RemoveMeans
      <3> QED BY <1>6, <2>1, <3>3 DEF Apply
    <2>2. CASE ~IsProfile(c, ch.name)
      <3>1. Freed(c, ch) = {} /\ Apply(c, ch) = c
        BY <1>6, <2>2 DEF Freed, Apply
      <3> QED BY <3>1, InPlaceMeans
    <2> QED BY <2>1, <2>2
  <1>7. CASE ch.kind = "record"
    <2>1. CASE IsProfile(c, ch.name)
      BY <1>7, <2>1, PinMeans DEF Apply, Freed
    <2>2. CASE ~IsProfile(c, ch.name)
      <3> DEFINE profile == NewProfile(ch.url, ch.cred, ch.inst)
                 next == Add(c, ch.name, profile, FALSE)
      <3>1. profile \in Profile
        BY <1>1, <1>7, NewProfileType
      <3>2. CanAdd(c, ch.name, profile, FALSE) /\ ch.name \in Name
        BY <1>7, <2>2 DEF CanApply, CanAdd, Available
      <3> HIDE DEF profile
      <3>3. Consistent(next, Meaning(m, {}, next))
        BY <3>1, <3>2, AddMeans
      <3> QED BY <1>7, <2>2, <3>3 DEF Apply, Freed, profile
    <2> QED BY <2>1, <2>2
  <1>8. CASE ch.kind = "adopt"
    BY <1>8, AdoptMeans DEF Apply, Freed
  <1>9. CASE ch.kind \in {"none", "pin"}
    BY <1>9, PinMeans DEF Apply, Freed
  <1> QED BY <1>1, <1>2, <1>3, <1>4, <1>5, <1>6, <1>7, <1>8, <1>9
----------------------------------------------------------------------------
(* What a process reads and chooses. *)

Kept ==
    /\ DOMAIN files \subseteq Credential /\ files \in [DOMAIN files -> Session]
    /\ live \subseteq Nat
    /\ deployed \in [Url -> Instance]
    /\ drawn \in Nat
    /\ scene \in Scene
    /\ calm \in BOOLEAN /\ crowded \in BOOLEAN

LEMMA TypeParts ==
    TypeOK <=> /\ Kept
               /\ config \in Config \cup {None}
               /\ lock \in Lock \cup {None}
               /\ proc \in [Proc -> Process]
               /\ trouble \in BOOLEAN
               /\ meant \in Meanings
  BY DEF TypeOK, Kept, Meanings

LEMMA StoredType ==
    ASSUME Kept, NEW c
    PROVE  Stored(c) \in Session \cup {None} /\ (Stored(c) # None => Stored(c) = files[c] /\ Stored(c) \in Session)
  BY NoneAssumption DEF Kept, Stored

LEMMA SaveType ==
    ASSUME Kept, NEW c \in Credential, NEW s \in Session, Save(c, s)
    PROVE  DOMAIN files' \subseteq Credential /\ files' \in [DOMAIN files' -> Session]
  BY DEF Kept, Save

LEMMA ClearType ==
    ASSUME Kept, NEW c, Clear(c)
    PROVE  DOMAIN files' \subseteq Credential /\ files' \in [DOMAIN files' -> Session]
  BY DEF Kept, Clear

LEMMA LegacyConfig ==
    ASSUME NEW url \in Url
    PROVE  /\ FromLegacy(url) \in Config /\ Valid(FromLegacy(url))
           /\ \A n \in Name : ~IsTombstone(FromLegacy(url), n)
           /\ \A n \in Name : IsProfile(FromLegacy(url), n) => FromLegacy(url).profiles[n].inst = None
  <1> DEFINE profile == NewProfile(url, Legacy, None)
  <1>1. profile \in Profile /\ profile.inst = None
    BY NewProfileType DEF NewProfile, Legacy, Credential
  <1>2. FromLegacy(url) = [default |-> DefaultName,
                          profiles |-> [n \in Name |-> IF n = DefaultName THEN profile ELSE None],
                          renamed |-> [n \in Name |-> None]]
    <2> DEFINE profiles == [Empty.profiles EXCEPT ![DefaultName] = profile]
    <2>1. profiles = [n \in Name |-> IF n = DefaultName THEN profile ELSE None]
      BY ConfigAssumption DEF Empty
    <2>2. FromLegacy(url) = [Empty EXCEPT !.default = DefaultName, !.profiles = profiles]
      BY DEF FromLegacy
    <2> HIDE DEF profiles
    <2>3. FromLegacy(url) = [default |-> DefaultName, profiles |-> profiles,
                            renamed |-> [n \in Name |-> None]]
      BY <2>2 DEF Empty
    <2> QED BY <2>1, <2>3
  <1> HIDE DEF profile
  <1> QED BY <1>1, <1>2, RecordsAssumption, ConfigAssumption DEF Config, Valid, IsTombstone, IsProfile

LEMMA EmptyConfig ==
    /\ Empty \in Config /\ Valid(Empty)
    /\ \A n \in Name : ~IsTombstone(Empty, n) /\ ~IsProfile(Empty, n)
  BY DEF Empty, Config, Valid, IsTombstone, IsProfile

LEMMA LoadedType ==
    ASSUME Kept, config \in Config \cup {None}, ConfigIsValid
    PROVE  Loaded \in Config /\ Valid(Loaded) /\ TombstonesLead(Loaded)
  <1>1. CASE config # None
    BY <1>1 DEF Loaded, ConfigIsValid
  <1>2. CASE config = None /\ Stored(Legacy) # None
    <2>1. files[Legacy].url \in Url
      BY <1>2, StoredType DEF Session
    <2> QED BY <1>2, <2>1, LegacyConfig DEF Loaded, TombstonesLead
  <1>3. CASE config = None /\ Stored(Legacy) = None
    BY <1>3, EmptyConfig DEF Loaded, TombstonesLead
  <1> QED BY <1>1, <1>2, <1>3

LEMMA LoadedMeans ==
    ASSUME Kept, config \in Config \cup {None}, meant \in Meanings,
           config = None => MeansNothing, config # None => Consistent(config, meant)
    PROVE  Consistent(Loaded, meant)
  <1>1. CASE config # None
    BY <1>1 DEF Loaded
  <1>2. CASE config = None /\ Stored(Legacy) # None
    <2>1. files[Legacy].url \in Url
      BY <1>2, StoredType DEF Session
    <2> QED BY <1>2, <2>1, LegacyConfig DEF Loaded, Consistent, MeansNothing
  <1>3. CASE config = None /\ Stored(Legacy) = None
    BY <1>3, EmptyConfig DEF Loaded, Consistent, MeansNothing
  <1> QED BY <1>1, <1>2, <1>3

Choice == [name: Name \cup {None}, url: Url \cup {None}, source: Source]

\* A choice is a refusal or has a server, and a profile that it names exists.
GoodChoice(c, chosen) ==
    /\ chosen \in Choice
    /\ chosen # Refusal => chosen.url \in Url
    /\ chosen.name # None => IsProfile(c, chosen.name)

LEMMA RefusalIsGood == ASSUME NEW c PROVE GoodChoice(c, Refusal)
  BY DEF GoodChoice, Refusal, Choice, Source

LEMMA ThroughIsGood ==
    ASSUME NEW c \in Config, NEW n, NEW source \in Source, IsProfile(c, n)
    PROVE  GoodChoice(c, Through(c, n, source))
  <1>1. n \in Name /\ c.profiles[n].url \in Url
    BY DEF IsProfile, Config, Profile
  <1> QED BY <1>1 DEF GoodChoice, Through, Choice

LEMMA ByNameIsGood ==
    ASSUME NEW c \in Config, NEW n, NEW source \in Source
    PROVE  GoodChoice(c, ByName(c, n, source))
  BY RefusalIsGood, ThroughIsGood DEF ByName

LEMMA ByUrlIsGood ==
    ASSUME NEW c \in Config, NEW url \in Url, NEW source \in Source
    PROVE  GoodChoice(c, ByUrl(c, url, source))
  <1> DEFINE matching == ProfilesForUrl(c, url)
  <1>1. CASE matching = {}
    <2>1. ByUrl(c, url, source) = [name |-> None, url |-> url, source |-> source]
      BY <1>1 DEF ByUrl
    <2> QED BY <2>1 DEF GoodChoice, Choice
  <1>2. CASE matching # {} /\ \E n \in Name : matching = {n}
    <2>1. PICK n \in Name : n = CHOOSE x \in Name : matching = {x}
      BY <1>2
    <2>2. matching = {n}
      BY <1>2, <2>1
    <2>3. IsProfile(c, n)
      BY <2>2 DEF ProfilesForUrl, Profiles
    <2>4. ByUrl(c, url, source) = Through(c, n, source)
      BY <1>2, <2>1 DEF ByUrl
    <2> QED BY <2>3, <2>4, ThroughIsGood
  <1>3. CASE matching # {} /\ ~\E n \in Name : matching = {n}
    BY <1>3, RefusalIsGood DEF ByUrl
  <1> QED BY <1>1, <1>2, <1>3

LEMMA ByInstanceIsGood ==
    ASSUME NEW c \in Config, NEW inst, NEW tie, NEW source \in Source
    PROVE  GoodChoice(c, ByInstance(c, inst, tie, source))
  <1> DEFINE pinned == ProfilesForInstance(c, inst)
  <1>1. CASE \E n \in Name : pinned = {n}
    <2>1. PICK n \in Name : n = CHOOSE x \in Name : pinned = {x}
      BY <1>1
    <2>2. pinned = {n}
      BY <1>1, <2>1
    <2>3. IsProfile(c, n)
      BY <2>2 DEF ProfilesForInstance, Profiles
    <2>4. ByInstance(c, inst, tie, source) = Through(c, n, source)
      BY <1>1, <2>1 DEF ByInstance
    <2> QED BY <2>3, <2>4, ThroughIsGood
  <1>2. CASE ~(\E n \in Name : pinned = {n}) /\ tie \in pinned
    <2>1. IsProfile(c, tie)
      BY <1>2 DEF ProfilesForInstance, Profiles
    <2> QED BY <1>2, <2>1, ThroughIsGood DEF ByInstance
  <1>3. CASE ~(\E n \in Name : pinned = {n}) /\ tie \notin pinned
    BY <1>3, RefusalIsGood DEF ByInstance
  <1> QED BY <1>1, <1>2, <1>3

LEMMA SelectIsGood ==
    ASSUME NEW c \in Config, NEW name, NEW url \in Url \cup {None}, NEW project
    PROVE  GoodChoice(c, Select(c, name, url, project))
  <1>1. {"flag", "local_file", "project_file", "default"} \subseteq Source
    BY DEF Source
  <1>2. GoodChoice(c, ByDefault(c))
    BY <1>1, RefusalIsGood, ByNameIsGood DEF ByDefault
  <1>3. GoodChoice(c, FromProject(c, project))
    BY <1>1, <1>2, ByNameIsGood, ByInstanceIsGood DEF FromProject
  <1> QED BY <1>1, <1>2, <1>3, ByNameIsGood, ByUrlIsGood DEF Select

LEMMA AutoNameType ==
    ASSUME NEW c, NEW url \in Url
    PROVE  AutoName(c, url) \in Name
  BY ConfigAssumption DEF AutoName

LEMMA PlanLoginType ==
    ASSUME NEW c \in Config, NEW name \in Name \cup {None}, NEW url \in Url \cup {None},
           PlanLogin(c, name, url) # Refusal
    PROVE  PlanLogin(c, name, url).name \in Name \cup {None} /\ PlanLogin(c, name, url).url \in Url
  <1> DEFINE plan == PlanLogin(c, name, url)
  <1>1. "flag" \in Source /\ "default" \in Source
    BY DEF Source
  <1>2. ASSUME GoodChoice(c, plan)
        PROVE  plan.name \in Name \cup {None} /\ plan.url \in Url
    BY <1>2 DEF GoodChoice, Choice
  <1>3. CASE name # None /\ url # None
    <2>1. CASE IsProfile(c, name)
      <3>1. plan = Through(c, name, "flag")
        BY <1>3, <2>1 DEF PlanLogin
      <3> QED BY <3>1, <2>1, <1>1, <1>2, ThroughIsGood
    <2>2. CASE ~IsProfile(c, name)
      BY <1>3, <2>2 DEF PlanLogin
    <2> QED BY <2>1, <2>2
  <1>4. CASE name # None /\ url = None
    BY <1>4, <1>1, <1>2, ByNameIsGood DEF PlanLogin
  <1>5. CASE name = None /\ url # None
    BY <1>5, <1>1, <1>2, ByUrlIsGood, AutoNameType DEF PlanLogin
  <1>6. CASE name = None /\ url = None
    <2>1. plan = ByDefault(c)
      BY <1>6 DEF PlanLogin
    <2>2. GoodChoice(c, ByDefault(c))
      BY <1>1, RefusalIsGood, ByNameIsGood DEF ByDefault
    <2> QED BY <2>1, <2>2, <1>2
  <1> QED BY <1>3, <1>4, <1>5, <1>6

LEMMA HeirsType ==
    ASSUME Kept, NEW c \in Config
    PROVE  /\ Heirs(c) \subseteq Name
           /\ Heirs(c) # {} => /\ files[Legacy].url \in Url
                               /\ (CHOOSE n \in Owners(c) : TRUE) \in Name
  <1>1. CASE config = None \/ Owners(c) = {} \/ Stored(Legacy) = None
    BY <1>1 DEF Heirs
  <1>2. CASE ~(config = None \/ Owners(c) = {} \/ Stored(Legacy) = None)
    <2>1. files[Legacy].url \in Url
      BY <1>2, StoredType DEF Session
    <2>2. (CHOOSE n \in Owners(c) : TRUE) \in Name
      BY <1>2 DEF Owners, Profiles
    <2>3. AutoName(c, files[Legacy].url) \in Name
      BY <2>1, AutoNameType
    <2>4. ProfilesForUrl(c, files[Legacy].url) \subseteq Name
      BY DEF ProfilesForUrl, Profiles
    <2>5. Heirs(c) \subseteq Name
      BY <1>2, <2>3, <2>4 DEF Heirs
    <2> QED BY <2>1, <2>2, <2>5
  <1> QED BY <1>1, <1>2
----------------------------------------------------------------------------
(* Steps. *)

LEMMA InvInit == Init => IInv
  <1> SUFFICES ASSUME Init
               PROVE  IInv
    OBVIOUS
  <1>1. Kept
    <2>1. PICK u \in Url \cup {None} :
             files = [c \in IF u = None THEN {} ELSE {Legacy} |-> [url |-> u, token |-> 1]]
      BY DEF Init
    <2>2. DOMAIN files \subseteq Credential /\ files \in [DOMAIN files -> Session]
      BY <2>1 DEF Session, Credential, Legacy
    <2>3. live \subseteq Nat /\ drawn \in Nat
      BY DEF Init
    <2>4. deployed \in [Url -> Instance] /\ scene \in Scene
      BY DeployedAssumption, ScenesAssumption DEF Init
    <2>5. calm \in BOOLEAN /\ crowded \in BOOLEAN
      BY Zenon DEF Init
    <2> QED BY <2>2, <2>3, <2>4, <2>5 DEF Kept
  <1>2. Idle \in Process /\ Well(Idle) /\ Idle.pc = "idle"
    BY DEF Idle, Process, NoChange, Change, Credential, Legacy, Well, Equipped
  <1>3. \A p \in Proc : proc[p] = Idle
    BY DEF Init
  <1>4. TypeOK
    BY <1>1, <1>2, TypeParts DEF Init, Meanings
  <1>5. LockHolds /\ \A p \in Proc : Well(proc[p]) /\ Ready(p)
    BY <1>2, <1>3 DEF LockHolds, InUpdate, At, Ready
  <1> QED BY <1>4, <1>5 DEF Init, IInv, ConfigIsValid, MeansNothing

\* A step of one process that takes it out of the update, or keeps it out, and
\* leaves config.toml, its lock and the meaning of names alone.
LEMMA QuietStep ==
    ASSUME IInv, NEW p \in Proc, NEW r \in Process, Well(r), Step(p, r),
           r.pc \notin {"stale", "read", "write", "unlock"},
           Kept', UNCHANGED <<config, lock, trouble, meant>>
    PROVE  IInv'
  <1>1. proc' \in [Proc -> Process] /\ proc'[p] = r /\ \A q \in Proc : q # p => proc'[q] = proc[q]
    BY DEF IInv, TypeOK, Step
  <1>2. TypeOK'
    BY <1>1, TypeParts DEF IInv, TypeOK, Kept, Meanings
  <1>3. \A q \in Proc : /\ InUpdate(q)' => InUpdate(q) /\ q # p
                        /\ At(q, "stale")' => At(q, "stale") /\ q # p
                        /\ At(q, "write")' => At(q, "write") /\ q # p
    BY <1>1 DEF InUpdate, At
  <1>4. LockHolds'
    BY <1>3 DEF IInv, LockHolds
  <1>5. \A q \in Proc : Well(proc[q])'
    BY <1>1 DEF IInv
  <1>6. ASSUME NEW q \in Proc
        PROVE  Ready(q)'
    <2> SUFFICES ASSUME At(q, "write")'
                 PROVE  Ready(q)'
      BY DEF Ready
    <2>1. At(q, "write") /\ Ready(q) /\ proc'[q] = proc[q]
      BY <1>1, <1>3 DEF IInv
    <2> QED BY <2>1 DEF Ready, Before, ConfigIsValid
  <1> QED BY <1>2, <1>4, <1>5, <1>6 DEF IInv, ConfigIsValid, MeansNothing

LEMMA IdleType ==
    /\ Idle \in Process /\ Well(Idle)
    /\ \A o \in {"none", "done", "refused"} :
          Ended(o) \in Process /\ Well(Ended(o)) /\ Ended(o).pc = "idle"
  <1>1. Idle \in Process
    BY DEF Idle, Process, NoChange, Change, Credential, Legacy
  <1>2. ASSUME NEW o \in {"none", "done", "refused"}
        PROVE  Ended(o) \in Process /\ Well(Ended(o)) /\ Ended(o).pc = "idle"
    BY DEF Ended, Idle, Process, NoChange, Change, Credential, Legacy, Well, Equipped
  <1> QED BY <1>1, <1>2 DEF Idle, NoChange, Well, Equipped

LEMMA ToLockType ==
    ASSUME NEW r \in Process, NEW ch \in Change, ch.kind \in {"add", "record", "adopt"} => ch.url # None
    PROVE  ToLock(r, ch) \in Process /\ Equipped(ToLock(r, ch)) /\ ToLock(r, ch).pc = "lock"
  <1> DEFINE after == ToLock(r, ch)
  <1>1. after \in Process /\ after.pc = "lock" /\ after.change = ch
    <2> DEFINE waiting == [r EXCEPT !.pc = "lock"]
    <2>1. waiting \in Process /\ waiting.pc = "lock"
      BY DEF Process
    <2>2. after = [waiting EXCEPT !.change = ch]
      BY DEF ToLock, Process
    <2> HIDE DEF after, waiting
    <2> QED BY <2>1, <2>2 DEF Process
  <1> HIDE DEF after
  <1>2. Equipped(after)
    BY <1>1 DEF Equipped
  <1> QED BY <1>1, <1>2 DEF after

LEMMA BeginKeeps ==
    ASSUME IInv, NEW p \in Proc, NEW cmd \in Command, NEW r \in Process, Begin(p, cmd, r),
           Equipped(r), r.pc \in {"idle", "lock", "take", "signin", "load"}, drawn' \in Nat
    PROVE  IInv'
  <1> DEFINE typed == IF r.pc = "idle" THEN r ELSE [r EXCEPT !.cmd = cmd]
  <1>1. typed \in Process /\ Well(typed) /\ typed.pc = r.pc
    BY NoneAssumption DEF Process, Well, Equipped
  <1>2. scene' \in Scene
    BY DEF Begin, IInv, TypeOK, Scene
  <1>3. Kept' /\ UNCHANGED <<config, lock, trouble, meant>>
    <2>1. crowded' \in BOOLEAN
      BY DEF Begin
    <2> QED BY <1>2, <2>1, TypeParts DEF Begin, IInv, Kept, shared
  <1>4. Step(p, typed)
    BY DEF Begin
  <1> HIDE DEF typed
  <1> QED BY <1>1, <1>3, <1>4, QuietStep

\* A process that begins is what its command made of it, and keeps the command.
LEMMA BeginSteps ==
    ASSUME NEW p \in Proc, NEW cmd \in Command, NEW r \in Process, Begin(p, cmd, r)
    PROVE  \E s \in Process :
              /\ Step(p, s) /\ s.pc = r.pc /\ s.name = r.name /\ s.url = r.url /\ s.cred = r.cred
              /\ s.todo = r.todo /\ s.change = r.change /\ (r.pc # "idle" => s.cmd = cmd)
  <1> DEFINE s == [r EXCEPT !.cmd = cmd]
  <1>1. s \in Process /\ s.pc = r.pc /\ s.name = r.name /\ s.url = r.url /\ s.cred = r.cred
        /\ s.todo = r.todo /\ s.change = r.change /\ s.cmd = cmd
    BY DEF Process
  <1>2. (Step(p, r) /\ r.pc = "idle") \/ Step(p, s)
    BY DEF Begin
  <1> HIDE DEF s
  <1> QED BY <1>1, <1>2

\* Nothing but its command, and where it is.
Blank(r) == r.cred = Legacy /\ r.change = NoChange

LEMMA TypedLoaded == IInv => Loaded \in Config /\ TombstonesLead(Loaded)
  BY LoadedType, TypeParts DEF IInv

LEMMA FreshType == ASSUME drawn \in Nat, NEW c PROVE FreshCredential(c) \in Credential
  BY DEF FreshCredential, Credential, Legacy

LEMMA StartEditBegins ==
    ASSUME IInv, NEW p \in Proc, NEW cmd \in Command, StartEdit(p, cmd)
    PROVE  \E r \in Process :
              /\ Begin(p, cmd, r) /\ Equipped(r) /\ r.pc = "lock"
              /\ r.cred = Legacy /\ r.change.kind \in {"use", "rename", "forget"}
              /\ r.change.cred = Legacy /\ r.change.other = Legacy
  <1> DEFINE ch == [NoChange EXCEPT !.kind = cmd.op, !.name = cmd.name, !.to = cmd.to]
             r == ToLock(Idle, ch)
  <1>1. ch \in Change /\ ch.kind = cmd.op /\ ch.cred = Legacy /\ ch.other = Legacy
    BY DEF StartEdit, Command, NoChange, Change, Credential, Legacy
  <1>2. ch.kind \in {"use", "rename", "forget"}
    BY <1>1 DEF StartEdit
  <1>3. Begin(p, cmd, r)
    BY DEF StartEdit
  <1> HIDE DEF ch
  <1>4. r \in Process /\ Equipped(r) /\ r.pc = "lock"
    BY <1>1, <1>2, IdleType, ToLockType DEF Well
  <1>5. r.cred = Legacy /\ r.change = ch
    BY DEF ToLock, Idle
  <1> HIDE DEF r
  <1> QED BY <1>1, <1>2, <1>3, <1>4, <1>5

LEMMA StartAddBegins ==
    ASSUME IInv, NEW p \in Proc, NEW cmd \in Command, StartAdd(p, cmd), cmd.url # None
    PROVE  \E r \in Process :
              /\ Begin(p, cmd, r) /\ Equipped(r) /\ r.pc = "lock" /\ r.cred = Legacy
              /\ r.change.kind = "add" /\ r.change.cred = FreshCredential(Loaded)
              /\ r.change.other = Legacy
  <1> DEFINE cred == FreshCredential(Loaded)
             ch == [NoChange EXCEPT !.kind = "add", !.name = cmd.name, !.url = cmd.url,
                                    !.cred = cred, !.force = cmd.force]
             r == ToLock(Idle, ch)
  <1>1. cred \in Credential
    BY FreshType DEF IInv, TypeOK
  <1>2. Begin(p, cmd, r)
    BY DEF StartAdd
  <1> HIDE DEF cred
  <1>3. ch \in Change /\ ch.url # None
    BY <1>1 DEF Command, NoChange, Change, Credential, Legacy
  <1>4. ch.kind = "add" /\ ch.cred = cred /\ ch.other = Legacy
    BY DEF NoChange
  <1> HIDE DEF ch
  <1>5. r \in Process /\ Equipped(r) /\ r.pc = "lock"
    BY <1>3, IdleType, ToLockType
  <1>6. r.cred = Legacy /\ r.change = ch
    BY DEF ToLock, Idle
  <1> HIDE DEF r
  <1> QED BY <1>2, <1>4, <1>5, <1>6 DEF cred

LEMMA EndedBlank == \A o : Blank(Ended(o)) /\ Blank(Idle)
  BY DEF Ended, Idle, Blank

LEMMA StartRemoveBegins ==
    ASSUME IInv, NEW p \in Proc, NEW cmd \in Command, StartRemove(p, cmd)
    PROVE  \E r \in Process :
              /\ Begin(p, cmd, r) /\ Equipped(r) /\ Blank(r)
              /\ \/ r.pc = "idle"
                 \/ /\ r.pc = "take" /\ IsProfile(Loaded, cmd.name) /\ r.name = cmd.name
                    /\ r.todo = {Loaded.profiles[cmd.name].cred}
  <1> DEFINE profile == Loaded.profiles[cmd.name]
             r == IF ~IsProfile(Loaded, cmd.name) THEN Ended("refused")
                  ELSE [Idle EXCEPT !.pc = "take", !.name = cmd.name, !.url = profile.url,
                                    !.todo = {profile.cred}]
  <1>1. Begin(p, cmd, r)
    BY DEF StartRemove
  <1>2. /\ r \in Process /\ Equipped(r) /\ Blank(r)
        /\ \/ r.pc = "idle"
           \/ /\ r.pc = "take" /\ IsProfile(Loaded, cmd.name) /\ r.name = cmd.name
              /\ r.todo = {Loaded.profiles[cmd.name].cred}
    <2>1. CASE ~IsProfile(Loaded, cmd.name)
      BY <2>1, IdleType, EndedBlank DEF Well
    <2>2. CASE IsProfile(Loaded, cmd.name)
      <3>1. profile \in Profile /\ cmd.name \in Name
        BY <2>2, TypedLoaded DEF IsProfile, Config
      <3>2. profile.url \in Url /\ {profile.cred} \in SUBSET Credential
        BY <3>1 DEF Profile
      <3>3. r = [Idle EXCEPT !.pc = "take", !.name = cmd.name, !.url = profile.url,
                             !.todo = {profile.cred}]
        BY <2>2
      <3> HIDE DEF r, profile
      <3>4. PICK name \in Name \cup {None}, url \in Url \cup {None}, todo \in SUBSET Credential :
               name = cmd.name /\ url = profile.url /\ todo = {profile.cred}
        BY <3>1, <3>2
      <3>5. r = [Idle EXCEPT !.pc = "take", !.name = name, !.url = url, !.todo = todo]
        BY <3>3, <3>4
      <3>6. r \in Process /\ Equipped(r)
        BY <3>5 DEF Idle, Process, NoChange, Change, Credential, Legacy, Equipped
      <3>7. r.pc = "take" /\ r.name = name /\ r.todo = todo /\ Blank(r)
        BY <3>5 DEF Idle, Blank
      <3> QED BY <2>2, <3>4, <3>6, <3>7 DEF profile
    <2> QED BY <2>1, <2>2
  <1> HIDE DEF r
  <1> QED BY <1>1, <1>2

LEMMA StartLogoutAllBegins ==
    ASSUME IInv, NEW p \in Proc, NEW cmd \in Command, StartLogoutAll(p, cmd)
    PROVE  \E r \in Process :
              Begin(p, cmd, r) /\ Equipped(r) /\ r.pc = "take" /\ Blank(r)
  <1> DEFINE todo == {Loaded.profiles[n].cred : n \in Profiles(Loaded)} \cup {Legacy}
             r == [Idle EXCEPT !.pc = "take", !.todo = todo]
  <1>1. Begin(p, cmd, r)
    BY DEF StartLogoutAll
  <1>2. todo \in SUBSET Credential
    BY TypedLoaded DEF Profiles, IsProfile, Config, Profile, Credential, Legacy
  <1> HIDE DEF todo
  <1>3. r \in Process /\ Equipped(r)
    BY <1>2 DEF Idle, Process, NoChange, Change, Credential, Legacy, Equipped
  <1>4. r.pc = "take" /\ Blank(r)
    BY DEF Idle, Blank
  <1> HIDE DEF r
  <1> QED BY <1>1, <1>3, <1>4

LEMMA StartLoginBegins ==
    ASSUME IInv, NEW p \in Proc, NEW cmd \in Command, StartLogin(p, cmd)
    PROVE  \E r \in Process :
              /\ Begin(p, cmd, r) /\ Equipped(r) /\ r.change = NoChange
              /\ \/ r.pc = "idle" /\ Blank(r)
                 \/ LET plan == PlanLogin(Loaded, cmd.name, cmd.url) IN
                    /\ r.pc = "signin" /\ plan # Refusal /\ r.name = plan.name /\ r.url = plan.url
                    /\ r.cred = IF IsProfile(Loaded, plan.name) THEN Loaded.profiles[plan.name].cred
                                ELSE FreshCredential(Loaded)
  <1> DEFINE plan == PlanLogin(Loaded, cmd.name, cmd.url)
             existing == IsProfile(Loaded, plan.name)
             pin == IF existing THEN Loaded.profiles[plan.name].inst ELSE None
             cred == IF existing THEN Loaded.profiles[plan.name].cred ELSE FreshCredential(Loaded)
             r == IF plan = Refusal THEN Ended("refused")
                  ELSE [Idle EXCEPT !.pc = "signin", !.name = plan.name, !.url = plan.url,
                                    !.pin = pin, !.cred = cred]
  <1>1. Begin(p, cmd, r)
    BY DEF StartLogin
  <1>2. pin \in Instance \cup {None} /\ cred \in Credential
    <2>1. FreshCredential(Loaded) \in Credential
      BY FreshType DEF IInv, TypeOK
    <2>2. existing => Loaded.profiles[plan.name] \in Profile
      BY TypedLoaded DEF IsProfile, Config
    <2> HIDE DEF existing, plan
    <2> QED BY <2>1, <2>2 DEF Profile
  <1>3. /\ r \in Process /\ Equipped(r) /\ r.change = NoChange
        /\ \/ r.pc = "idle" /\ Blank(r)
           \/ r.pc = "signin" /\ plan # Refusal /\ r.name = plan.name /\ r.url = plan.url /\ r.cred = cred
    <2>1. CASE plan = Refusal
      BY <2>1, IdleType, EndedBlank DEF Well, Blank
    <2>2. CASE plan # Refusal
      <3>1. plan.name \in Name \cup {None} /\ plan.url \in Url
        BY <2>2, TypedLoaded, PlanLoginType DEF Command
      <3>2. plan.url # None
        BY <3>1, ConfigAssumption
      <3>3. r = [Idle EXCEPT !.pc = "signin", !.name = plan.name, !.url = plan.url,
                             !.pin = pin, !.cred = cred]
        BY <2>2
      <3> HIDE DEF plan, pin, cred, r
      <3>4. r \in Process /\ Equipped(r)
        BY <3>1, <3>2, <3>3, <1>2 DEF Idle, Process, NoChange, Change, Credential, Legacy, Equipped
      <3>5. r.change = NoChange /\ r.pc = "signin" /\ r.name = plan.name /\ r.url = plan.url /\ r.cred = cred
        BY <3>3 DEF Idle
      <3> QED BY <2>2, <3>4, <3>5
    <2> QED BY <2>1, <2>2
  <1> HIDE DEF r
  <1> QED BY <1>1, <1>3

\* What a command works on that has chosen its target: a file of the older
\* builds or of a profile.
Aimed(c, cmd, r) ==
    /\ r.change = NoChange
    /\ \/ r.pc = "idle" /\ Blank(r)
       \/ r.pc = "take" /\ Blank(r) /\ cmd.op = "logout"
       \/ r.pc = "load" /\ (r.cred = Legacy \/ \E n \in Name : IsProfile(c, n) /\ c.profiles[n].cred = r.cred)

LEMMA TargetType ==
    ASSUME NEW c \in Config, NEW cmd \in Command
    PROVE  LET r == TargetOf(c, cmd) IN
           r \in Process /\ Equipped(r) /\ Aimed(c, cmd, r)
  <1> DEFINE chosen == Select(c, cmd.name, cmd.url, cmd.project)
             profile == IF chosen.name = None THEN None ELSE c.profiles[chosen.name]
             pin == IF profile = None THEN None ELSE profile.inst
             todo == IF profile # None THEN {profile.cred}
                     ELSE IF chosen = Refusal \/ (Stored(Legacy) # None /\ files[Legacy].url = chosen.url)
                     THEN {Legacy} ELSE {}
             cred == IF profile = None THEN Legacy ELSE profile.cred
             r == TargetOf(c, cmd)
  <1>1. GoodChoice(c, chosen)
    BY SelectIsGood DEF Command
  <1>2. profile # None => profile \in Profile
    BY <1>1 DEF GoodChoice, IsProfile, Config
  <1>3. pin \in Instance \cup {None} /\ todo \in SUBSET Credential /\ cred \in Credential
    <2> HIDE DEF profile, chosen
    <2> QED BY <1>2 DEF Profile, Credential, Legacy
  <1>4. \/ r \in {Ended("refused"), Ended("done")}
        \/ r = [Idle EXCEPT !.pc = "take", !.todo = todo] /\ cmd.op = "logout"
        \/ /\ chosen # Refusal
           /\ r = [Idle EXCEPT !.pc = "load", !.name = chosen.name, !.url = chosen.url,
                               !.pin = pin, !.cred = cred]
    BY DEF TargetOf
  <1>0. cred = Legacy \/ \E n \in Name : IsProfile(c, n) /\ c.profiles[n].cred = cred
    BY <1>1 DEF GoodChoice, IsProfile
  <1> HIDE DEF chosen, pin, todo, cred, r
  <1>5. CASE r \in {Ended("refused"), Ended("done")}
    <2>1. r \in Process /\ Equipped(r) /\ r.pc = "idle" /\ Blank(r)
      BY <1>5, IdleType, EndedBlank DEF Well
    <2> QED BY <2>1 DEF r, Aimed, Blank
  <1>6. CASE r = [Idle EXCEPT !.pc = "take", !.todo = todo] /\ cmd.op = "logout"
    <2>1. r \in Process /\ Equipped(r)
      BY <1>6, <1>3 DEF Idle, Process, NoChange, Change, Credential, Legacy, Equipped
    <2>2. r.pc = "take" /\ Blank(r)
      BY <1>6 DEF Idle, Blank
    <2> QED BY <1>6, <2>1, <2>2 DEF r, Aimed, Blank
  <1>7. CASE /\ chosen # Refusal
             /\ r = [Idle EXCEPT !.pc = "load", !.name = chosen.name, !.url = chosen.url,
                                 !.pin = pin, !.cred = cred]
    <2>1. chosen.name \in Name \cup {None} /\ chosen.url \in Url /\ chosen.url # None
      BY <1>1, <1>7, ConfigAssumption DEF GoodChoice, Choice
    <2>2. r \in Process /\ Equipped(r)
      BY <1>7, <1>3, <2>1 DEF Idle, Process, NoChange, Change, Credential, Legacy, Equipped
    <2>3. r.pc = "load" /\ r.cred = cred /\ r.change = NoChange
      BY <1>7 DEF Idle
    <2> QED BY <1>0, <2>2, <2>3 DEF r, Aimed
  <1> QED BY <1>4, <1>5, <1>6, <1>7

LEMMA StartResolveBegins ==
    ASSUME IInv, NEW p \in Proc, NEW cmd \in Command, StartResolve(p, cmd)
    PROVE  \E r \in Process :
              /\ Begin(p, cmd, r) /\ Equipped(r)
              /\ \/ Aimed(Loaded, cmd, r)
                 \/ LET heir == r.change.name IN
                    /\ r.pc = "lock" /\ r.cred = Legacy /\ r.change.kind = "adopt" /\ drawn' = drawn + 1
                    /\ r.change.cred = Legacy /\ r.change.other = drawn + 1
                    /\ heir \in Heirs(Loaded) /\ r.change.to = CHOOSE n \in Owners(Loaded) : TRUE
                    /\ heir \in ProfilesForUrl(Loaded, files[Legacy].url) \/ ~Taken(Loaded, heir)
  <1>1. Kept /\ drawn \in Nat
    BY TypeParts DEF IInv, TypeOK
  <1>2. CASE Heirs(Loaded) = {}
    <2> DEFINE r == TargetOf(Loaded, cmd)
    <2>1. Begin(p, cmd, r)
      BY <1>2 DEF StartResolve
    <2>2. r \in Process /\ Equipped(r) /\ Aimed(Loaded, cmd, r)
      BY TypedLoaded, TargetType
    <2> HIDE DEF r
    <2> QED BY <2>1, <2>2
  <1>3. CASE Heirs(Loaded) # {}
    <2> DEFINE owner == CHOOSE n \in Owners(Loaded) : TRUE
               url == files[Legacy].url
               other == drawn + 1
               inst(heir) == IF IsProfile(Loaded, heir) THEN Loaded.profiles[heir].inst ELSE None
               ch(heir) == [NoChange EXCEPT
                              !.kind = "adopt", !.name = heir, !.url = url,
                              !.to = owner, !.other = other, !.inst = inst(heir)]
    <2>1. PICK heir \in Heirs(Loaded) :
             /\ Begin(p, cmd, ToLock(Idle, ch(heir))) /\ drawn' = drawn + 1
             /\ heir \in ProfilesForUrl(Loaded, files[Legacy].url) \/ ~Taken(Loaded, heir)
      BY <1>3 DEF StartResolve
    <2>2. heir \in Name /\ url \in Url /\ owner \in Name /\ other \in Credential
      BY <1>1, <1>3, <2>1, TypedLoaded, HeirsType DEF Credential
    <2>3. inst(heir) \in Instance \cup {None}
      BY TypedLoaded DEF IsProfile, Config, Profile
    <2> HIDE DEF owner, url, other, inst
    <2>4. ch(heir) \in Change /\ ch(heir).url # None
      BY <2>2, <2>3, ConfigAssumption DEF NoChange, Change, Credential, Legacy
    <2>5. /\ ch(heir).kind = "adopt" /\ ch(heir).name = heir /\ ch(heir).to = owner
          /\ ch(heir).cred = Legacy /\ ch(heir).other = other
      BY DEF NoChange
    <2> HIDE DEF ch
    <2> DEFINE r == ToLock(Idle, ch(heir))
    <2>6. r \in Process /\ Equipped(r) /\ r.pc = "lock"
      BY <2>4, IdleType, ToLockType
    <2>7. r.cred = Legacy /\ r.change = ch(heir)
      BY DEF ToLock, Idle
    <2> HIDE DEF r
    <2> QED BY <2>1, <2>5, <2>6, <2>7 DEF owner, other, r
  <1> QED BY <1>2, <1>3

LEMMA TypedCommand ==
    ASSUME IInv, NEW cmd \in Menu[scene.menu]
    PROVE  cmd \in Command /\ (cmd.op = "add" => cmd.url # None)
  <1>1. scene.menu \in DOMAIN Menu
    BY DEF IInv, TypeOK, Scene
  <1> QED BY <1>1, ScenesAssumption

LEMMA StartBegins ==
    ASSUME IInv, NEW p \in Proc, NEW cmd \in Menu[scene.menu], Start(p, cmd)
    PROVE  \E r \in Process :
              Begin(p, cmd, r) /\ Equipped(r) /\ r.pc \in {"idle", "lock", "take", "signin", "load"}
  <1>1. cmd \in Command /\ (cmd.op = "add" => cmd.url # None)
    BY TypedCommand
  <1>2. CASE StartEdit(p, cmd)
    BY <1>1, <1>2, StartEditBegins
  <1>3. CASE StartAdd(p, cmd)
    BY <1>1, <1>3, StartAddBegins DEF StartAdd
  <1>4. CASE StartRemove(p, cmd)
    BY <1>1, <1>4, StartRemoveBegins
  <1>5. CASE StartLogoutAll(p, cmd)
    BY <1>1, <1>5, StartLogoutAllBegins
  <1>6. CASE StartLogin(p, cmd)
    BY <1>1, <1>6, StartLoginBegins
  <1>7. CASE StartResolve(p, cmd)
    BY <1>1, <1>7, StartResolveBegins DEF Aimed
  <1> QED BY <1>2, <1>3, <1>4, <1>5, <1>6, <1>7 DEF Start

LEMMA StartKeeps ==
    ASSUME IInv, NEW p \in Proc, NEW cmd \in Menu[scene.menu], Start(p, cmd)
    PROVE  IInv'
  <1>1. cmd \in Command
    BY TypedCommand
  <1>2. drawn' \in Nat
    <2>1. drawn \in Nat
      BY DEF IInv, TypeOK
    <2>2. \A c : StartEdit(p, c) \/ StartRemove(p, c) \/ StartLogoutAll(p, c) => drawn' = drawn
      BY DEF StartEdit, StartRemove, StartLogoutAll
    <2>3. \A c : StartAdd(p, c) \/ StartLogin(p, c) => drawn' = drawn + 1
      BY DEF StartAdd, StartLogin
    <2>4. \A c : StartResolve(p, c) => drawn' \in {drawn, drawn + 1}
      BY DEF StartResolve
    <2> QED BY <2>1, <2>2, <2>3, <2>4 DEF Start
  <1>3. PICK r \in Process :
           Begin(p, cmd, r) /\ Equipped(r) /\ r.pc \in {"idle", "lock", "take", "signin", "load"}
    BY StartBegins
  <1> QED BY <1>1, <1>2, <1>3, BeginKeeps

\* A process in an update goes on to its next step, and keeps what it needs.
LEMMA MoveOn ==
    ASSUME NEW r \in Process, Well(r), r.pc # "idle",
           NEW pc \in {"lock", "stale", "read", "write", "unlock"}
    PROVE  LET after == [r EXCEPT !.pc = pc] IN
           /\ after \in Process /\ Well(after) /\ after.pc = pc /\ after.change = r.change
  <1> DEFINE after == [r EXCEPT !.pc = pc]
  <1>1. /\ after \in Process /\ after.pc = pc
        /\ after.change = r.change /\ after.cmd = r.cmd
    BY DEF Process
  <1> HIDE DEF after
  <1>2. Well(after)
    BY <1>1 DEF Well, Equipped
  <1> QED BY <1>1, <1>2 DEF after

LEMMA Settle ==
    ASSUME NEW r \in Process, Well(r), r.pc # "idle", NEW outcome \in {"none", "done", "refused"}
    PROVE  LET after == [r EXCEPT !.pc = "unlock", !.outcome = outcome] IN
           after \in Process /\ Well(after) /\ after.pc = "unlock"
  <1> DEFINE moved == [r EXCEPT !.pc = "unlock"]
             after == [r EXCEPT !.pc = "unlock", !.outcome = outcome]
  <1>1. moved \in Process /\ Well(moved) /\ moved.pc = "unlock"
    BY MoveOn
  <1>2. after = [moved EXCEPT !.outcome = outcome]
    BY DEF Process
  <1> HIDE DEF moved, after
  <1>3. /\ after \in Process /\ after.pc = "unlock"
        /\ after.change = moved.change /\ after.cmd = moved.cmd
    BY <1>1, <1>2 DEF Process
  <1>4. Well(after)
    BY <1>1, <1>3 DEF Well, Equipped
  <1> QED BY <1>3, <1>4 DEF after

LEMMA UpdateLockKeeps ==
    ASSUME IInv, NEW p \in Proc, UpdateLock(p)
    PROVE  IInv'
  <1>1. lock = None /\ lock' = [by |-> p, old |-> FALSE]
    BY DEF UpdateLock
  <1>2. [proc[p] EXCEPT !.pc = "read"] \in Process /\ Well([proc[p] EXCEPT !.pc = "read"])
    BY MoveOn DEF IInv, TypeOK, UpdateLock, At
  <1>3. /\ proc' \in [Proc -> Process] /\ proc'[p] = [proc[p] EXCEPT !.pc = "read"]
        /\ \A q \in Proc : q # p => proc'[q] = proc[q]
    BY <1>2 DEF UpdateLock, Step, IInv, TypeOK
  <1>4. proc'[p].pc = "read"
    BY <1>3 DEF IInv, TypeOK, Process
  <1>5. TypeOK'
    <2>1. Kept'
      BY TypeParts DEF UpdateLock, IInv, Kept, history
    <2>2. lock' \in Lock
      BY <1>1 DEF Lock
    <2> QED BY <2>1, <2>2, <1>3, TypeParts DEF UpdateLock, IInv, TypeOK, history, Meanings
  <1>6. LockHolds'
    <2> SUFFICES ASSUME ~trouble
                 PROVE  LockHolds'
      BY DEF LockHolds, UpdateLock, history
    <2>1. \A q \in Proc : ~InUpdate(q) /\ ~At(q, "stale")
      BY <1>1 DEF IInv, LockHolds
    <2>2. \A q \in Proc : (InUpdate(q)' => q = p) /\ ~At(q, "stale")'
      BY <2>1, <1>3, <1>4 DEF InUpdate, At
    <2>3. lock' # None
      <3>1. lock' \in Lock
        BY <1>1 DEF Lock
      <3> QED BY <3>1, NoneAssumption
    <2>4. lock'.by = p /\ ~lock'.old
      BY <1>1
    <2> QED BY <2>2, <2>3, <2>4 DEF LockHolds
  <1>7. ASSUME NEW q \in Proc
        PROVE  Well(proc[q])' /\ Ready(q)'
    <2>1. Well(proc'[q])
      BY <1>2, <1>3 DEF IInv
    <2>2. At(q, "write")' => q # p
      BY <1>4 DEF At
    <2> QED BY <2>1, <2>2, <1>3 DEF IInv, Ready, At, Before, UpdateLock, history
  <1> QED BY <1>5, <1>6, <1>7 DEF IInv, UpdateLock, ConfigIsValid, MeansNothing, history

LEMMA JudgeStaleKeeps ==
    ASSUME IInv, NEW p \in Proc, JudgeStale(p)
    PROVE  IInv'
  <1> DEFINE r == [proc[p] EXCEPT !.pc = "stale"]
  <1>1. r \in Process /\ Well(r) /\ r.pc = "stale"
    BY MoveOn DEF IInv, TypeOK, JudgeStale, At
  <1>2. /\ proc' \in [Proc -> Process] /\ proc'[p] = r
        /\ \A q \in Proc : q # p => proc'[q] = proc[q]
    BY <1>1 DEF JudgeStale, Step, IInv, TypeOK
  <1> HIDE DEF r
  <1>3. TypeOK'
    <2>1. Kept' /\ UNCHANGED <<config, lock, meant>>
      BY TypeParts DEF JudgeStale, IInv, Kept, shared
    <2>2. trouble' \in BOOLEAN
      BY DEF JudgeStale
    <2> QED BY <2>1, <2>2, <1>2, TypeParts DEF IInv, TypeOK, Kept, Meanings
  <1>4. LockHolds'
    <2> SUFFICES ASSUME ~trouble'
                 PROVE  LockHolds'
      BY DEF LockHolds
    <2>1. ~trouble /\ \A q \in Proc : ~At(q, "stale")
      BY DEF JudgeStale
    <2>2. \A q \in Proc : (InUpdate(q)' => InUpdate(q)) /\ (At(q, "stale")' => q = p)
      BY <2>1, <1>1, <1>2 DEF InUpdate, At
    <2> QED BY <2>1, <2>2 DEF IInv, LockHolds, JudgeStale, shared
  <1>5. ASSUME NEW q \in Proc
        PROVE  Well(proc[q])' /\ Ready(q)'
    <2>1. Well(proc'[q])
      BY <1>1, <1>2 DEF IInv
    <2>2. At(q, "write")' => q # p
      BY <1>1, <1>2 DEF At
    <2>3. ~trouble' => ~trouble
      BY DEF JudgeStale
    <2> QED BY <2>1, <2>2, <2>3, <1>2 DEF IInv, Ready, At, Before, JudgeStale, shared
  <1>6. ~trouble' => ~trouble
    BY DEF JudgeStale
  <1> QED BY <1>3, <1>4, <1>5, <1>6 DEF IInv, JudgeStale, ConfigIsValid, MeansNothing, shared

LEMMA TakeOverKeeps ==
    ASSUME IInv, NEW p \in Proc, TakeOver(p)
    PROVE  IInv'
  <1> DEFINE r == [proc[p] EXCEPT !.pc = "lock"]
  <1>1. r \in Process /\ Well(r) /\ r.pc = "lock"
    BY MoveOn DEF IInv, TypeOK, TakeOver, At
  <1>2. /\ proc' \in [Proc -> Process] /\ proc'[p] = r
        /\ \A q \in Proc : q # p => proc'[q] = proc[q]
    BY <1>1 DEF TakeOver, Step, IInv, TypeOK
  <1> HIDE DEF r
  <1>3. TypeOK'
    <2>1. Kept' /\ lock' = None /\ UNCHANGED <<config, meant, trouble>>
      BY TypeParts DEF TakeOver, IInv, Kept, history
    <2> QED BY <2>1, <1>2, TypeParts DEF IInv, TypeOK, Kept, Meanings
  <1>4. LockHolds'
    <2> SUFFICES ASSUME ~trouble
                 PROVE  LockHolds'
      BY DEF LockHolds, TakeOver, history
    <2>1. lock.old /\ \A q \in Proc : At(q, "stale") => q = p
      BY DEF IInv, LockHolds, TakeOver
    <2>2. \A q \in Proc : ~InUpdate(q)
      BY <2>1 DEF IInv, LockHolds
    <2>3. \A q \in Proc : ~InUpdate(q)' /\ ~At(q, "stale")'
      BY <2>1, <2>2, <1>1, <1>2 DEF InUpdate, At
    <2> QED BY <2>3 DEF LockHolds
  <1>5. ASSUME NEW q \in Proc
        PROVE  Well(proc[q])' /\ Ready(q)'
    <2>1. Well(proc'[q])
      BY <1>1, <1>2 DEF IInv
    <2>2. At(q, "write")' => q # p
      BY <1>1, <1>2 DEF At
    <2> QED BY <2>1, <2>2, <1>2 DEF IInv, Ready, At, Before, TakeOver, history
  <1> QED BY <1>3, <1>4, <1>5 DEF IInv, TakeOver, ConfigIsValid, MeansNothing, history

LEMMA GiveUpKeeps ==
    ASSUME IInv, NEW p \in Proc, GiveUp(p)
    PROVE  IInv'
  <1>1. Kept' /\ UNCHANGED <<config, lock, trouble, meant>>
    BY TypeParts DEF GiveUp, IInv, Kept, shared, history
  <1>2. \/ Step(p, Ended("done")) \/ Step(p, Ended("refused"))
    BY DEF GiveUp
  <1> QED BY <1>1, <1>2, IdleType, QuietStep

\* Nothing can be freed of names that mean nothing.
LEMMA NothingFreed ==
    ASSUME MeansNothing, NEW a, NEW b, NEW next
    PROVE  Meaning(meant, a, next) = Meaning(meant, b, next)
  BY DEF MeansNothing, Meaning

LEMMA ReadConfigKeeps ==
    ASSUME IInv, NEW p \in Proc, ReadConfig(p)
    PROVE  IInv'
  <1> DEFINE ch == proc[p].change
             next == Apply(Loaded, ch)
  <1>1. /\ ch \in Change /\ Well(proc[p]) /\ proc[p] \in Process
        /\ ch.kind \in {"add", "record", "adopt"} => ch.url # None
    BY DEF IInv, TypeOK, Process, Well, Equipped
  <1>2. UNCHANGED <<config, lock, meant, trouble>> /\ Kept'
    BY TypeParts DEF ReadConfig, IInv, Kept, shared, history
  <1>3. CASE CanApply(Loaded, ch) /\ Valid(next)
    <2> DEFINE r == [proc[p] EXCEPT !.pc = "write", !.base = config, !.next = next]
    <2>1. next \in Config /\ TombstonesLead(next)
      BY <1>1, <1>3, TypedLoaded, ApplyKeeps
    <2>2. /\ r \in Process /\ Well(r) /\ r.pc = "write" /\ r.base = config /\ r.next = next
          /\ r.change = ch
      <3> HIDE DEF next
      <3> DEFINE writing == [proc[p] EXCEPT !.pc = "write"]
                 based == [writing EXCEPT !.base = config]
      <3>1. writing \in Process /\ Well(writing) /\ writing.pc = "write" /\ writing.change = ch
        BY <1>1, MoveOn DEF ReadConfig, At
      <3>2. r = [based EXCEPT !.next = next]
        BY <1>1 DEF Process
      <3> HIDE DEF writing, r
      <3>3. /\ based \in Process /\ based.pc = "write" /\ based.base = config
            /\ based.change = ch /\ based.cmd = writing.cmd
        BY ZenonT(40), <3>1 DEF Process, IInv, TypeOK
      <3> HIDE DEF based
      <3>4. /\ r \in Process /\ r.pc = "write" /\ r.base = config /\ r.next = next
            /\ r.change = ch /\ r.cmd = writing.cmd
        BY <3>2, <3>3, <2>1 DEF Process
      <3> QED BY <3>1, <3>4 DEF Well, Equipped
    <2>3. Step(p, r)
      BY <1>3 DEF ReadConfig
    <2> HIDE DEF r, next
    <2>4. /\ proc' \in [Proc -> Process] /\ proc'[p] = r
          /\ \A q \in Proc : q # p => proc'[q] = proc[q]
      BY <2>2, <2>3 DEF Step, IInv, TypeOK
    <2>5. TypeOK'
      BY <1>2, <2>4, TypeParts DEF IInv, TypeOK, Kept, Meanings
    <2>6. \A q \in Proc : (InUpdate(q)' <=> InUpdate(q)) /\ (At(q, "stale")' <=> At(q, "stale"))
      BY <2>2, <2>4 DEF InUpdate, At, ReadConfig
    <2>7. LockHolds'
      BY <2>6, <1>2 DEF IInv, LockHolds
    <2>8. \A q \in Proc : Well(proc[q])'
      BY <2>2, <2>4 DEF IInv
    <2>9. \A q \in Proc : q # p => Ready(q)'
      BY <2>4, <1>2 DEF IInv, Ready, At, Before
    <2>10. ASSUME ~trouble
           PROVE  Consistent(next, Meaning(meant, Freed(IF config = None THEN Empty ELSE config, ch), next))
      <3>1. Consistent(Loaded, meant)
        BY <2>10, LoadedMeans, TypeParts DEF IInv
      <3>2. Consistent(next, Meaning(meant, Freed(Loaded, ch), next))
        BY <3>1, <1>1, <1>3, TypedLoaded, TypeParts, ApplyMeans DEF IInv, next
      <3>3. CASE config = None
        <4>1. MeansNothing
          BY <3>3 DEF IInv
        <4> QED BY <4>1, <3>2, NothingFreed
      <3>4. CASE config # None
        BY <3>2, <3>4 DEF Loaded
      <3> QED BY <3>3, <3>4
    <2>11. Ready(p)'
      BY <2>1, <2>2, <2>4, <2>10, <1>2, <1>3 DEF Ready, Before, next
    <2> QED BY <2>5, <2>7, <2>8, <2>9, <2>11, <1>2 DEF IInv, ConfigIsValid, MeansNothing
  <1>4. CASE ~(CanApply(Loaded, ch) /\ Valid(next))
    <2> DEFINE r == [proc[p] EXCEPT !.pc = "unlock", !.outcome = "refused"]
    <2>1. r \in Process /\ r.pc = "unlock" /\ Well(r)
      BY <1>1, Settle DEF ReadConfig, At
    <2>2. Step(p, r)
      BY <1>4 DEF ReadConfig
    <2> HIDE DEF r
    <2>3. /\ proc' \in [Proc -> Process] /\ proc'[p] = r
          /\ \A q \in Proc : q # p => proc'[q] = proc[q]
      BY <2>1, <2>2 DEF Step, IInv, TypeOK
    <2>4. TypeOK'
      BY <1>2, <2>3, TypeParts DEF IInv, TypeOK, Kept, Meanings
    <2>5. \A q \in Proc : /\ (InUpdate(q)' <=> InUpdate(q)) /\ (At(q, "stale")' <=> At(q, "stale"))
                          /\ At(q, "write")' => q # p
      BY <2>1, <2>3 DEF InUpdate, At, ReadConfig
    <2>6. LockHolds'
      BY <2>5, <1>2 DEF IInv, LockHolds
    <2>7. \A q \in Proc : Well(proc[q])' /\ Ready(q)'
      BY <2>1, <2>3, <2>5, <1>2 DEF IInv, Ready, At, Before
    <2> QED BY <2>4, <2>6, <2>7, <1>2 DEF IInv, ConfigIsValid, MeansNothing
  <1> QED BY <1>3, <1>4

LEMMA WriteConfigKeeps ==
    ASSUME IInv, NEW p \in Proc, WriteConfig(p)
    PROVE  IInv'
  <1> DEFINE next == proc[p].next
             r == [proc[p] EXCEPT !.pc = "unlock", !.outcome = "done"]
  <1>1. /\ next \in Config /\ Valid(next) /\ TombstonesLead(next)
        /\ config' = next /\ next # None
        /\ meant' = Meaning(meant, Freed(Before(p), proc[p].change), next)
        /\ ~trouble => Consistent(next, meant')
    BY NoneAssumption DEF IInv, Ready, WriteConfig
  <1>2. r \in Process /\ r.pc = "unlock" /\ Well(r)
    BY Settle DEF IInv, TypeOK, WriteConfig, At
  <1>3. /\ proc' \in [Proc -> Process] /\ proc'[p] = r
        /\ \A q \in Proc : q # p => proc'[q] = proc[q]
    BY <1>2 DEF WriteConfig, Step, IInv, TypeOK
  <1> HIDE DEF next, r
  <1>4. UNCHANGED <<lock, trouble>> /\ Kept'
    BY TypeParts DEF WriteConfig, IInv, Kept
  <1>5. TypeOK'
    <2>1. meant' \in Meanings
      BY <1>1, MeaningType, TypeParts DEF IInv
    <2> QED BY <2>1, <1>1, <1>3, <1>4, TypeParts DEF IInv, TypeOK, Kept, Meanings
  <1>6. \A q \in Proc : (InUpdate(q)' <=> InUpdate(q)) /\ (At(q, "stale")' <=> At(q, "stale"))
    BY <1>2, <1>3 DEF InUpdate, At, WriteConfig
  <1>7. LockHolds'
    BY <1>6, <1>4 DEF IInv, LockHolds
  <1>8. ASSUME NEW q \in Proc
        PROVE  Well(proc[q])' /\ Ready(q)'
    <2>1. Well(proc'[q])
      BY <1>2, <1>3 DEF IInv
    <2>2. At(q, "write")' => q # p /\ At(q, "write") /\ proc'[q] = proc[q]
      BY <1>2, <1>3 DEF At
    <2>3. ~trouble /\ At(q, "write") => q = p
      BY DEF IInv, LockHolds, InUpdate, At, WriteConfig
    <2> QED BY <2>1, <2>2, <2>3, <1>4 DEF IInv, Ready
  <1> QED BY <1>1, <1>4, <1>5, <1>7, <1>8 DEF IInv, ConfigIsValid

LEMMA UnlockKeeps ==
    ASSUME IInv, NEW p \in Proc, Unlock(p)
    PROVE  IInv'
  <1> PICK r \in {[Idle EXCEPT !.pc = "reload", !.cmd = proc[p].cmd], Ended("none"), Ended("done"),
                   Ended("refused")} : Step(p, r)
    <2>1. proc[p].outcome \in {"none", "done", "refused"}
      BY DEF IInv, TypeOK, Process
    <2> QED BY <2>1 DEF Unlock
  <1>1. r \in Process /\ Well(r) /\ r.pc \in {"idle", "reload"}
    <2>1. CASE r = [Idle EXCEPT !.pc = "reload", !.cmd = proc[p].cmd]
      <3>1. proc[p].cmd \in Command
        BY DEF IInv, TypeOK, Process, Well, Unlock, At
      <3>2. r \in Process /\ r.pc = "reload" /\ r.cmd = proc[p].cmd /\ r.change = NoChange
        BY <2>1, <3>1 DEF Idle, Process, NoChange, Change, Credential, Legacy
      <3> QED BY <3>1, <3>2, NoneAssumption DEF Well, Equipped, NoChange
    <2> QED BY <2>1, IdleType
  <1>2. /\ proc' \in [Proc -> Process] /\ proc'[p] = r
        /\ \A q \in Proc : q # p => proc'[q] = proc[q]
    BY <1>1 DEF Step, IInv, TypeOK
  <1>3. lock' = None /\ UNCHANGED <<config, trouble, meant>> /\ Kept'
    BY TypeParts DEF Unlock, IInv, Kept, history
  <1>4. TypeOK'
    BY <1>2, <1>3, TypeParts DEF IInv, TypeOK, Kept, Meanings
  <1>5. LockHolds'
    <2> SUFFICES ASSUME ~trouble
                 PROVE  LockHolds'
      BY <1>3 DEF LockHolds
    <2>1. lock.by = p /\ ~lock.old /\ \A q \in Proc : InUpdate(q) => q = p
      BY DEF IInv, LockHolds, InUpdate, At, Unlock
    <2>2. \A q \in Proc : ~At(q, "stale")
      BY <2>1 DEF IInv, LockHolds
    <2>3. \A q \in Proc : ~InUpdate(q)' /\ ~At(q, "stale")'
      BY <2>1, <2>2, <1>1, <1>2 DEF InUpdate, At
    <2> QED BY <2>3 DEF LockHolds
  <1>6. ASSUME NEW q \in Proc
        PROVE  Well(proc[q])' /\ Ready(q)'
    <2>1. Well(proc'[q])
      BY <1>1, <1>2 DEF IInv
    <2>2. At(q, "write")' => q # p
      BY <1>1, <1>2 DEF At
    <2> QED BY <2>1, <2>2, <1>2, <1>3 DEF IInv, Ready, At, Before
  <1> QED BY <1>3, <1>4, <1>5, <1>6 DEF IInv, ConfigIsValid, MeansNothing

LEMMA AgeLockKeeps == ASSUME IInv, AgeLock PROVE IInv'
  <1>1. /\ lock' = [lock EXCEPT !.old = TRUE]
        /\ UNCHANGED <<config, proc, meant>> /\ Kept'
    BY TypeParts DEF AgeLock, IInv, Kept
  <1>2. lock \in Lock /\ lock' \in Lock /\ lock'.old /\ lock' # None
    <2>1. lock \in Lock
      BY DEF AgeLock, IInv, TypeOK
    <2>2. lock' \in Lock /\ lock'.old = TRUE
      BY <2>1, <1>1 DEF Lock
    <2> QED BY <2>1, <2>2, NoneAssumption
  <1>3. trouble' \in BOOLEAN /\ (~trouble' => ~trouble /\ ~InUpdate(lock.by))
    BY DEF AgeLock
  <1>4. TypeOK'
    BY <1>1, <1>2, <1>3, TypeParts DEF IInv, TypeOK, Kept, Meanings
  <1>5. LockHolds'
    <2> SUFFICES ASSUME ~trouble'
                 PROVE  LockHolds'
      BY DEF LockHolds
    <2>1. \A q \in Proc : ~InUpdate(q)
      BY <1>3 DEF IInv, LockHolds
    <2>2. \A q \in Proc : ~At(q, "stale")
      BY <1>3 DEF IInv, LockHolds, AgeLock
    <2> QED BY <2>1, <2>2, <1>1 DEF LockHolds, InUpdate, At
  <1> QED BY <1>1, <1>3, <1>4, <1>5 DEF IInv, Ready, Before, At, ConfigIsValid, MeansNothing

LEMMA ReloadKeeps ==
    ASSUME IInv, NEW p \in Proc, Reload(p)
    PROVE  IInv'
  <1> DEFINE target == TargetOf(Loaded, proc[p].cmd)
             r == IF target.pc = "idle" THEN target ELSE [target EXCEPT !.cmd = proc[p].cmd]
  <1>1. Kept' /\ UNCHANGED <<config, lock, trouble, meant>> /\ Step(p, r)
    BY TypeParts DEF Reload, IInv, Kept, shared, history
  <1>2. proc[p].cmd \in Command
    BY DEF IInv, TypeOK, Process, Well, Reload, At
  <1>3. target \in Process /\ Equipped(target) /\ target.pc \in {"idle", "take", "load"}
    <2>1. target \in Process /\ Equipped(target) /\ Aimed(Loaded, proc[p].cmd, target)
      BY <1>2, TypedLoaded, TargetType
    <2> QED BY <2>1 DEF Aimed
  <1> HIDE DEF target
  <1>4. r \in Process /\ Well(r) /\ r.pc = target.pc
    BY <1>2, <1>3, NoneAssumption DEF Process, Well, Equipped
  <1> HIDE DEF r
  <1> QED BY <1>1, <1>3, <1>4, QuietStep

\* A step outside the update, of a process that goes on with its target.
LEMMA GoOn ==
    ASSUME NEW r \in Process, Well(r), r.pc # "idle", r.url # None, NEW pc,
           pc \in {"refresh", "save", "ask", "store", "revoke", "clear"}, NEW session \in Session
    PROVE  LET after == [r EXCEPT !.pc = pc, !.session = session] IN
           after \in Process /\ Well(after) /\ after.pc = pc
  <1> DEFINE moved == [r EXCEPT !.pc = pc]
             after == [r EXCEPT !.pc = pc, !.session = session]
  <1>1. /\ moved \in Process /\ moved.pc = pc /\ moved.url = r.url
        /\ moved.change = r.change /\ moved.cmd = r.cmd
    BY DEF Process
  <1>2. after = [moved EXCEPT !.session = session]
    BY DEF Process
  <1> HIDE DEF moved, after
  <1>3. /\ after \in Process /\ after.pc = pc /\ after.url = r.url /\ after.session = session
        /\ after.change = r.change /\ after.cmd = r.cmd
    BY <1>1, <1>2 DEF Process
  <1>4. Well(after)
    BY <1>3, NoneAssumption DEF Well, Equipped
  <1> QED BY <1>3, <1>4 DEF after

LEMMA LoadSessionKeeps ==
    ASSUME IInv, NEW p \in Proc, LoadSession(p)
    PROVE  IInv'
  <1>1. Kept' /\ UNCHANGED <<config, lock, trouble, meant>>
    BY TypeParts DEF LoadSession, IInv, Kept, shared, history
  <1>2. CASE Step(p, Ended("refused"))
    BY <1>1, <1>2, IdleType, QuietStep DEF Well, Ended, Idle
  <1>3. CASE ~Step(p, Ended("refused"))
    <2> DEFINE s == Stored(proc[p].cred)
    <2> DEFINE renews == [proc[p] EXCEPT !.pc = "refresh", !.session = s]
               asks == [proc[p] EXCEPT !.pc = "ask", !.session = s]
    <2>1. s # None /\ (Step(p, renews) \/ Step(p, asks))
      BY <1>3 DEF LoadSession
    <2>2. s \in Session
      BY <2>1, StoredType, TypeParts DEF IInv
    <2> HIDE DEF s
    <2>3. proc[p] \in Process /\ Well(proc[p]) /\ proc[p].pc = "load" /\ proc[p].url # None
      BY DEF IInv, TypeOK, LoadSession, At, Well, Equipped
    <2>4. renews \in Process /\ Well(renews) /\ renews.pc = "refresh"
      BY <2>2, <2>3, GoOn
    <2>5. asks \in Process /\ Well(asks) /\ asks.pc = "ask"
      BY <2>2, <2>3, GoOn
    <2> HIDE DEF renews, asks
    <2> QED BY <1>1, <2>1, <2>4, <2>5, QuietStep
  <1> QED BY <1>2, <1>3

LEMMA RefreshKeeps ==
    ASSUME IInv, NEW p \in Proc, Refresh(p)
    PROVE  IInv'
  <1>1. Kept' /\ UNCHANGED <<config, lock, trouble, meant>>
    BY TypeParts DEF Refresh, IInv, Kept, shared, history
  <1>2. CASE proc[p].session.token \notin live
    BY <1>1, <1>2, IdleType, QuietStep DEF Refresh, Well, Ended, Idle
  <1>3. CASE proc[p].session.token \in live
    <2>1. /\ proc[p] \in Process /\ Well(proc[p]) /\ proc[p].pc = "refresh" /\ proc[p].url # None
          /\ proc[p].session \in Session /\ drawn + 1 \in Nat
      BY DEF IInv, TypeOK, Process, Refresh, At, Well, Equipped
    <2> DEFINE session == [proc[p].session EXCEPT !.token = drawn + 1]
               r == [proc[p] EXCEPT !.pc = "save", !.session = session]
    <2>2. session \in Session
      BY <2>1 DEF Session
    <2>3. Step(p, r)
      BY <1>3, <2>1 DEF Refresh, Step, Process
    <2> HIDE DEF session
    <2>4. r \in Process /\ Well(r) /\ r.pc = "save"
      BY <2>1, <2>2, GoOn
    <2> HIDE DEF r
    <2> QED BY <1>1, <2>3, <2>4, QuietStep
  <1> QED BY <1>2, <1>3

LEMMA EndedKeeps ==
    ASSUME IInv, NEW p \in Proc, NEW o \in {"none", "done", "refused"}, Step(p, Ended(o)),
           Kept', UNCHANGED <<config, lock, trouble, meant>>
    PROVE  IInv'
  <1>1. Well(Ended(o))
    BY IdleType DEF Well
  <1> QED BY <1>1, IdleType, QuietStep

LEMMA FaultType == ASSUME IInv, Fault PROVE scene' \in Scene /\ calm' \in BOOLEAN
  <1>1. scene' \in Scene
    BY DEF Fault, IInv, TypeOK, Scene
  <1> QED BY <1>1 DEF Fault

LEMMA LoseRenewalKeeps ==
    ASSUME IInv, NEW p \in Proc, LoseRenewal(p)
    PROVE  IInv'
  <1>1. Kept' /\ UNCHANGED <<config, lock, trouble, meant>>
    BY TypeParts, FaultType DEF LoseRenewal, IInv, Kept, shared
  <1> QED BY <1>1, EndedKeeps DEF LoseRenewal

LEMMA SaveRenewedKeeps ==
    ASSUME IInv, NEW p \in Proc, SaveRenewed(p)
    PROVE  IInv'
  <1> DEFINE r == [proc[p] EXCEPT !.pc = "ask", !.session = proc[p].session]
  <1>1. /\ proc[p] \in Process /\ Well(proc[p]) /\ proc[p].pc = "save" /\ proc[p].url # None
        /\ proc[p].session \in Session /\ proc[p].cred \in Credential
    BY DEF IInv, TypeOK, Process, SaveRenewed, At, Well, Equipped
  <1>2. Kept' /\ UNCHANGED <<config, lock, trouble, meant>>
    BY <1>1, SaveType, TypeParts DEF SaveRenewed, IInv, Kept, history
  <1>3. r = [proc[p] EXCEPT !.pc = "ask"]
    BY <1>1 DEF Process
  <1>4. Step(p, r)
    BY <1>3 DEF SaveRenewed
  <1>5. r \in Process /\ Well(r) /\ r.pc = "ask"
    <2> DEFINE session == proc[p].session
    <2>1. session \in Session
      BY <1>1
    <2> HIDE DEF session
    <2>2. LET after == [proc[p] EXCEPT !.pc = "ask", !.session = session] IN
          after \in Process /\ Well(after) /\ after.pc = "ask"
      BY <1>1, <2>1, GoOn
    <2> QED BY <2>2 DEF session
  <1> HIDE DEF r
  <1> QED BY <1>2, <1>4, <1>5, QuietStep

\* A command that ends in an update of config.toml.
LEMMA UpdateNext ==
    ASSUME NEW cmd \in Command, NEW ch \in Change,
           ch.kind \in {"add", "record", "adopt"} => ch.url # None
    PROVE  LET r == ToLock([Idle EXCEPT !.cmd = cmd], ch) IN
           r \in Process /\ Well(r) /\ r.pc = "lock"
  <1> DEFINE kept == [Idle EXCEPT !.cmd = cmd]
             r == ToLock(kept, ch)
  <1>1. kept \in Process
    BY IdleType DEF Process
  <1>2. kept.cmd = cmd
    BY DEF Idle
  <1> HIDE DEF kept
  <1>3. r \in Process /\ Equipped(r) /\ r.pc = "lock"
    BY <1>1, ToLockType
  <1>4. r.cmd = cmd
    BY <1>1, <1>2 DEF ToLock, Process
  <1> QED BY <1>3, <1>4, NoneAssumption DEF Well, kept

LEMMA VerifyKeeps ==
    ASSUME IInv, NEW p \in Proc, Verify(p)
    PROVE  IInv'
  <1> DEFINE old == proc[p]
             reported == deployed[old.url]
             ch == [NoChange EXCEPT !.kind = "pin", !.name = old.name, !.url = old.url, !.inst = reported]
             r == ToLock([Idle EXCEPT !.cmd = old.cmd], ch)
  <1>1. Kept' /\ UNCHANGED <<config, lock, trouble, meant>>
    BY TypeParts DEF Verify, IInv, Kept, shared, history
  <1>2. /\ old.cmd \in Command /\ old.url \in Url /\ old.name \in Name \cup {None}
        /\ reported \in Instance
    BY DEF IInv, TypeOK, Process, Verify, At, Well, Equipped
  <1>3. ch \in Change /\ ch.kind = "pin"
    <2> HIDE DEF old, reported
    <2> QED BY <1>2 DEF NoChange, Change, Credential, Legacy
  <1>4. Step(p, Ended("refused")) \/ Step(p, Ended("done")) \/ Step(p, r)
    BY DEF Verify
  <1> HIDE DEF ch
  <1>5. r \in Process /\ Well(r) /\ r.pc = "lock"
    BY <1>2, <1>3, UpdateNext
  <1> HIDE DEF r
  <1> QED BY <1>1, <1>4, <1>5, EndedKeeps, QuietStep

LEMMA SignInKeeps ==
    ASSUME IInv, NEW p \in Proc, SignIn(p)
    PROVE  IInv'
  <1>1. /\ proc[p] \in Process /\ Well(proc[p]) /\ proc[p].pc = "signin" /\ proc[p].url # None
        /\ proc[p].url \in Url /\ drawn + 1 \in Nat /\ deployed[proc[p].url] \in Instance
    BY DEF IInv, TypeOK, Process, SignIn, At, Well, Equipped
  <1>2. PICK reported \in Instance \cup {None} :
           \/ /\ live' = live \cup {drawn + 1}
              /\ Step(p, [proc[p] EXCEPT !.pc = "store", !.pin = reported,
                                         !.session = [url |-> proc[p].url, token |-> drawn + 1]])
           \/ /\ live' \in {live, live \cup {drawn + 1}}
              /\ Step(p, Ended("refused"))
    BY <1>1 DEF SignIn
  <1>3. Kept' /\ UNCHANGED <<config, lock, trouble, meant>>
    BY <1>1, <1>2, TypeParts DEF SignIn, IInv, Kept, shared, history
  <1>4. CASE Step(p, Ended("refused"))
    BY <1>3, <1>4, EndedKeeps
  <1>5. CASE ~Step(p, Ended("refused"))
    <2> DEFINE session == [url |-> proc[p].url, token |-> drawn + 1]
               got == [proc[p] EXCEPT !.pc = "store", !.session = session]
               r == [proc[p] EXCEPT !.pc = "store", !.pin = reported, !.session = session]
    <2>1. session \in Session
      BY <1>1 DEF Session
    <2>2. Step(p, r)
      BY <1>2, <1>5
    <2> HIDE DEF session
    <2>3. got \in Process /\ Well(got) /\ got.pc = "store"
      BY <1>1, <2>1, GoOn
    <2>4. r = [got EXCEPT !.pin = reported]
      BY <1>1 DEF Process
    <2> HIDE DEF got, r
    <2>5. /\ r \in Process /\ r.pc = "store" /\ r.url = got.url /\ r.session = got.session
          /\ r.change = got.change /\ r.cmd = got.cmd
      BY <2>3, <2>4 DEF Process
    <2>6. Well(r)
      BY <2>3, <2>5 DEF Well, Equipped
    <2> QED BY <1>3, <2>2, <2>5, <2>6, QuietStep
  <1> QED BY <1>4, <1>5

LEMMA StoreSessionKeeps ==
    ASSUME IInv, NEW p \in Proc, StoreSession(p)
    PROVE  IInv'
  <1> DEFINE old == proc[p]
             ch == [NoChange EXCEPT !.kind = "record", !.name = old.name, !.url = old.url,
                                    !.cred = old.cred, !.inst = old.pin]
             r == ToLock([Idle EXCEPT !.cmd = old.cmd], ch)
  <1>1. /\ old.cmd \in Command /\ old.url \in Url /\ old.name \in Name \cup {None}
        /\ old.pin \in Instance \cup {None} /\ old.cred \in Credential /\ old.session \in Session
    BY DEF IInv, TypeOK, Process, StoreSession, At, Well, Equipped
  <1>2. Kept' /\ UNCHANGED <<config, lock, trouble, meant>> /\ Step(p, r)
    BY <1>1, SaveType, TypeParts DEF StoreSession, IInv, Kept, history
  <1>3. ch \in Change /\ ch.url # None
    <2> HIDE DEF old
    <2> QED BY <1>1, ConfigAssumption DEF NoChange, Change, Credential, Legacy
  <1> HIDE DEF ch
  <1>4. r \in Process /\ Well(r) /\ r.pc = "lock"
    BY <1>1, <1>3, UpdateNext
  <1> HIDE DEF r
  <1> QED BY <1>2, <1>4, QuietStep

LEMMA TakeSessionKeeps ==
    ASSUME IInv, NEW p \in Proc, TakeSession(p)
    PROVE  IInv'
  <1>1. Kept' /\ UNCHANGED <<config, lock, trouble, meant>>
    BY TypeParts DEF TakeSession, IInv, Kept, shared, history
  <1>2. /\ proc[p] \in Process /\ Well(proc[p]) /\ proc[p].pc = "take"
        /\ proc[p].todo \subseteq Credential
    BY DEF IInv, TypeOK, Process, TakeSession, At
  <1>3. PICK c \in proc[p].todo :
           LET s == Stored(c)
               ours == s # None /\ (proc[p].cmd.op = "remove" => s.url = proc[p].url)
           IN Step(p, [proc[p] EXCEPT !.pc = IF ours THEN "revoke" ELSE "clear",
                                      !.cred = c, !.session = IF ours THEN s ELSE None])
    BY DEF TakeSession
  <1>4. PICK pc \in {"revoke", "clear"}, session \in {Stored(c), None} :
           /\ Step(p, [proc[p] EXCEPT !.pc = pc, !.cred = c, !.session = session])
           /\ pc = "revoke" => session # None
    <2>1. CASE Stored(c) # None /\ (proc[p].cmd.op = "remove" => Stored(c).url = proc[p].url)
      BY <1>3, <2>1
    <2>2. CASE ~(Stored(c) # None /\ (proc[p].cmd.op = "remove" => Stored(c).url = proc[p].url))
      BY <1>3, <2>2
    <2> QED BY <2>1, <2>2
  <1> DEFINE moved == [proc[p] EXCEPT !.pc = pc]
             filed == [moved EXCEPT !.cred = c]
             r == [proc[p] EXCEPT !.pc = pc, !.cred = c, !.session = session]
  <1>5. c \in Credential /\ session \in Session \cup {None}
    BY <1>2, <1>3, <1>4, StoredType, TypeParts DEF IInv
  <1>6. /\ moved \in Process /\ moved.pc = pc /\ moved.cmd = proc[p].cmd
        /\ moved.change = proc[p].change
    BY <1>2, <1>4 DEF Process
  <1>7. r = [filed EXCEPT !.session = session]
    BY <1>2 DEF Process
  <1>8. Step(p, r)
    BY <1>4
  <1> HIDE DEF moved, r
  <1>9. /\ filed \in Process /\ filed.pc = pc /\ filed.cmd = proc[p].cmd
        /\ filed.change = proc[p].change
    BY <1>5, <1>6 DEF Process
  <1> HIDE DEF filed
  <1>10. /\ r \in Process /\ r.pc = pc /\ r.cmd = proc[p].cmd /\ r.session = session
        /\ r.change = proc[p].change
    BY <1>5, <1>7, <1>9 DEF Process
  <1>11. Well(r)
    BY <1>2, <1>4, <1>10 DEF Well, Equipped
  <1> QED BY <1>1, <1>4, <1>8, <1>10, <1>11, QuietStep

LEMMA RevokeKeeps ==
    ASSUME IInv, NEW p \in Proc, Revoke(p)
    PROVE  IInv'
  <1> DEFINE r == [proc[p] EXCEPT !.pc = "clear"]
  <1>1. Kept' /\ UNCHANGED <<config, lock, trouble, meant>> /\ Step(p, r)
    BY TypeParts DEF Revoke, IInv, Kept, shared, history
  <1>2. proc[p] \in Process /\ Well(proc[p]) /\ proc[p].pc = "revoke"
    BY DEF IInv, TypeOK, Revoke, At
  <1>3. /\ r \in Process /\ r.pc = "clear" /\ r.cmd = proc[p].cmd
        /\ r.change = proc[p].change
    BY <1>2 DEF Process
  <1> HIDE DEF r
  <1>4. Well(r)
    BY <1>2, <1>3 DEF Well, Equipped
  <1> QED BY <1>1, <1>3, <1>4, QuietStep

LEMMA ClearSessionKeeps ==
    ASSUME IInv, NEW p \in Proc, ClearSession(p)
    PROVE  IInv'
  <1> DEFINE old == proc[p]
             todo == old.todo \ {old.cred}
             ch == [NoChange EXCEPT !.kind = "remove", !.name = old.name]
             update == ToLock([Idle EXCEPT !.cmd = old.cmd], ch)
             next == [old EXCEPT !.pc = "take", !.todo = todo, !.cred = Legacy, !.session = None]
  <1>1. Kept' /\ UNCHANGED <<config, lock, trouble, meant>>
    BY ClearType, TypeParts DEF ClearSession, IInv, Kept, history
  <1>2. /\ old \in Process /\ Well(old) /\ old.pc = "clear" /\ old.cmd \in Command
        /\ old.name \in Name \cup {None} /\ todo \subseteq Credential
    BY DEF IInv, TypeOK, Process, ClearSession, At, Well
  <1>3. Step(p, update) \/ Step(p, Ended("done")) \/ Step(p, next)
    BY DEF ClearSession
  <1>4. update \in Process /\ Well(update) /\ update.pc = "lock"
    <2>1. ch \in Change /\ ch.kind = "remove"
      BY <1>2 DEF NoChange, Change, Credential, Legacy
    <2> HIDE DEF ch
    <2> QED BY <1>2, <2>1, UpdateNext
  <1>5. next \in Process /\ Well(next) /\ next.pc = "take"
    <2> HIDE DEF old, todo
    <2> DEFINE one == [old EXCEPT !.pc = "take"]
               two == [one EXCEPT !.todo = todo]
               three == [two EXCEPT !.cred = Legacy]
    <2>1. one \in Process /\ one.pc = "take" /\ one.cmd = old.cmd /\ one.change = old.change
      BY <1>2 DEF Process
    <2>2. next = [three EXCEPT !.session = None]
      BY <1>2 DEF Process
    <2> HIDE DEF one, next
    <2>3. two \in Process /\ two.pc = "take" /\ two.cmd = old.cmd /\ two.change = old.change
      BY <1>2, <2>1 DEF Process
    <2> HIDE DEF two
    <2>4. three \in Process /\ three.pc = "take" /\ three.cmd = old.cmd /\ three.change = old.change
      BY <2>3 DEF Process, Credential, Legacy
    <2> HIDE DEF three
    <2>5. next \in Process /\ next.pc = "take" /\ next.cmd = old.cmd /\ next.change = old.change
      BY <2>2, <2>4 DEF Process
    <2>6. Well(next)
      BY <1>2, <2>5 DEF Well, Equipped
    <2> QED BY <2>5, <2>6
  <1> HIDE DEF update, next
  <1> QED BY <1>1, <1>3, <1>4, <1>5, EndedKeeps, QuietStep

LEMMA DieKeeps ==
    ASSUME IInv, NEW p \in Proc, Die(p)
    PROVE  IInv'
  <1>1. Kept' /\ UNCHANGED <<config, lock, trouble, meant>>
    <2>1. crowded' \in BOOLEAN
      BY DEF Die
    <2> QED BY <2>1, TypeParts, FaultType DEF Die, IInv, Kept, shared
  <1>2. Idle \in Process /\ Well(Idle) /\ Idle.pc = "idle" /\ Step(p, Idle)
    BY IdleType DEF Die, Idle, Well
  <1> QED BY <1>1, <1>2, QuietStep

LEMMA OutsideKeeps ==
    ASSUME IInv, Kept', UNCHANGED <<config, lock, proc, trouble, meant>>
    PROVE  IInv'
  <1>1. TypeOK'
    BY TypeParts DEF IInv, TypeOK, Kept, Meanings
  <1> QED BY <1>1 DEF IInv, LockHolds, InUpdate, At, ConfigIsValid, Ready, Before, MeansNothing

LEMMA OlderBuildKeeps ==
    ASSUME IInv, NEW u \in Url, OlderBuildSignsIn(u)
    PROVE  IInv'
  <1>1. [url |-> u, token |-> drawn + 1] \in Session /\ Legacy \in Credential /\ drawn + 1 \in Nat
    BY DEF IInv, TypeOK, Session, Credential, Legacy
  <1>2. scene' \in Scene
    BY DEF OlderBuildSignsIn, Outside, IInv, TypeOK, Scene
  <1>3. crowded' \in BOOLEAN
    BY DEF OlderBuildSignsIn
  <1>4. Kept'
    BY <1>1, <1>2, <1>3, SaveType, TypeParts DEF OlderBuildSignsIn, IInv, Kept
  <1> QED BY <1>4, OutsideKeeps DEF OlderBuildSignsIn

LEMMA RedeployKeeps ==
    ASSUME IInv, NEW u \in Url, NEW i \in Instance, Redeploy(u, i)
    PROVE  IInv'
  <1>1. scene' \in Scene
    BY DEF Redeploy, Outside, IInv, TypeOK, Scene
  <1>2. Kept'
    BY <1>1, TypeParts DEF Redeploy, IInv, Kept, shared, history
  <1> QED BY <1>2, OutsideKeeps DEF Redeploy, shared, history

LEMMA InvNext == IInv /\ [Next]_vars => IInv'
  <1> SUFFICES ASSUME IInv, [Next]_vars
               PROVE  IInv'
    OBVIOUS
  <1>1. ASSUME NEW p \in Proc, NEW cmd \in Menu[scene.menu], Start(p, cmd)
        PROVE  IInv'
    BY <1>1, StartKeeps
  <1>2. ASSUME NEW p \in Proc, Act(p)
        PROVE  IInv'
    BY <1>2, UpdateLockKeeps, JudgeStaleKeeps, TakeOverKeeps, GiveUpKeeps, ReadConfigKeeps,
       WriteConfigKeeps, UnlockKeeps, ReloadKeeps, LoadSessionKeeps, RefreshKeeps, LoseRenewalKeeps,
       SaveRenewedKeeps, VerifyKeeps, SignInKeeps, StoreSessionKeeps, TakeSessionKeeps, RevokeKeeps,
       ClearSessionKeeps, DieKeeps DEF Act
  <1>3. CASE AgeLock
    BY <1>3, AgeLockKeeps
  <1>4. ASSUME NEW u \in Url, OlderBuildSignsIn(u) \/ \E i \in Instance : Redeploy(u, i)
        PROVE  IInv'
    BY <1>4, OlderBuildKeeps, RedeployKeeps
  <1>5. CASE UNCHANGED vars
    <2>1. Kept'
      BY <1>5, TypeParts DEF vars, IInv, Kept
    <2> QED BY <1>5, <2>1, OutsideKeeps DEF vars
  <1> QED BY <1>1, <1>2, <1>3, <1>4, <1>5 DEF Next
----------------------------------------------------------------------------
(* Theorems. *)

\* In every execution, with any number of terminals and any commands typed in
\* them: the lock does its work, config.toml is valid, and what is about to be
\* written was made from what is there.
THEOREM ProfilesInvariant == Spec => []IInv
  BY InvInit, InvNext, PTL DEF Spec

\* The lock file keeps the updates of config.toml apart (profiles.rs:214-263).
THEOREM LockKeepsUpdatesApart == Spec => []LockHolds
  <1>1. IInv => LockHolds
    BY DEF IInv
  <1> QED BY <1>1, ProfilesInvariant, PTL

\* A config.toml that prk writes is one that prk reads (profile.rs:400-453).
THEOREM ConfigStaysValid == Spec => []ConfigIsValid
  <1>1. IInv => ConfigIsValid
    BY DEF IInv
  <1> QED BY <1>1, ProfilesInvariant, PTL

\* A name never quietly comes to mean another deployment (profile.rs:293-299).
THEOREM MeaningsAreKept == Spec => []NamesKeepTheirMeaning
  <1>1. IInv => NamesKeepTheirMeaning
    BY DEF IInv, NamesKeepTheirMeaning, Consistent
  <1> QED BY <1>1, ProfilesInvariant, PTL

\* Of two updates of config.toml neither is lost (profiles.rs:17-20).
THEOREM UpdatesPersist == Spec => BothPersist
  <1>1. ASSUME IInv, [Next]_vars
        PROVE  [config' # config /\ ~trouble => \E p \in Proc : At(p, "write") /\ proc[p].base = config]_vars
    <2> SUFFICES ASSUME config' # config, ~trouble
                 PROVE  \E p \in Proc : At(p, "write") /\ proc[p].base = config
      OBVIOUS
    <2>1. \A p \in Proc, cmd \in Menu[scene.menu] : Start(p, cmd) => config' = config
      <3> TAKE p \in Proc, cmd \in Menu[scene.menu]
      <3>1. \A r : Begin(p, cmd, r) => config' = config
        BY DEF Begin, shared
      <3> QED BY <3>1 DEF Start, StartEdit, StartAdd, StartRemove, StartLogoutAll, StartLogin, StartResolve
    <2>2. ASSUME NEW p \in Proc, Act(p)
          PROVE  WriteConfig(p) \/ config' = config
      <3>1. CASE UpdateLock(p) \/ JudgeStale(p) \/ TakeOver(p) \/ GiveUp(p) \/ ReadConfig(p) \/ Unlock(p) \/ Reload(p)
        BY <3>1 DEF shared, UpdateLock, JudgeStale, TakeOver, GiveUp, ReadConfig, Unlock, Reload
      <3>2. CASE LoadSession(p) \/ Refresh(p) \/ LoseRenewal(p) \/ SaveRenewed(p) \/ Verify(p) \/ SignIn(p)
        BY <3>2 DEF shared, LoadSession, Refresh, LoseRenewal, SaveRenewed, Verify, SignIn
      <3>3. CASE StoreSession(p) \/ TakeSession(p) \/ Revoke(p) \/ ClearSession(p) \/ Die(p)
        BY <3>3 DEF shared, StoreSession, TakeSession, Revoke, ClearSession, Die
      <3> QED BY <2>2, <3>1, <3>2, <3>3 DEF Act
    <2>3. AgeLock => config' = config
      BY DEF AgeLock
    <2>4. \A u \in Url : /\ OlderBuildSignsIn(u) => config' = config
                         /\ \A i \in Instance : Redeploy(u, i) => config' = config
      BY DEF OlderBuildSignsIn, Redeploy, shared
    <2>5. PICK p \in Proc : WriteConfig(p)
      BY <1>1, <2>1, <2>2, <2>3, <2>4 DEF Next, vars
    <2> QED BY <2>5, <1>1 DEF IInv, Ready, WriteConfig
  <1> QED BY <1>1, ProfilesInvariant, PTL DEF Spec, BothPersist
----------------------------------------------------------------------------
(* Tokens.  A session that a process has just got is in no file and nobody  *)
(* else holds it; one that it works on is in the file it came from or in    *)
(* none.  So no token is spent behind the back of a file, but by a process  *)
(* that is about to replace or clear that file.                             *)

Holds(r) == r.pc \in {"refresh", "save", "ask", "revoke", "clear", "store"} /\ r.session # None
IsNew(r) == r.pc \in {"save", "store"}
IsLent(r) == r.pc \in {"refresh", "revoke", "clear"} /\ r.session # None

Spread(fs, lv, n) ==
    /\ \A t \in lv : t <= n
    /\ \A c \in DOMAIN fs : fs[c].token <= n
    /\ \A c, d \in DOMAIN fs : fs[c].token = fs[d].token => c = d
Within(n, r) == Holds(r) => r.session.token <= n
Unused(fs, lv, r) ==
    IsNew(r) => /\ r.session.token \in lv
                /\ \A c \in DOMAIN fs : fs[c].token # r.session.token
Lent(fs, r) ==
    IsLent(r) => \A c \in DOMAIN fs : fs[c].token = r.session.token => c = r.cred /\ fs[c] = r.session
Differ(r, q) == IsNew(r) /\ Holds(q) => q.session.token # r.session.token
Excuses(fs, c, r) == r.cred = c /\ (r.pc = "save" \/ (r.pc = "clear" /\ r.session = fs[c]))

TokensInv ==
    /\ Spread(files, live, drawn)
    /\ \A p \in Proc : Within(drawn, proc[p]) /\ Unused(files, live, proc[p]) /\ Lent(files, proc[p])
    /\ \A p, q \in Proc : p # q => Differ(proc[p], proc[q])
    /\ calm => \A c \in DOMAIN files :
                  files[c].token \in live \/ \E p \in Proc : Excuses(files, c, proc[p])

LEMMA TokensAreNumbers ==
    ASSUME IInv
    PROVE  /\ drawn \in Nat /\ live \subseteq Nat
           /\ \A c \in DOMAIN files : files[c] \in Session /\ files[c].token \in Nat
           /\ \A p \in Proc : Holds(proc[p]) => proc[p].session \in Session /\ proc[p].session.token \in Nat
           /\ \A p \in Proc : IsNew(proc[p]) => Holds(proc[p])
           /\ \A p \in Proc : proc[p].cred \in Credential
  <1>1. /\ drawn \in Nat /\ live \subseteq Nat
        /\ \A c \in DOMAIN files : files[c] \in Session
        /\ \A p \in Proc : proc[p] \in Process /\ Well(proc[p])
    BY DEF IInv, TypeOK
  <1>2. \A s \in Session : s.token \in Nat
    BY DEF Session
  <1>3. \A p \in Proc : proc[p].session \in Session \cup {None} /\ proc[p].cred \in Credential
    BY <1>1 DEF Process
  <1> QED BY <1>1, <1>2, <1>3 DEF Holds, IsNew, Well, Equipped

LEMMA TokensStep ==
    ASSUME IInv, TokensInv, NEW p \in Proc, NEW r, Step(p, r),
           drawn' \in Nat, drawn <= drawn', Spread(files', live', drawn'),
           Within(drawn', r), Unused(files', live', r), Lent(files', r),
           \A q \in Proc \ {p} : /\ Unused(files', live', proc[q]) /\ Lent(files', proc[q])
                                 /\ Differ(r, proc[q]) /\ Differ(proc[q], r),
           calm' => \A c \in DOMAIN files' :
              \/ files'[c].token \in live' \/ Excuses(files', c, r)
              \/ \E q \in Proc \ {p} : Excuses(files', c, proc[q])
    PROVE  TokensInv'
  <1>1. proc'[p] = r /\ \A q \in Proc \ {p} : proc'[q] = proc[q]
    BY DEF Step, IInv, TypeOK
  <1>2. \A q \in Proc \ {p} : Within(drawn', proc[q])
    BY TokensAreNumbers DEF TokensInv, Within
  <1>3. \A q \in Proc : Within(drawn', proc'[q]) /\ Unused(files', live', proc'[q]) /\ Lent(files', proc'[q])
    BY <1>1, <1>2
  <1>4. \A q, s \in Proc : q # s => Differ(proc'[q], proc'[s])
    BY <1>1 DEF TokensInv
  <1>5. calm' => \A c \in DOMAIN files' : files'[c].token \in live' \/ \E q \in Proc : Excuses(files', c, proc'[q])
    BY <1>1
  <1> QED BY <1>3, <1>4, <1>5 DEF TokensInv

\* A process that has no session now, and was not about to replace or clear a file.
LEMMA TokensQuiet ==
    ASSUME IInv, TokensInv, NEW p \in Proc, NEW r, Step(p, r), ~Holds(r), ~IsNew(r), ~IsLent(r),
           UNCHANGED files, drawn' \in Nat, drawn <= drawn',
           live \subseteq live', \A t \in live' : t <= drawn',
           calm' => calm /\ proc[p].pc \notin {"save", "clear"}
    PROVE  TokensInv'
  <1>1. Spread(files', live', drawn')
    BY TokensAreNumbers DEF TokensInv, Spread
  <1>2. Within(drawn', r) /\ Unused(files', live', r) /\ Lent(files', r)
    BY DEF Within, Unused, Lent
  <1>3. ASSUME NEW q \in Proc \ {p}
        PROVE  /\ Unused(files', live', proc[q]) /\ Lent(files', proc[q])
               /\ Differ(r, proc[q]) /\ Differ(proc[q], r)
    BY DEF TokensInv, Unused, Differ
  <1>4. ASSUME calm', NEW c \in DOMAIN files'
        PROVE  \/ files'[c].token \in live' \/ Excuses(files', c, r)
               \/ \E q \in Proc \ {p} : Excuses(files', c, proc[q])
    <2>1. ~Excuses(files, c, proc[p])
      BY <1>4 DEF Excuses
    <2> QED BY <1>4, <2>1 DEF TokensInv
  <1> QED BY <1>1, <1>2, <1>3, <1>4, TokensStep

\* A process that takes up the session of a file, or finds that it has none to revoke.
LEMMA TokensTakeUp ==
    ASSUME IInv, TokensInv, NEW p \in Proc, NEW r, Step(p, r),
           r.pc \in {"refresh", "ask", "revoke", "clear"},
           r.session = None \/ (r.cred \in DOMAIN files /\ r.session = files[r.cred]),
           UNCHANGED <<files, live, drawn, calm>>, proc[p].pc \notin {"save", "clear"}
    PROVE  TokensInv'
  <1>1. drawn' \in Nat /\ drawn <= drawn' /\ Spread(files', live', drawn')
    BY TokensAreNumbers DEF TokensInv
  <1>2. Within(drawn', r) /\ Unused(files', live', r) /\ Lent(files', r)
    BY DEF Within, Unused, Lent, IsNew, TokensInv, Spread, Holds, IsLent
  <1>3. ASSUME NEW q \in Proc \ {p}
        PROVE  /\ Unused(files', live', proc[q]) /\ Lent(files', proc[q])
               /\ Differ(r, proc[q]) /\ Differ(proc[q], r)
    BY DEF TokensInv, Unused, Differ, IsNew, Holds
  <1>4. ASSUME calm', NEW c \in DOMAIN files'
        PROVE  \/ files'[c].token \in live' \/ Excuses(files', c, r)
               \/ \E q \in Proc \ {p} : Excuses(files', c, proc[q])
    <2>1. ~Excuses(files, c, proc[p])
      BY DEF Excuses
    <2> QED BY <1>4, <2>1 DEF TokensInv
  <1> QED BY <1>1, <1>2, <1>3, <1>4, TokensStep

LEMMA HeldFacts ==
    ASSUME IInv, NEW p \in Proc
    PROVE  /\ proc[p] \in Process /\ Well(proc[p])
           /\ proc[p].pc \in {"refresh", "save", "ask", "store", "revoke"} =>
                 proc[p].session \in Session /\ proc[p].session # None /\ proc[p].session.token \in Nat
  <1>1. proc[p] \in Process /\ Well(proc[p])
    BY DEF IInv, TypeOK
  <1>2. proc[p].session \in Session \cup {None}
    BY <1>1 DEF Process
  <1>3. proc[p].pc \in {"refresh", "save", "ask", "store", "revoke"} => proc[p].session # None
    BY <1>1 DEF Well, Equipped
  <1> QED BY <1>1, <1>2, <1>3 DEF Session

LEMMA NotHeld ==
    ASSUME NEW r, r.pc \notin {"refresh", "save", "ask", "revoke", "clear", "store"}
    PROVE  ~Holds(r) /\ ~IsNew(r) /\ ~IsLent(r)
  BY DEF Holds, IsNew, IsLent

\* No file but the one that is about to be replaced has the token that is renewed.
LEMMA RefreshTokens ==
    ASSUME IInv, TokensInv, NEW p \in Proc, Refresh(p)
    PROVE  TokensInv'
  <1>1. drawn \in Nat /\ drawn + 1 \in Nat /\ \A c \in DOMAIN files : files[c].token \in Nat
    BY TokensAreNumbers
  <1>2. CASE proc[p].session.token \notin live
    <2>1. ~Holds(Ended("refused")) /\ ~IsNew(Ended("refused")) /\ ~IsLent(Ended("refused"))
      BY NotHeld DEF Ended, Idle
    <2>2. Step(p, Ended("refused")) /\ UNCHANGED <<files, live, drawn, calm>> /\ proc[p].pc = "refresh"
      BY <1>2 DEF Refresh, shared, history, At
    <2> QED BY <1>1, <2>1, <2>2, TokensQuiet DEF TokensInv, Spread
  <1>3. CASE proc[p].session.token \in live
    <2> DEFINE r == [proc[p] EXCEPT !.pc = "save", !.session.token = drawn + 1]
               old == proc[p].session.token
    <2>1. proc[p] \in Process /\ proc[p].session \in Session /\ old \in Nat /\ proc[p].pc = "refresh"
          /\ proc[p].session # None
      BY HeldFacts DEF Refresh, At
    <2>2. r.pc = "save" /\ r.session.token = drawn + 1 /\ r.cred = proc[p].cred
      BY <2>1 DEF Process, Session
    <2>3. Step(p, r) /\ live' = (live \ {old}) \cup {drawn + 1} /\ drawn' = drawn + 1
          /\ UNCHANGED <<files, calm>>
      BY <1>3 DEF Refresh, shared, history
    <2> HIDE DEF r, old
    <2>4. Spread(files', live', drawn')
      BY <1>1, <2>3, TokensAreNumbers DEF TokensInv, Spread
    <2>5. Within(drawn', r) /\ Unused(files', live', r) /\ Lent(files', r)
      BY <1>1, <2>2, <2>3 DEF Within, Unused, Lent, IsLent, TokensInv, Spread
    <2>6. ASSUME NEW q \in Proc \ {p}
          PROVE  /\ Unused(files', live', proc[q]) /\ Lent(files', proc[q])
                 /\ Differ(r, proc[q]) /\ Differ(proc[q], r)
      <3>1. IsNew(proc[q]) => proc[q].session.token # old
        BY <2>1 DEF TokensInv, Differ, Holds, old
      <3>2. Holds(proc[q]) => proc[q].session.token \in Nat /\ proc[q].session.token <= drawn
        BY TokensAreNumbers DEF TokensInv, Within
      <3>3. Unused(files', live', proc[q]) /\ Lent(files', proc[q])
        BY <2>3, <3>1 DEF TokensInv, Unused
      <3>4. Holds(proc[q]) => proc[q].session.token # drawn + 1
        BY <3>2, <1>1
      <3>5. IsNew(proc[q]) => Holds(proc[q])
        BY TokensAreNumbers
      <3> QED BY <2>2, <3>3, <3>4, <3>5 DEF Differ
    <2>7. ASSUME calm', NEW c \in DOMAIN files'
          PROVE  \/ files'[c].token \in live' \/ Excuses(files', c, r)
                 \/ \E q \in Proc \ {p} : Excuses(files', c, proc[q])
      <3>1. files[c].token = old => c = proc[p].cred
        BY <2>1, <2>3 DEF TokensInv, Lent, IsLent, old
      <3>2. ~Excuses(files, c, proc[p])
        BY <2>1 DEF Excuses
      <3>3. files[c].token \in live \/ \E q \in Proc \ {p} : Excuses(files, c, proc[q])
        BY <2>3, <2>7, <3>2 DEF TokensInv
      <3>4. c = r.cred => Excuses(files', c, r)
        BY <2>2 DEF Excuses
      <3> QED BY <2>2, <2>3, <3>1, <3>3, <3>4
    <2>8. drawn' \in Nat /\ drawn <= drawn'
      BY <1>1, <2>3
    <2> QED BY <2>3, <2>4, <2>5, <2>6, <2>7, <2>8, TokensStep
  <1> QED BY <1>2, <1>3

LEMMA LoseRenewalTokens ==
    ASSUME IInv, TokensInv, NEW p \in Proc, LoseRenewal(p)
    PROVE  TokensInv'
  <1> DEFINE old == proc[p].session.token
             r == Ended("refused")
  <1>1. Step(p, r) /\ live' = live \ {old} /\ UNCHANGED <<files, drawn>> /\ ~calm'
    BY DEF LoseRenewal, Fault, shared
  <1>2. Holds(proc[p])
    BY HeldFacts DEF LoseRenewal, At, Holds
  <1>3. ~Holds(r) /\ ~IsNew(r) /\ ~IsLent(r)
    BY NotHeld DEF Ended, Idle
  <1> HIDE DEF r
  <1>4. Spread(files', live', drawn') /\ drawn' \in Nat /\ drawn <= drawn'
    BY <1>1, TokensAreNumbers DEF TokensInv, Spread
  <1>5. Within(drawn', r) /\ Unused(files', live', r) /\ Lent(files', r)
    BY <1>3 DEF Within, Unused, Lent
  <1>6. ASSUME NEW q \in Proc \ {p}
        PROVE  /\ Unused(files', live', proc[q]) /\ Lent(files', proc[q])
               /\ Differ(r, proc[q]) /\ Differ(proc[q], r)
    <2>1. IsNew(proc[q]) => proc[q].session.token # old
      BY <1>2 DEF TokensInv, Differ
    <2> QED BY <1>1, <1>3, <2>1 DEF TokensInv, Unused, Differ
  <1> QED BY <1>1, <1>4, <1>5, <1>6, TokensStep

\* A session that is new is written over what was in its file.
LEMMA SavedTokens ==
    ASSUME IInv, TokensInv, NEW p \in Proc, NEW r, Step(p, r), IsNew(proc[p]),
           Save(proc[p].cred, proc[p].session), UNCHANGED <<live, drawn, calm>>,
           \/ ~Holds(r) /\ ~IsNew(r) /\ ~IsLent(r)
           \/ r.pc = "ask" /\ r.session = proc[p].session
    PROVE  TokensInv'
  <1> DEFINE one == proc[p].cred
             s == proc[p].session
  <1>1. /\ DOMAIN files' = DOMAIN files \cup {one} /\ files'[one] = s
        /\ \A c \in DOMAIN files \ {one} : files'[c] = files[c]
    BY DEF Save
  <1>2. /\ s.token \in live /\ (\A c \in DOMAIN files : files[c].token # s.token)
        /\ s.token <= drawn /\ Holds(proc[p])
    BY TokensAreNumbers DEF TokensInv, Unused, Within
  <1> HIDE DEF one
  <1>3. Spread(files', live', drawn') /\ drawn' \in Nat /\ drawn <= drawn'
    <2>1. \A c \in DOMAIN files' : c = one \/ (c \in DOMAIN files \ {one} /\ files'[c] = files[c])
      BY <1>1
    <2> HIDE DEF s
    <2>2. \A c, d \in DOMAIN files' : files'[c].token = files'[d].token => c = d
      BY <1>1, <1>2, <2>1 DEF TokensInv, Spread
    <2>3. \A c \in DOMAIN files' : files'[c].token <= drawn
      BY <1>1, <1>2, <2>1 DEF TokensInv, Spread
    <2> QED BY <2>2, <2>3, TokensAreNumbers DEF TokensInv, Spread
  <1>4. Within(drawn', r) /\ Unused(files', live', r) /\ Lent(files', r)
    BY <1>2 DEF Within, Unused, Lent, IsNew, IsLent
  <1>5. ASSUME NEW q \in Proc \ {p}
        PROVE  /\ Unused(files', live', proc[q]) /\ Lent(files', proc[q])
               /\ Differ(r, proc[q]) /\ Differ(proc[q], r)
    <2>1. /\ IsNew(proc[q]) => proc[q].session.token # s.token
          /\ Holds(proc[q]) => proc[q].session.token # s.token
      BY <1>2, TokensAreNumbers DEF TokensInv, Differ
    <2>2. Unused(files', live', proc[q])
      BY <1>1, <2>1 DEF TokensInv, Unused
    <2>3. Lent(files', proc[q])
      <3>1. IsLent(proc[q]) => Holds(proc[q])
        BY DEF IsLent, Holds
      <3> QED BY <1>1, <2>1, <3>1 DEF TokensInv, Lent
    <2>4. Differ(r, proc[q]) /\ Differ(proc[q], r)
      BY <2>1 DEF Differ, IsNew
    <2> QED BY <2>2, <2>3, <2>4
  <1>6. ASSUME calm', NEW c \in DOMAIN files'
        PROVE  \/ files'[c].token \in live' \/ Excuses(files', c, r)
               \/ \E q \in Proc \ {p} : Excuses(files', c, proc[q])
    <2>1. CASE c = one
      BY <2>1, <1>1, <1>2
    <2>2. CASE c # one
      <3>1. c \in DOMAIN files /\ files'[c] = files[c] /\ ~Excuses(files, c, proc[p])
        BY <2>2, <1>1 DEF Excuses, one
      <3>2. files[c].token \in live \/ \E q \in Proc \ {p} : Excuses(files, c, proc[q])
        BY <1>6, <3>1 DEF TokensInv
      <3> QED BY <3>1, <3>2 DEF Excuses
    <2> QED BY <2>1, <2>2
  <1> QED BY <1>3, <1>4, <1>5, <1>6, TokensStep

LEMMA SaveRenewedTokens ==
    ASSUME IInv, TokensInv, NEW p \in Proc, SaveRenewed(p)
    PROVE  TokensInv'
  <1> DEFINE r == [proc[p] EXCEPT !.pc = "ask"]
  <1>1. r.pc = "ask" /\ r.session = proc[p].session /\ IsNew(proc[p])
    BY HeldFacts DEF SaveRenewed, At, IsNew, Process
  <1>2. Step(p, r) /\ UNCHANGED <<live, drawn, calm>> /\ Save(proc[p].cred, proc[p].session)
    BY DEF SaveRenewed, history
  <1> HIDE DEF r
  <1> QED BY <1>1, <1>2, SavedTokens

LEMMA StoreSessionTokens ==
    ASSUME IInv, TokensInv, NEW p \in Proc, StoreSession(p)
    PROVE  TokensInv'
  <1>1. PICK ch : Step(p, ToLock([Idle EXCEPT !.cmd = proc[p].cmd], ch))
    BY DEF StoreSession
  <1> DEFINE r == ToLock([Idle EXCEPT !.cmd = proc[p].cmd], ch)
  <1>2. ~Holds(r) /\ ~IsNew(r) /\ ~IsLent(r)
    BY NotHeld DEF ToLock, Idle
  <1>3. IsNew(proc[p]) /\ UNCHANGED <<live, drawn, calm>> /\ Save(proc[p].cred, proc[p].session)
    BY DEF StoreSession, history, IsNew, At
  <1> HIDE DEF r
  <1> QED BY <1>1, <1>2, <1>3, SavedTokens DEF r

LEMMA SignInTokens ==
    ASSUME IInv, TokensInv, NEW p \in Proc, SignIn(p)
    PROVE  TokensInv'
  <1>1. /\ drawn \in Nat /\ drawn + 1 \in Nat /\ drawn <= drawn + 1 /\ live \subseteq Nat
        /\ \A t \in live : t <= drawn + 1
    BY TokensAreNumbers DEF TokensInv, Spread
  <1>2. UNCHANGED <<files, calm>> /\ drawn' = drawn + 1 /\ proc[p].pc = "signin" /\ proc[p] \in Process
    BY HeldFacts DEF SignIn, shared, history, At
  <1>3. PICK reported :
           \/ /\ live' = live \cup {drawn + 1}
              /\ Step(p, [proc[p] EXCEPT !.pc = "store", !.pin = reported,
                                         !.session = [url |-> proc[p].url, token |-> drawn + 1]])
           \/ /\ live' \in {live, live \cup {drawn + 1}}
              /\ Step(p, Ended("refused"))
    BY DEF SignIn
  <1>4. CASE Step(p, Ended("refused")) /\ live' \in {live, live \cup {drawn + 1}}
    <2>1. ~Holds(Ended("refused")) /\ ~IsNew(Ended("refused")) /\ ~IsLent(Ended("refused"))
      BY NotHeld DEF Ended, Idle
    <2>2. live \subseteq live' /\ \A t \in live' : t <= drawn'
      BY <1>1, <1>2, <1>4
    <2> QED BY <1>1, <1>2, <1>4, <2>1, <2>2, TokensQuiet
  <1>5. CASE /\ live' = live \cup {drawn + 1}
             /\ Step(p, [proc[p] EXCEPT !.pc = "store", !.pin = reported,
                                         !.session = [url |-> proc[p].url, token |-> drawn + 1]])
    <2> DEFINE r == [proc[p] EXCEPT !.pc = "store", !.pin = reported,
                                    !.session = [url |-> proc[p].url, token |-> drawn + 1]]
    <2>1. r.pc = "store" /\ r.session.token = drawn + 1
      BY <1>2 DEF Process
    <2>2. Step(p, r)
      BY <1>5
    <2> HIDE DEF r
    <2>3. Spread(files', live', drawn')
      BY <1>1, <1>2, <1>5, TokensAreNumbers DEF TokensInv, Spread
    <2>4. Within(drawn', r) /\ Unused(files', live', r) /\ Lent(files', r)
      <3>1. \A c \in DOMAIN files : files[c].token # drawn + 1
        BY <1>1, TokensAreNumbers DEF TokensInv, Spread
      <3> QED BY <1>1, <1>2, <1>5, <2>1, <3>1 DEF Within, Unused, Lent, IsLent
    <2>5. ASSUME NEW q \in Proc \ {p}
          PROVE  /\ Unused(files', live', proc[q]) /\ Lent(files', proc[q])
                 /\ Differ(r, proc[q]) /\ Differ(proc[q], r)
      <3>1. Holds(proc[q]) => proc[q].session.token # drawn + 1
        BY <1>1, TokensAreNumbers DEF TokensInv, Within
      <3>2. IsNew(proc[q]) => Holds(proc[q])
        BY TokensAreNumbers
      <3> QED BY <1>2, <1>5, <2>1, <3>1, <3>2 DEF TokensInv, Unused, Differ
    <2>6. ASSUME calm', NEW c \in DOMAIN files'
          PROVE  \/ files'[c].token \in live' \/ Excuses(files', c, r)
                 \/ \E q \in Proc \ {p} : Excuses(files', c, proc[q])
      <3>1. ~Excuses(files, c, proc[p])
        BY <1>2 DEF Excuses
      <3> QED BY <1>2, <1>5, <2>6, <3>1 DEF TokensInv
    <2> QED BY <1>1, <1>2, <2>2, <2>3, <2>4, <2>5, <2>6, TokensStep
  <1> QED BY <1>3, <1>4, <1>5

LEMMA LoadSessionTokens ==
    ASSUME IInv, TokensInv, NEW p \in Proc, LoadSession(p)
    PROVE  TokensInv'
  <1>1. /\ UNCHANGED <<files, live, drawn, calm>> /\ proc[p].pc = "load" /\ proc[p] \in Process
        /\ drawn \in Nat /\ \A t \in live : t <= drawn
    BY HeldFacts, TokensAreNumbers DEF LoadSession, shared, history, At, TokensInv, Spread
  <1>2. CASE Step(p, Ended("refused"))
    <2>1. ~Holds(Ended("refused")) /\ ~IsNew(Ended("refused")) /\ ~IsLent(Ended("refused"))
      BY NotHeld DEF Ended, Idle
    <2> QED BY <1>1, <1>2, <2>1, TokensQuiet
  <1>3. ASSUME NEW pc \in {"refresh", "ask"}, Stored(proc[p].cred) # None,
               Step(p, [proc[p] EXCEPT !.pc = pc, !.session = Stored(proc[p].cred)])
        PROVE  TokensInv'
    <2> DEFINE s == Stored(proc[p].cred)
               r == [proc[p] EXCEPT !.pc = pc, !.session = s]
    <2>1. r.pc = pc /\ r.session = s /\ r.cred = proc[p].cred
      BY <1>1 DEF Process
    <2>2. proc[p].cred \in DOMAIN files /\ s = files[proc[p].cred]
      BY <1>3 DEF Stored
    <2>3. Step(p, r)
      BY <1>3
    <2> HIDE DEF r, s
    <2> QED BY <1>1, <2>1, <2>2, <2>3, TokensTakeUp
  <1> QED BY <1>2, <1>3 DEF LoadSession

LEMMA TakeSessionTokens ==
    ASSUME IInv, TokensInv, NEW p \in Proc, TakeSession(p)
    PROVE  TokensInv'
  <1>1. /\ UNCHANGED <<files, live, drawn, calm>> /\ proc[p].pc = "take" /\ proc[p] \in Process
    BY HeldFacts DEF TakeSession, shared, history, At
  <1>2. PICK c : LET s == Stored(c)
                     ours == s # None /\ (proc[p].cmd.op = "remove" => s.url = proc[p].url)
                 IN Step(p, [proc[p] EXCEPT !.pc = IF ours THEN "revoke" ELSE "clear",
                                            !.cred = c, !.session = IF ours THEN s ELSE None])
    BY DEF TakeSession
  <1>3. PICK pc \in {"revoke", "clear"}, session \in {Stored(c), None} :
           Step(p, [proc[p] EXCEPT !.pc = pc, !.cred = c, !.session = session])
    BY <1>2
  <1> DEFINE r == [proc[p] EXCEPT !.pc = pc, !.cred = c, !.session = session]
  <1>4. r.pc = pc /\ r.session = session /\ r.cred = c
    BY <1>1 DEF Process
  <1>5. session = None \/ (c \in DOMAIN files /\ session = files[c])
    BY DEF Stored
  <1>6. Step(p, r)
    BY <1>3
  <1> HIDE DEF r
  <1> QED BY <1>1, <1>4, <1>5, <1>6, TokensTakeUp

\* A token is spent that at most the file that is about to be cleared has.
LEMMA RevokeTokens ==
    ASSUME IInv, TokensInv, NEW p \in Proc, Revoke(p)
    PROVE  TokensInv'
  <1> DEFINE r == [proc[p] EXCEPT !.pc = "clear"]
             old == proc[p].session.token
  <1>1. /\ UNCHANGED <<files, drawn, calm>> /\ proc[p].pc = "revoke" /\ proc[p] \in Process
        /\ Step(p, r) /\ live' \in {live, live \ {old}}
    BY HeldFacts DEF Revoke, shared, history, At
  <1>2. r.pc = "clear" /\ r.session = proc[p].session /\ r.cred = proc[p].cred
    BY <1>1 DEF Process
  <1>3. Holds(proc[p]) /\ IsLent(proc[p])
    BY <1>1, HeldFacts DEF Holds, IsLent
  <1> HIDE DEF r
  <1>4. Spread(files', live', drawn') /\ drawn' \in Nat /\ drawn <= drawn'
    BY <1>1, TokensAreNumbers DEF TokensInv, Spread
  <1>5. Within(drawn', r) /\ Unused(files', live', r) /\ Lent(files', r)
    BY <1>1, <1>2, <1>3 DEF TokensInv, Within, Unused, Lent, IsNew
  <1>6. ASSUME NEW q \in Proc \ {p}
        PROVE  /\ Unused(files', live', proc[q]) /\ Lent(files', proc[q])
               /\ Differ(r, proc[q]) /\ Differ(proc[q], r)
    <2>1. IsNew(proc[q]) => proc[q].session.token # old
      BY <1>3 DEF TokensInv, Differ
    <2> QED BY <1>1, <1>2, <2>1 DEF TokensInv, Unused, Differ, IsNew
  <1>7. ASSUME calm', NEW c \in DOMAIN files'
        PROVE  \/ files'[c].token \in live' \/ Excuses(files', c, r)
               \/ \E q \in Proc \ {p} : Excuses(files', c, proc[q])
    <2>1. files[c].token = old => c = proc[p].cred /\ files[c] = proc[p].session
      BY <1>1, <1>3 DEF TokensInv, Lent
    <2>2. files[c].token \in live \/ \E q \in Proc \ {p} : Excuses(files, c, proc[q])
      BY <1>1, <1>7 DEF TokensInv, Excuses
    <2>3. files[c].token = old => Excuses(files', c, r)
      BY <1>1, <1>2, <2>1 DEF Excuses
    <2> QED BY <1>1, <2>2, <2>3
  <1> QED BY <1>1, <1>4, <1>5, <1>6, <1>7, TokensStep

LEMMA ClearSessionTokens ==
    ASSUME IInv, TokensInv, NEW p \in Proc, ClearSession(p)
    PROVE  TokensInv'
  <1>1. /\ UNCHANGED <<live, drawn, calm>> /\ proc[p] \in Process
        /\ DOMAIN files' = DOMAIN files \ {proc[p].cred}
        /\ \A c \in DOMAIN files' : files'[c] = files[c]
    BY HeldFacts DEF ClearSession, Clear, history
  <1>2. PICK r : Step(p, r) /\ r.pc \in {"lock", "idle", "take"}
    <2> DEFINE todo == proc[p].todo \ {proc[p].cred}
    <2>1. [proc[p] EXCEPT !.pc = "take", !.todo = todo, !.cred = Legacy, !.session = None].pc = "take"
      BY <1>1 DEF Process
    <2>2. Ended("done").pc = "idle" /\ \A ch : ToLock([Idle EXCEPT !.cmd = proc[p].cmd], ch).pc = "lock"
      BY DEF Ended, Idle, ToLock
    <2> QED BY <2>1, <2>2 DEF ClearSession
  <1>3. ~Holds(r) /\ ~IsNew(r) /\ ~IsLent(r)
    BY <1>2, NotHeld
  <1>4. Spread(files', live', drawn') /\ drawn' \in Nat /\ drawn <= drawn'
    BY <1>1, TokensAreNumbers DEF TokensInv, Spread
  <1>5. Within(drawn', r) /\ Unused(files', live', r) /\ Lent(files', r)
    BY <1>3 DEF Within, Unused, Lent
  <1>6. ASSUME NEW q \in Proc \ {p}
        PROVE  /\ Unused(files', live', proc[q]) /\ Lent(files', proc[q])
               /\ Differ(r, proc[q]) /\ Differ(proc[q], r)
    BY <1>1, <1>3 DEF TokensInv, Unused, Lent, Differ
  <1>7. ASSUME calm', NEW c \in DOMAIN files'
        PROVE  \/ files'[c].token \in live' \/ Excuses(files', c, r)
               \/ \E q \in Proc \ {p} : Excuses(files', c, proc[q])
    <2>1. c \in DOMAIN files /\ ~Excuses(files, c, proc[p]) /\ files'[c] = files[c]
      BY <1>1, <1>7 DEF Excuses
    <2> QED BY <1>1, <1>7, <2>1 DEF TokensInv, Excuses
  <1> QED BY <1>2, <1>4, <1>5, <1>6, <1>7, TokensStep

LEMMA OlderBuildTokens ==
    ASSUME IInv, TokensInv, NEW u \in Url, OlderBuildSignsIn(u)
    PROVE  TokensInv'
  <1> DEFINE s == [url |-> u, token |-> drawn + 1]
  <1>1. /\ DOMAIN files' = DOMAIN files \cup {Legacy} /\ files'[Legacy] = s
        /\ \A c \in DOMAIN files' \ {Legacy} : c \in DOMAIN files /\ files'[c] = files[c]
        /\ live' = live \cup {drawn + 1} /\ drawn' = drawn + 1 /\ UNCHANGED <<proc, calm>>
    BY DEF OlderBuildSignsIn, Save
  <1>2. s.token = drawn + 1
    OBVIOUS
  <1> HIDE DEF s
  <1>3. /\ drawn \in Nat /\ (\A c \in DOMAIN files : files[c].token # drawn + 1)
        /\ \A p \in Proc : Holds(proc[p]) => proc[p].session.token # drawn + 1
    BY TokensAreNumbers DEF TokensInv, Spread, Within
  <1>4. Spread(files', live', drawn')
    <2>1. \A t \in live' : t <= drawn'
      BY <1>1, TokensAreNumbers DEF TokensInv, Spread
    <2>2. \A c \in DOMAIN files' : files'[c].token <= drawn'
      BY <1>1, <1>2, TokensAreNumbers DEF TokensInv, Spread
    <2>3. \A c, d \in DOMAIN files' : files'[c].token = files'[d].token => c = d
      BY <1>1, <1>2, <1>3 DEF TokensInv, Spread
    <2> QED BY <2>1, <2>2, <2>3 DEF Spread
  <1>5. ASSUME NEW p \in Proc
        PROVE  Within(drawn', proc'[p]) /\ Unused(files', live', proc'[p]) /\ Lent(files', proc'[p])
    <2>1. (IsNew(proc[p]) => Holds(proc[p])) /\ (IsLent(proc[p]) => Holds(proc[p]))
      BY TokensAreNumbers DEF IsLent, Holds
    <2>2. Within(drawn', proc[p])
      BY <1>1, TokensAreNumbers DEF TokensInv, Within
    <2>3. Unused(files', live', proc[p])
      BY <1>1, <1>2, <1>3, <2>1 DEF TokensInv, Unused
    <2>4. Lent(files', proc[p])
      BY <1>1, <1>2, <1>3, <2>1 DEF TokensInv, Lent
    <2> QED BY <1>1, <2>2, <2>3, <2>4
  <1>6. ASSUME calm', NEW c \in DOMAIN files'
        PROVE  files'[c].token \in live' \/ \E p \in Proc : Excuses(files', c, proc'[p])
    <2>1. CASE c = Legacy
      BY <2>1, <1>1, <1>2
    <2>2. CASE c # Legacy
      BY <2>2, <1>1, <1>6 DEF TokensInv, Excuses
    <2> QED BY <2>1, <2>2
  <1> QED BY <1>1, <1>4, <1>5, <1>6 DEF TokensInv

\* A command that begins, and an update, touch no session.
LEMMA StartTokens ==
    ASSUME IInv, TokensInv, NEW p \in Proc, NEW cmd \in Menu[scene.menu], Start(p, cmd)
    PROVE  TokensInv'
  <1>1. PICK r \in Process :
           Begin(p, cmd, r) /\ Equipped(r) /\ r.pc \in {"idle", "lock", "take", "signin", "load"}
    BY StartBegins
  <1>2. PICK s \in Process : Step(p, s) /\ s.pc = r.pc
    BY <1>1, TypedCommand, BeginSteps
  <1>3. ~Holds(s) /\ ~IsNew(s) /\ ~IsLent(s)
    BY <1>1, <1>2, NotHeld
  <1>4. proc[p].pc = "idle" /\ UNCHANGED <<files, live, calm>>
    BY <1>1 DEF Begin, Active, shared
  <1>5. drawn \in Nat /\ drawn' \in {drawn, drawn + 1} /\ \A t \in live : t \in Nat /\ t <= drawn
    <2>1. \A c : StartEdit(p, c) \/ StartRemove(p, c) \/ StartLogoutAll(p, c) => drawn' = drawn
      BY DEF StartEdit, StartRemove, StartLogoutAll
    <2>2. \A c : StartAdd(p, c) \/ StartLogin(p, c) => drawn' = drawn + 1
      BY DEF StartAdd, StartLogin
    <2>3. \A c : StartResolve(p, c) => drawn' \in {drawn, drawn + 1}
      BY DEF StartResolve
    <2> QED BY <2>1, <2>2, <2>3, TokensAreNumbers DEF Start, TokensInv, Spread
  <1>6. drawn' \in Nat /\ drawn <= drawn' /\ \A t \in live' : t <= drawn'
    BY <1>4, <1>5
  <1> QED BY <1>2, <1>3, <1>4, <1>6, TokensQuiet

LEMMA UpdateTokens ==
    ASSUME IInv, TokensInv, NEW p \in Proc, NEW r, Step(p, r),
           r.pc \notin {"refresh", "save", "ask", "revoke", "clear", "store"},
           proc[p].pc \notin {"save", "clear"}, UNCHANGED <<files, live, drawn, calm>>
    PROVE  TokensInv'
  <1>1. drawn' \in Nat /\ drawn <= drawn' /\ \A t \in live' : t <= drawn'
    BY TokensAreNumbers DEF TokensInv, Spread
  <1> QED BY <1>1, NotHeld, TokensQuiet

LEMMA LockTokens ==
    ASSUME IInv, TokensInv, NEW p \in Proc,
           UpdateLock(p) \/ JudgeStale(p) \/ TakeOver(p) \/ GiveUp(p)
             \/ ReadConfig(p) \/ WriteConfig(p) \/ Unlock(p)
    PROVE  TokensInv'
  <1>1. /\ UNCHANGED <<files, live, drawn, calm>> /\ proc[p] \in Process
        /\ proc[p].pc \notin {"save", "clear"}
    BY HeldFacts DEF UpdateLock, JudgeStale, TakeOver, GiveUp, ReadConfig, WriteConfig, Unlock,
                     At, shared, history
  <1>2. /\ \A pc : [proc[p] EXCEPT !.pc = pc].pc = pc
        /\ \A pc, outcome : [proc[p] EXCEPT !.pc = pc, !.outcome = outcome].pc = pc
        /\ \A pc, base, next : [proc[p] EXCEPT !.pc = pc, !.base = base, !.next = next].pc = pc
        /\ \A outcome : Ended(outcome).pc = "idle"
        /\ [Idle EXCEPT !.pc = "reload", !.cmd = proc[p].cmd].pc = "reload"
    BY <1>1 DEF Process, Ended, Idle
  <1>3. ASSUME NEW r, Step(p, r), r.pc \in {"idle", "reload", "lock", "stale", "read", "write", "unlock"}
        PROVE  TokensInv'
    BY <1>1, <1>3, UpdateTokens
  <1>4. CASE UpdateLock(p) \/ JudgeStale(p) \/ TakeOver(p)
    <2>1. PICK pc \in {"read", "stale", "lock"} : Step(p, [proc[p] EXCEPT !.pc = pc])
      BY <1>4 DEF UpdateLock, JudgeStale, TakeOver
    <2> DEFINE r == [proc[p] EXCEPT !.pc = pc]
    <2>2. Step(p, r) /\ r.pc = pc
      BY <1>2, <2>1
    <2> HIDE DEF r
    <2> QED BY <1>3, <2>2
  <1>5. CASE WriteConfig(p)
    <2> DEFINE r == [proc[p] EXCEPT !.pc = "unlock", !.outcome = "done"]
    <2>1. Step(p, r) /\ r.pc = "unlock"
      BY <1>2, <1>5 DEF WriteConfig
    <2> HIDE DEF r
    <2> QED BY <1>3, <2>1
  <1>6. CASE GiveUp(p)
    <2>1. PICK outcome : Step(p, Ended(outcome))
      BY <1>6 DEF GiveUp
    <2> QED BY <1>2, <1>3, <2>1
  <1>7. CASE ReadConfig(p)
    <2> DEFINE writes(next) == [proc[p] EXCEPT !.pc = "write", !.base = config, !.next = next]
               refuses == [proc[p] EXCEPT !.pc = "unlock", !.outcome = "refused"]
    <2>1. Step(p, refuses) \/ \E next : Step(p, writes(next))
      BY <1>7 DEF ReadConfig
    <2>2. refuses.pc = "unlock" /\ \A next : writes(next).pc = "write"
      BY <1>2
    <2> HIDE DEF writes, refuses
    <2> QED BY <1>3, <2>1, <2>2
  <1>8. CASE Unlock(p)
    <2> DEFINE reloads == [Idle EXCEPT !.pc = "reload", !.cmd = proc[p].cmd]
    <2>1. Step(p, reloads) \/ \E outcome : Step(p, Ended(outcome))
      BY <1>8 DEF Unlock
    <2>2. reloads.pc = "reload"
      BY <1>2
    <2> HIDE DEF reloads
    <2> QED BY <1>2, <1>3, <2>1, <2>2
  <1> QED BY <1>4, <1>5, <1>6, <1>7, <1>8

LEMMA ReloadTokens ==
    ASSUME IInv, TokensInv, NEW p \in Proc, Reload(p)
    PROVE  TokensInv'
  <1> DEFINE r == TargetOf(Loaded, proc[p].cmd)
  <1>1. /\ UNCHANGED <<files, live, drawn, calm>> /\ proc[p].pc = "reload"
        /\ Step(p, IF r.pc = "idle" THEN r ELSE [r EXCEPT !.cmd = proc[p].cmd])
    BY DEF Reload, At, shared, history
  <1>2. proc[p].cmd \in Command
    BY DEF IInv, TypeOK, Process, Well, Reload, At
  <1>3. r \in Process /\ r.pc \in {"idle", "take", "load"}
    <2>1. r \in Process /\ Aimed(Loaded, proc[p].cmd, r)
      BY <1>2, TypedLoaded, TargetType
    <2> QED BY <2>1 DEF Aimed
  <1> HIDE DEF r
  <1>4. PICK s : Step(p, s) /\ s.pc = r.pc
    <2>1. [r EXCEPT !.cmd = proc[p].cmd].pc = r.pc
      BY <1>3 DEF Process
    <2> QED BY <1>1, <2>1
  <1> QED BY <1>1, <1>3, <1>4, UpdateTokens

LEMMA VerifyTokens ==
    ASSUME IInv, TokensInv, NEW p \in Proc, Verify(p)
    PROVE  TokensInv'
  <1>1. UNCHANGED <<files, live, drawn, calm>> /\ proc[p].pc = "ask"
    BY DEF Verify, At, shared, history
  <1>2. PICK r : Step(p, r) /\ r.pc \in {"idle", "lock"}
    <2>1. /\ \A outcome : Ended(outcome).pc = "idle"
          /\ \A ch : ToLock([Idle EXCEPT !.cmd = proc[p].cmd], ch).pc = "lock"
      BY DEF Ended, Idle, ToLock
    <2> QED BY <2>1 DEF Verify
  <1> QED BY <1>1, <1>2, UpdateTokens

LEMMA DieTokens ==
    ASSUME IInv, TokensInv, NEW p \in Proc, Die(p)
    PROVE  TokensInv'
  <1>1. UNCHANGED <<files, live, drawn>> /\ ~calm' /\ Step(p, Idle)
    BY DEF Die, Fault, shared
  <1>2. ~Holds(Idle) /\ ~IsNew(Idle) /\ ~IsLent(Idle)
    BY NotHeld DEF Idle
  <1>3. drawn' \in Nat /\ drawn <= drawn' /\ \A t \in live' : t <= drawn'
    BY <1>1, TokensAreNumbers DEF TokensInv, Spread
  <1> QED BY <1>1, <1>2, <1>3, TokensQuiet

LEMMA TokensInit == Init => TokensInv
  <1> SUFFICES ASSUME Init
               PROVE  TokensInv
    OBVIOUS
  <1>1. PICK u \in Url \cup {None} :
           files = [c \in IF u = None THEN {} ELSE {Legacy} |-> [url |-> u, token |-> 1]]
    BY DEF Init
  <1>2. live = {1} /\ drawn = 1 /\ \A c \in DOMAIN files : c = Legacy /\ files[c].token = 1
    BY <1>1 DEF Init
  <1>3. \A p \in Proc : ~Holds(proc[p]) /\ ~IsNew(proc[p]) /\ ~IsLent(proc[p])
    BY NotHeld DEF Init, Idle
  <1> QED BY <1>2, <1>3 DEF TokensInv, Spread, Within, Unused, Lent, Differ

LEMMA TokensNext == IInv /\ TokensInv /\ [Next]_vars => TokensInv'
  <1> SUFFICES ASSUME IInv, TokensInv, [Next]_vars
               PROVE  TokensInv'
    OBVIOUS
  <1>1. ASSUME NEW p \in Proc, NEW cmd \in Menu[scene.menu], Start(p, cmd)
        PROVE  TokensInv'
    BY <1>1, StartTokens
  <1>2. ASSUME NEW p \in Proc, Act(p)
        PROVE  TokensInv'
    BY <1>2, LockTokens, ReloadTokens, LoadSessionTokens, RefreshTokens, LoseRenewalTokens,
       SaveRenewedTokens, VerifyTokens, SignInTokens, StoreSessionTokens, TakeSessionTokens,
       RevokeTokens, ClearSessionTokens, DieTokens DEF Act
  <1>3. CASE UNCHANGED <<files, live, drawn, calm, proc>>
    BY <1>3 DEF TokensInv
  <1>4. AgeLock => UNCHANGED <<files, live, drawn, calm, proc>>
    BY DEF AgeLock
  <1>5. ASSUME NEW u \in Url, OlderBuildSignsIn(u) \/ \E i \in Instance : Redeploy(u, i)
        PROVE  TokensInv'
    BY <1>3, <1>5, OlderBuildTokens DEF Redeploy, shared, history
  <1>6. UNCHANGED vars => UNCHANGED <<files, live, drawn, calm, proc>>
    BY DEF vars
  <1> QED BY <1>1, <1>2, <1>3, <1>4, <1>5, <1>6 DEF Next

\* While nothing dies and no answer is lost, a stored session is one that its
\* server honours, or one that somebody is about to replace or clear.
THEOREM StoredSessionsStayLive == Spec => []StoredSessionsAreLive
  <1>1. TokensInv => StoredSessionsAreLive
    BY DEF TokensInv, StoredSessionsAreLive, Excuses, At
  <1> QED BY <1>1, TokensInit, TokensNext, ProfilesInvariant, PTL DEF Spec
----------------------------------------------------------------------------
(* Owners.  While commands do not overlap, a credential file belongs to a   *)
(* profile, is the one that every logout of all clears, or is one that a    *)
(* login has saved and is about to record; and what a login is about to     *)
(* record fits the configuration, but for the first one of all.             *)

Owned(c, cred) == \E n \in Name : IsProfile(c, n) /\ c.profiles[n].cred = cred
Covered(c, cred) == cred = Legacy \/ (c # None /\ Owned(c, cred))
Gone(fs, cred) == cred = Legacy \/ cred \notin DOMAIN fs
Below(c, n) == \A m \in Name : IsProfile(c, m) => c.profiles[m].cred <= n

\* What a login works out fits: a profile that is there, or a free name and a
\* file that no profile has.
Fits(c, name, url, cred) ==
    /\ name \in Name
    /\ c = None => cred = Legacy \/ name # DefaultName
    /\ c # None => \/ IsProfile(c, name) /\ c.profiles[name].url = url /\ c.profiles[name].cred = cred
                   \/ ~Taken(c, name) /\ ~Owned(c, cred)
Written(c, fs, url, cred) == c = None /\ cred = Legacy => Legacy \in DOMAIN fs /\ fs[Legacy].url = url

Records(r) == r.pc \in {"lock", "read", "write"} /\ r.change.kind = "record"

Small(n, r) ==
    /\ r.pc \in {"signin", "store"} => r.cred <= n
    /\ r.pc \in {"lock", "read"} => r.change.cred <= n /\ r.change.other <= n
Joins(c, fs, r) ==
    /\ r.pc \in {"signin", "store"} => Fits(c, r.name, r.url, r.cred)
    /\ r.pc = "store" => r.session.url = r.url
    /\ r.pc \in {"lock", "read"} /\ r.change.kind = "record" =>
          /\ Fits(c, r.change.name, r.change.url, r.change.cred)
          /\ Written(c, fs, r.change.url, r.change.cred)
Parts(c, fs, r) ==
    /\ r.pc = "take" /\ r.cmd.op = "remove" /\ c # None /\ IsProfile(c, r.name) =>
          r.todo = {c.profiles[r.name].cred}
    /\ r.pc \in {"revoke", "clear"} /\ r.cmd.op = "remove" /\ c # None /\ IsProfile(c, r.name) =>
          r.cred = c.profiles[r.name].cred
    /\ r.pc \in {"lock", "read"} /\ r.change.kind \in {"remove", "adopt"} /\ c # None =>
          \A m \in {r.change.name, r.change.to} : IsProfile(c, m) => Gone(fs, c.profiles[m].cred)
Ends(c, fs, n, r) ==
    /\ r.pc = "write" => (\A d \in DOMAIN fs : Covered(r.next, d)) /\ Below(r.next, n)
    /\ r.pc = "unlock" /\ r.change.kind = "record" /\ r.outcome = "refused" =>
          c = None /\ r.change.name # DefaultName /\ r.change.cred = Legacy
    /\ r.pc # "stale"
Uses(c, r) == r.pc \in {"load", "refresh", "save"} => Covered(c, r.cred)

Sound(c, fs, n, r) == Small(n, r) /\ Uses(c, r) /\ Joins(c, fs, r) /\ Parts(c, fs, r) /\ Ends(c, fs, n, r)

Orderly ==
    /\ \A p, q \in Proc : Active(p) /\ Active(q) => p = q
    /\ lock # None => \E p \in Proc : InUpdate(p)
    /\ config # None => Below(config, drawn)
    /\ \A p \in Proc : Sound(config, files, drawn, proc[p])
    /\ \A c \in DOMAIN files :
          Covered(config, c) \/ \E p \in Proc : Records(proc[p]) /\ proc[p].change.cred = c

OwnersInv == ~crowded => Orderly

(* Edits and owners. *)

LEMMA AddOwns ==
    ASSUME NEW c \in Config, NEW n \in Name, NEW profile \in Profile, NEW d \in BOOLEAN, ~IsProfile(c, n)
    PROVE  /\ \A cred : Owned(c, cred) => Owned(Add(c, n, profile, d), cred)
           /\ Owned(Add(c, n, profile, d), profile.cred)
           /\ \A k \in Nat : Below(c, k) /\ profile.cred <= k => Below(Add(c, n, profile, d), k)
           /\ Valid(c) /\ ~Owned(c, profile.cred) => Valid(Add(c, n, profile, d))
  <1> DEFINE next == Add(c, n, profile, d)
  <1>1. /\ next.profiles[n] = profile /\ IsProfile(next, n)
        /\ \A m \in Name \ {n} : next.profiles[m] = c.profiles[m] /\ (IsProfile(next, m) <=> IsProfile(c, m))
        /\ next.default = IF d \/ c.default = None THEN n ELSE c.default
    BY RecordsAssumption DEF Add, Config, IsProfile
  <1> HIDE DEF next
  <1>2. \A cred : Owned(c, cred) => Owned(next, cred)
    BY <1>1 DEF Owned
  <1>3. Owned(next, profile.cred)
    BY <1>1 DEF Owned
  <1>4. \A k \in Nat : Below(c, k) /\ profile.cred <= k => Below(next, k)
    BY <1>1 DEF Below
  <1>5. ASSUME Valid(c), ~Owned(c, profile.cred)
        PROVE  Valid(next)
    <2>1. c.default # None => c.default \in Name /\ IsProfile(c, c.default) /\ c.default # n
      BY <1>5 DEF Valid, IsProfile
    <2>2. next.default # None => IsProfile(next, next.default)
      BY <1>1, <2>1
    <2>3. ASSUME NEW m \in Name, NEW k \in Name, IsProfile(next, m), IsProfile(next, k), m # k
          PROVE  next.profiles[m].cred # next.profiles[k].cred
      BY <1>1, <1>5, <2>3 DEF Valid, Owned
    <2> QED BY <2>2, <2>3 DEF Valid
  <1> QED BY <1>2, <1>3, <1>4, <1>5 DEF next

LEMMA RenameOwns ==
    ASSUME NEW c \in Config, NEW old \in Name, NEW new \in Name, new # old, IsProfile(c, old), ~IsProfile(c, new)
    PROVE  /\ \A cred : Owned(c, cred) => Owned(Rename(c, old, new), cred)
           /\ \A k \in Nat : Below(c, k) => Below(Rename(c, old, new), k)
  <1> DEFINE next == Rename(c, old, new)
  <1>1. /\ next.profiles[new] = c.profiles[old] /\ IsProfile(next, new) /\ ~IsProfile(next, old)
        /\ \A m \in Name \ {old, new} :
              next.profiles[m] = c.profiles[m] /\ (IsProfile(next, m) <=> IsProfile(c, m))
    BY DEF Rename, Config, IsProfile
  <1> HIDE DEF next
  <1>2. \A cred : Owned(c, cred) => Owned(next, cred)
    BY <1>1 DEF Owned
  <1>3. \A k \in Nat : Below(c, k) => Below(next, k)
    BY <1>1 DEF Below
  <1> QED BY <1>2, <1>3 DEF next

LEMMA RemoveOwns ==
    ASSUME NEW c \in Config, NEW n \in Name
    PROVE  /\ \A cred : Owned(c, cred) =>
                 Owned(Remove(c, n), cred) \/ (IsProfile(c, n) /\ c.profiles[n].cred = cred)
           /\ \A k \in Nat : Below(c, k) => Below(Remove(c, n), k)
  <1> DEFINE next == Remove(c, n)
  <1>1. /\ ~IsProfile(next, n)
        /\ \A m \in Name \ {n} : next.profiles[m] = c.profiles[m] /\ (IsProfile(next, m) <=> IsProfile(c, m))
    BY DEF Remove, Config, IsProfile
  <1> HIDE DEF next
  <1>2. \A cred : Owned(c, cred) => Owned(next, cred) \/ (IsProfile(c, n) /\ c.profiles[n].cred = cred)
    BY <1>1 DEF Owned
  <1>3. \A k \in Nat : Below(c, k) => Below(next, k)
    BY <1>1 DEF Below
  <1> QED BY <1>2, <1>3 DEF next

LEMMA SameOwners ==
    ASSUME NEW c, NEW next, next.profiles = c.profiles
    PROVE  /\ \A cred : Owned(c, cred) => Owned(next, cred)
           /\ \A k \in Nat : Below(c, k) => Below(next, k)
  BY DEF Owned, Below, IsProfile

LEMMA PinOwns ==
    ASSUME NEW c \in Config, NEW ch \in Change
    PROVE  /\ \A cred : Owned(c, cred) => Owned(Pin(c, ch), cred)
           /\ \A k \in Nat : Below(c, k) => Below(Pin(c, ch), k)
           /\ Valid(c) => Valid(Pin(c, ch))
  <1> DEFINE next == Pin(c, ch)
  <1>1. CASE next = c
    BY <1>1
  <1>2. CASE next # c
    <2> DEFINE profile == [c.profiles[ch.name] EXCEPT !.inst = ch.inst]
    <2>1. /\ IsProfile(c, ch.name) /\ ch.name \in Name /\ c.profiles[ch.name] \in Profile
          /\ next = [c EXCEPT !.profiles = [@ EXCEPT ![ch.name] = profile]]
      BY <1>2 DEF Pin, IsProfile, Config
    <2>2. profile \in Profile /\ profile.cred = c.profiles[ch.name].cred
      BY <2>1 DEF Profile, Change
    <2> HIDE DEF profile, next
    <2>3. /\ next.default = c.default
          /\ \A m \in Name : /\ IsProfile(next, m) <=> IsProfile(c, m)
                             /\ IsProfile(c, m) => next.profiles[m].cred = c.profiles[m].cred
      BY <2>1, <2>2, RecordsAssumption DEF Config, IsProfile
    <2>4. c.default # None => (IsProfile(next, c.default) <=> IsProfile(c, c.default))
      BY <2>3 DEF Config
    <2> QED BY <2>3, <2>4 DEF Owned, Below, Valid, next
  <1> QED BY <1>1, <1>2

LEMMA SetCredentialOwns ==
    ASSUME NEW c \in Config, NEW n, NEW cred \in Credential
    PROVE  /\ SetCredential(c, n, cred) \in Config
           /\ \A d : Owned(c, d) =>
                 Owned(SetCredential(c, n, cred), d) \/ (IsProfile(c, n) /\ c.profiles[n].cred = d)
           /\ \A k \in Nat : Below(c, k) /\ cred <= k => Below(SetCredential(c, n, cred), k)
           /\ \A m \in Name : /\ IsProfile(SetCredential(c, n, cred), m) <=> IsProfile(c, m)
                              /\ m # n => SetCredential(c, n, cred).profiles[m] = c.profiles[m]
  <1> DEFINE next == SetCredential(c, n, cred)
  <1>1. CASE ~IsProfile(c, n)
    BY <1>1 DEF SetCredential
  <1>2. CASE IsProfile(c, n)
    <2> DEFINE profile == [c.profiles[n] EXCEPT !.cred = cred]
    <2>1. n \in Name /\ next = [c EXCEPT !.profiles = [@ EXCEPT ![n] = profile]] /\ c.profiles[n] \in Profile
      BY <1>2 DEF SetCredential, IsProfile, Config
    <2>2. profile \in Profile /\ profile.cred = cred
      BY <2>1 DEF Profile
    <2> HIDE DEF profile, next
    <2>3. /\ next \in Config /\ next.profiles[n] = profile
          /\ \A m \in Name : /\ IsProfile(next, m) <=> IsProfile(c, m)
                             /\ m # n => next.profiles[m] = c.profiles[m]
      BY <2>1, <2>2, <1>2, RecordsAssumption DEF Config, IsProfile
    <2>4. \A d : Owned(c, d) => Owned(next, d) \/ c.profiles[n].cred = d
      BY <2>3 DEF Owned
    <2>5. \A k \in Nat : Below(c, k) /\ cred <= k => Below(next, k)
      BY <2>2, <2>3 DEF Below
    <2> QED BY <1>2, <2>3, <2>4, <2>5 DEF next
  <1> QED BY <1>1, <1>2

LEMMA AdoptOwns ==
    ASSUME NEW c \in Config, NEW ch \in Change, ch.url # None,
           IsProfile(c, ch.name) \/ ch.name \in Name
    PROVE  /\ \A d : Owned(c, d) =>
                 \/ Owned(Adopt(c, ch), d)
                 \/ \E m \in {ch.name, ch.to} : IsProfile(c, m) /\ c.profiles[m].cred = d
           /\ \A k \in Nat : Below(c, k) /\ ch.other <= k => Below(Adopt(c, ch), k)
  <1> DEFINE disowned == SetCredential(c, ch.to, ch.other)
             profile == NewProfile(ch.url, Legacy, ch.inst)
  <1>1. /\ ch.other \in Credential /\ Legacy \in Credential /\ ch.url \in Url /\ FALSE \in BOOLEAN
        /\ ch.inst \in Instance \cup {None} /\ ch.name \in Name /\ \A k \in Nat : Legacy <= k
    BY DEF Change, Credential, Legacy, IsProfile
  <1>2. /\ disowned \in Config
        /\ \A d : Owned(c, d) => Owned(disowned, d) \/ (IsProfile(c, ch.to) /\ c.profiles[ch.to].cred = d)
        /\ \A k \in Nat : Below(c, k) /\ ch.other <= k => Below(disowned, k)
        /\ \A m \in Name : /\ IsProfile(disowned, m) <=> IsProfile(c, m)
                           /\ m # ch.to => disowned.profiles[m] = c.profiles[m]
    BY <1>1, SetCredentialOwns
  <1>3. profile \in Profile /\ profile.cred = Legacy
    BY <1>1, NewProfileType DEF NewProfile
  <1> HIDE DEF disowned, profile
  <1>4. CASE IsProfile(c, ch.name)
    <2>1. Adopt(c, ch) = SetCredential(disowned, ch.name, Legacy)
      BY <1>4 DEF Adopt, disowned
    <2>2. ASSUME NEW d, Owned(c, d)
          PROVE  \/ Owned(Adopt(c, ch), d)
                 \/ \E m \in {ch.name, ch.to} : IsProfile(c, m) /\ c.profiles[m].cred = d
      <3>1. CASE IsProfile(c, ch.to) /\ c.profiles[ch.to].cred = d
        BY <3>1
      <3>2. CASE ch.name # ch.to /\ Owned(disowned, d)
        <4>1. Owned(Adopt(c, ch), d) \/ (IsProfile(disowned, ch.name) /\ disowned.profiles[ch.name].cred = d)
          BY <1>1, <1>2, <2>1, <3>2, SetCredentialOwns
        <4> QED BY <1>1, <1>2, <1>4, <3>2, <4>1
      <3>3. CASE ch.name = ch.to /\ ~(IsProfile(c, ch.to) /\ c.profiles[ch.to].cred = d)
        <4>1. PICK m \in Name : IsProfile(c, m) /\ c.profiles[m].cred = d /\ m # ch.to
          BY <2>2, <3>3 DEF Owned
        <4>2. IsProfile(disowned, m) /\ disowned.profiles[m] = c.profiles[m]
          BY <1>2, <4>1
        <4>3. IsProfile(Adopt(c, ch), m) /\ Adopt(c, ch).profiles[m] = c.profiles[m]
          BY <1>1, <1>2, <2>1, <3>3, <4>1, <4>2, SetCredentialOwns
        <4> QED BY <4>1, <4>3 DEF Owned
      <3> QED BY <1>2, <2>2, <3>1, <3>2, <3>3
    <2>3. \A k \in Nat : Below(c, k) /\ ch.other <= k => Below(Adopt(c, ch), k)
      BY <1>1, <1>2, <2>1, SetCredentialOwns
    <2> QED BY <2>2, <2>3
  <1>5. CASE ~IsProfile(c, ch.name)
    <2>1. Adopt(c, ch) = Add(disowned, ch.name, profile, FALSE) /\ ~IsProfile(disowned, ch.name)
      BY <1>1, <1>2, <1>5 DEF Adopt, disowned, profile
    <2> PICK taker \in Config, heir \in Profile, name \in Name : taker = disowned /\ heir = profile /\ name = ch.name
      BY <1>1, <1>2, <1>3
    <2>2. /\ \A d : Owned(disowned, d) => Owned(Adopt(c, ch), d)
          /\ \A k \in Nat : Below(disowned, k) /\ profile.cred <= k => Below(Adopt(c, ch), k)
      <3>1. ~IsProfile(taker, name) /\ FALSE \in BOOLEAN /\ Adopt(c, ch) = Add(taker, name, heir, FALSE)
        BY <2>1
      <3>2. /\ \A d : Owned(taker, d) => Owned(Add(taker, name, heir, FALSE), d)
            /\ \A k \in Nat : Below(taker, k) /\ heir.cred <= k => Below(Add(taker, name, heir, FALSE), k)
        BY ONLY <3>1, AddOwns
      <3> QED BY <3>1, <3>2
    <2>3. \A k \in Nat : Below(c, k) /\ ch.other <= k => Below(Adopt(c, ch), k)
      BY <1>1, <1>2, <1>3, <2>2
    <2>4. \A d : Owned(c, d) =>
             \/ Owned(Adopt(c, ch), d)
             \/ \E m \in {ch.name, ch.to} : IsProfile(c, m) /\ c.profiles[m].cred = d
      BY <1>2, <2>2
    <2> QED BY <2>3, <2>4
  <1> QED BY <1>4, <1>5

\* An edit takes a file from a profile only when it removes the profile, or when
\* it hands the file of the older builds over.
LEMMA ApplyOwns ==
    ASSUME NEW c \in Config, NEW ch \in Change, CanApply(c, ch), Equipped([Idle EXCEPT !.change = ch])
    PROVE  /\ \A d : Owned(c, d) =>
                 \/ Owned(Apply(c, ch), d)
                 \/ /\ ch.kind \in {"remove", "adopt"}
                    /\ \E m \in {ch.name, ch.to} : IsProfile(c, m) /\ c.profiles[m].cred = d
           /\ \A k \in Nat : Below(c, k) /\ ch.cred <= k /\ ch.other <= k => Below(Apply(c, ch), k)
  <1>1. /\ ch.cred \in Credential /\ ch.inst \in Instance \cup {None} /\ FALSE \in BOOLEAN
        /\ ch.default \in BOOLEAN /\ None \in Instance \cup {None} /\ ch.url \in Url \cup {None}
    BY DEF Change
  <1>2. ch.kind \in {"add", "record", "adopt"} => ch.url \in Url /\ ch.url # None
    <2>1. [Idle EXCEPT !.change = ch].change = ch
      BY DEF Idle
    <2> QED BY <1>1, <2>1 DEF Equipped
  <1>3. CASE ch.kind \in {"use", "forget"}
    <2>1. Apply(c, ch) \in {SetDefault(c, ch.name), Forget(c, ch.name)}
      BY <1>3 DEF Apply
    <2>2. Apply(c, ch).profiles = c.profiles
      BY <2>1 DEF SetDefault, Forget, Config
    <2> QED BY <2>2, SameOwners
  <1>4. CASE ch.kind = "add"
    <2> DEFINE profile == NewProfile(ch.url, ch.cred, None)
    <2>1. profile \in Profile /\ profile.cred = ch.cred
      BY <1>1, <1>2, <1>4, NewProfileType DEF NewProfile
    <2> HIDE DEF profile
    <2>2. /\ ch.name \in Name /\ ~IsProfile(c, ch.name)
          /\ Apply(c, ch) = Add(c, ch.name, profile, ch.default)
      BY <1>4 DEF CanApply, CanAdd, Available, Apply, profile
    <2> QED BY <1>1, <2>1, <2>2, AddOwns
  <1>5. CASE ch.kind = "rename"
    <2>1. /\ ch.name \in Name /\ ch.to \in Name /\ IsProfile(c, ch.name) /\ ~IsProfile(c, ch.to)
          /\ ch.to # ch.name /\ Apply(c, ch) = Rename(c, ch.name, ch.to)
      BY <1>5 DEF CanApply, CanRename, Available, Apply, IsProfile
    <2> QED BY <2>1, RenameOwns
  <1>6. CASE ch.kind = "remove"
    <2>1. CASE IsProfile(c, ch.name)
      <3>1. ch.name \in Name /\ Apply(c, ch) = Remove(c, ch.name)
        BY <1>6, <2>1 DEF Apply, IsProfile
      <3> QED BY <1>6, <3>1, RemoveOwns
    <2>2. CASE ~IsProfile(c, ch.name)
      BY <1>6, <2>2 DEF Apply
    <2> QED BY <2>1, <2>2
  <1>7. CASE ch.kind = "record"
    <2>1. CASE IsProfile(c, ch.name)
      <3>1. Apply(c, ch) = Pin(c, ch)
        BY <1>7, <2>1 DEF Apply
      <3> QED BY <3>1, PinOwns
    <2>2. CASE ~IsProfile(c, ch.name)
      <3> DEFINE profile == NewProfile(ch.url, ch.cred, ch.inst)
      <3>1. profile \in Profile /\ profile.cred = ch.cred
        BY <1>1, <1>2, <1>7, NewProfileType DEF NewProfile
      <3> HIDE DEF profile
      <3>2. ch.name \in Name /\ Apply(c, ch) = Add(c, ch.name, profile, FALSE)
        BY <1>7, <2>2 DEF CanApply, CanAdd, Available, Apply, profile
      <3> QED BY <1>1, <2>2, <3>1, <3>2, AddOwns
    <2> QED BY <2>1, <2>2
  <1>8. CASE ch.kind = "adopt"
    <2>1. Apply(c, ch) = Adopt(c, ch) /\ (IsProfile(c, ch.name) \/ ch.name \in Name)
      BY <1>8 DEF CanApply, CanAdd, Available, Apply
    <2> QED BY <1>2, <1>8, <2>1, AdoptOwns
  <1>9. CASE ch.kind \in {"none", "pin"}
    <2>1. Apply(c, ch) = Pin(c, ch)
      BY <1>9 DEF Apply
    <2> QED BY <2>1, PinOwns
  <1>10. ch.kind \in {"none", "use", "add", "rename", "forget", "remove", "record", "adopt", "pin"}
    BY DEF Change
  <1> QED BY <1>3, <1>4, <1>5, <1>6, <1>7, <1>8, <1>9, <1>10

(* The configuration that a command finds. *)

LEMMA LegacyProfile ==
    ASSUME NEW url \in Url
    PROVE  /\ \A n \in Name : IsProfile(FromLegacy(url), n) <=> n = DefaultName
           /\ FromLegacy(url).profiles[DefaultName] = NewProfile(url, Legacy, None)
           /\ \A n : ~IsTombstone(FromLegacy(url), n)
  <1> DEFINE profile == NewProfile(url, Legacy, None)
             profiles == [Empty.profiles EXCEPT ![DefaultName] = profile]
  <1>1. profile \in Profile
    BY NewProfileType DEF Legacy, Credential
  <1>2. profiles = [n \in Name |-> IF n = DefaultName THEN profile ELSE None]
    BY ConfigAssumption DEF Empty
  <1>3. FromLegacy(url) = [Empty EXCEPT !.default = DefaultName, !.profiles = profiles]
    BY DEF FromLegacy
  <1> HIDE DEF profiles
  <1>4. FromLegacy(url).profiles = profiles /\ FromLegacy(url).renamed = [n \in Name |-> None]
    BY <1>3 DEF Empty
  <1> QED BY <1>1, <1>2, <1>4, RecordsAssumption, ConfigAssumption DEF IsProfile, IsTombstone

LEMMA LoadedOwns ==
    ASSUME IInv
    PROVE  /\ config # None => Loaded = config
           /\ \A d : config # None /\ Owned(config, d) => Owned(Loaded, d)
           /\ \A d : Owned(Loaded, d) => Covered(config, d)
           /\ config = None =>
                 /\ \A n : ~IsTombstone(Loaded, n)
                 /\ \A n \in Name : IsProfile(Loaded, n) =>
                       /\ n = DefaultName /\ Loaded.profiles[n].cred = Legacy
                       /\ Legacy \in DOMAIN files /\ Loaded.profiles[n].url = files[Legacy].url
                 /\ Legacy \in DOMAIN files => IsProfile(Loaded, DefaultName)
                 /\ \A n \in Nat : Below(Loaded, n)
  <1>1. CASE config # None
    BY <1>1 DEF Loaded, Covered
  <1>2. CASE config = None /\ Legacy \in DOMAIN files
    <2>1. files[Legacy] \in Session /\ files[Legacy] # None /\ files[Legacy].url \in Url
      BY <1>2, NoneAssumption DEF IInv, TypeOK, Session
    <2>2. Loaded = FromLegacy(files[Legacy].url)
      BY <1>2, <2>1 DEF Loaded, Stored
    <2> DEFINE url == files[Legacy].url
    <2>3. /\ NewProfile(url, Legacy, None).cred = Legacy /\ NewProfile(url, Legacy, None).url = url
          /\ DefaultName \in Name
      BY ConfigAssumption DEF NewProfile
    <2>4. /\ \A n \in Name : IsProfile(Loaded, n) <=> n = DefaultName
          /\ Loaded.profiles[DefaultName] = NewProfile(url, Legacy, None)
          /\ \A n : ~IsTombstone(Loaded, n)
      BY <2>1, <2>2, LegacyProfile
    <2> HIDE DEF url
    <2>5. /\ Loaded.profiles[DefaultName].cred = Legacy /\ Loaded.profiles[DefaultName].url = url
          /\ \A n \in Nat : Legacy <= n
      BY <2>3, <2>4 DEF Legacy
    <2> QED BY <1>2, <2>3, <2>4, <2>5 DEF Covered, Owned, Below, url
  <1>3. CASE config = None /\ Legacy \notin DOMAIN files
    <2>1. Loaded = Empty
      BY <1>3 DEF Loaded, Stored
    <2>2. \A n \in Name : ~IsTombstone(Empty, n) /\ ~IsProfile(Empty, n)
      BY EmptyConfig
    <2> QED BY <1>3, <2>1, <2>2 DEF Owned, Below, IsTombstone
  <1> QED BY <1>1, <1>2, <1>3

LEMMA FreshIsFree ==
    ASSUME IInv, config # None => Below(config, drawn)
    PROVE  /\ FreshCredential(Loaded) \in Nat /\ FreshCredential(Loaded) <= drawn + 1
           /\ ~Owned(Loaded, FreshCredential(Loaded))
           /\ Legacy \in DOMAIN files => FreshCredential(Loaded) # Legacy
  <1>1. drawn \in Nat /\ Loaded \in Config /\ \A d \in DOMAIN files : files[d] # None
    BY TypedLoaded, NoneAssumption DEF IInv, TypeOK
  <1>2. Below(Loaded, drawn)
    BY <1>1, LoadedOwns
  <1>3. \A n \in Name : IsProfile(Loaded, n) => Loaded.profiles[n].cred \in Nat
    BY <1>1 DEF IsProfile, Config, Profile, Credential
  <1>4. ~Owned(Loaded, drawn + 1)
    BY <1>1, <1>2, <1>3 DEF Owned, Below
  <1>5. CASE (\E n \in Profiles(Loaded) : Loaded.profiles[n].cred = Legacy) \/ Stored(Legacy) # None
    BY <1>1, <1>4, <1>5 DEF FreshCredential, Legacy
  <1>6. CASE ~((\E n \in Profiles(Loaded) : Loaded.profiles[n].cred = Legacy) \/ Stored(Legacy) # None)
    <2>1. FreshCredential(Loaded) = Legacy /\ Legacy \notin DOMAIN files
      BY <1>1, <1>6 DEF FreshCredential, Stored
    <2>2. ~Owned(Loaded, Legacy)
      BY <1>6 DEF Owned, Profiles
    <2> QED BY <1>1, <2>1, <2>2 DEF Legacy
  <1> QED BY <1>5, <1>6
----------------------------------------------------------------------------
(* What a login has worked out, it can record. *)

LEMMA NotTaken ==
    ASSUME NEW c, NEW n \in Name, NEW url, NEW cred, NEW inst, ~Taken(c, n)
    PROVE  CanAdd(c, n, NewProfile(url, cred, inst), FALSE) /\ ~IsProfile(c, n)
  BY DEF CanAdd, Available, Taken

LEMMA RecordAccepted ==
    ASSUME IInv, NEW ch \in Change, ch.kind = "record", ch.url # None,
           Fits(config, ch.name, ch.url, ch.cred), Written(config, files, ch.url, ch.cred),
           ~(config = None /\ ch.name # DefaultName /\ ch.cred = Legacy)
    PROVE  /\ CanApply(Loaded, ch) /\ Valid(Apply(Loaded, ch))
           /\ Owned(Apply(Loaded, ch), ch.cred)
  <1> DEFINE profile == NewProfile(ch.url, ch.cred, ch.inst)
  <1>1. Loaded \in Config /\ Valid(Loaded)
    BY LoadedType, TypeParts DEF IInv
  <1>2. ch.name \in Name /\ FALSE \in BOOLEAN
    BY DEF Fits
  <1>3. profile \in Profile /\ profile.cred = ch.cred
    BY NewProfileType DEF Change, NewProfile
  <1>4. \/ IsProfile(Loaded, ch.name) /\ Loaded.profiles[ch.name].url = ch.url
           /\ Loaded.profiles[ch.name].cred = ch.cred
        \/ ~Taken(Loaded, ch.name) /\ ~Owned(Loaded, ch.cred)
    <2>1. CASE config # None
      BY <2>1, LoadedOwns DEF Fits
    <2>2. CASE config = None /\ ch.name = DefaultName
      <3>1. ch.cred = Legacy /\ Legacy \in DOMAIN files /\ files[Legacy].url = ch.url
        BY <2>2 DEF Fits, Written
      <3> QED BY <1>2, <2>2, <3>1, LoadedOwns
    <2>3. CASE config = None /\ ch.name # DefaultName
      <3>1. ch.cred # Legacy
        BY <2>3
      <3>2. ~Owned(Loaded, ch.cred)
        BY <2>3, <3>1, LoadedOwns DEF Covered
      <3>3. ~IsProfile(Loaded, ch.name) /\ ~IsTombstone(Loaded, ch.name)
        BY <1>2, <2>3, LoadedOwns
      <3> QED BY <3>2, <3>3 DEF Taken
    <2> QED BY <2>1, <2>2, <2>3
  <1>5. CASE /\ IsProfile(Loaded, ch.name) /\ Loaded.profiles[ch.name].url = ch.url
             /\ Loaded.profiles[ch.name].cred = ch.cred
    <2>1. CanApply(Loaded, ch) /\ Apply(Loaded, ch) = Pin(Loaded, ch)
      BY <1>5 DEF CanApply, Apply
    <2>2. Owned(Loaded, ch.cred)
      BY <1>2, <1>5 DEF Owned
    <2> QED BY <1>1, <2>1, <2>2, PinOwns
  <1>6. CASE ~Taken(Loaded, ch.name) /\ ~Owned(Loaded, ch.cred)
    <2>1. CanAdd(Loaded, ch.name, profile, FALSE) /\ ~IsProfile(Loaded, ch.name)
      BY <1>2, <1>6, NotTaken
    <2>2. CanApply(Loaded, ch) /\ Apply(Loaded, ch) = Add(Loaded, ch.name, profile, FALSE)
      BY <2>1 DEF CanApply, Apply
    <2> HIDE DEF profile
    <2> QED BY <1>1, <1>2, <1>3, <1>6, <2>1, <2>2, AddOwns
  <1> QED BY <1>4, <1>5, <1>6

\* A plan is for a profile that is there, with its server, or for a free name.
LEMMA PlanIsClear ==
    ASSUME NEW c \in Config, NEW name \in Name \cup {None}, NEW url \in Url \cup {None},
           PlanLogin(c, name, url) # Refusal,
           name = None /\ url # None /\ ProfilesForUrl(c, url) = {} => Nameable(c, url)
    PROVE  LET plan == PlanLogin(c, name, url) IN
           \/ IsProfile(c, plan.name) /\ plan.url = c.profiles[plan.name].url
           \/ plan.name \in Name /\ ~Taken(c, plan.name)
  <1> DEFINE plan == PlanLogin(c, name, url)
             Plain(choice) == \/ IsProfile(c, choice.name) /\ choice.url = c.profiles[choice.name].url
                              \/ choice.name \in Name /\ ~Taken(c, choice.name)
  <1>1. \A n, source : IsProfile(c, n) => Plain(Through(c, n, source))
    BY DEF Through
  <1>2. \A n, source : ByName(c, n, source) = Refusal \/ Plain(ByName(c, n, source))
    BY <1>1 DEF ByName
  <1>3. CASE name # None /\ url # None
    <2>1. CASE IsProfile(c, name)
      BY <1>1, <1>3, <2>1 DEF PlanLogin
    <2>2. CASE ~IsProfile(c, name)
      <3>1. plan = [name |-> name, url |-> url, source |-> "flag"] /\ CanAdd(c, name, NewProfile(url, Legacy, None), FALSE)
        BY <1>3, <2>2 DEF PlanLogin
      <3>2. ~IsTombstone(c, name) /\ name \in Name
        BY <3>1 DEF CanAdd, Available, NewProfile
      <3> QED BY <2>2, <3>1, <3>2 DEF Taken
    <2> QED BY <2>1, <2>2
  <1>4. CASE name # None /\ url = None
    BY <1>2, <1>4 DEF PlanLogin
  <1>5. CASE name = None /\ url # None /\ ProfilesForUrl(c, url) = {}
    <2>1. plan.name = AutoName(c, url)
      BY <1>5 DEF PlanLogin
    <2> QED BY <1>5, <2>1, AutoNameType DEF Nameable
  <1>6. CASE name = None /\ url # None /\ ProfilesForUrl(c, url) # {}
    <2> DEFINE matching == ProfilesForUrl(c, url)
    <2>1. plan = ByUrl(c, url, "flag")
      BY <1>6 DEF PlanLogin
    <2>2. CASE ~\E n \in Name : matching = {n}
      BY <1>6, <2>1, <2>2 DEF ByUrl
    <2>3. CASE \E n \in Name : matching = {n}
      <3>1. PICK n \in Name : n = CHOOSE x \in Name : matching = {x}
        BY <2>3
      <3>2. IsProfile(c, n)
        BY <2>3, <3>1 DEF ProfilesForUrl, Profiles
      <3> QED BY <1>1, <1>6, <2>1, <2>3, <3>1, <3>2 DEF ByUrl
    <2> QED BY <2>2, <2>3
  <1>7. CASE name = None /\ url = None
    <2>1. plan = ByDefault(c)
      BY <1>7 DEF PlanLogin
    <2> QED BY <1>2, <2>1 DEF ByDefault
  <1> QED BY <1>3, <1>4, <1>5, <1>6, <1>7

LEMMA PlanFits ==
    ASSUME IInv, config # None => Below(config, drawn), NEW name, NEW url, NEW cred,
           \/ IsProfile(Loaded, name) /\ url = Loaded.profiles[name].url
           \/ name \in Name /\ ~Taken(Loaded, name),
           cred = IF IsProfile(Loaded, name) THEN Loaded.profiles[name].cred ELSE FreshCredential(Loaded)
    PROVE  Fits(config, name, url, cred) /\ cred <= drawn + 1
  <1>1. drawn \in Nat /\ Loaded \in Config
    BY TypedLoaded DEF IInv, TypeOK
  <1>2. name \in Name
    BY DEF IsProfile
  <1>3. CASE IsProfile(Loaded, name)
    <2>1. Loaded.profiles[name].cred \in Nat
      BY <1>1, <1>3 DEF IsProfile, Config, Profile, Credential
    <2>2. cred <= drawn
      BY <1>1, <1>2, <1>3, LoadedOwns DEF Below
    <2>3. cred <= drawn + 1
      BY <1>1, <1>3, <2>1, <2>2
    <2> QED BY <1>2, <1>3, <2>3, LoadedOwns DEF Fits, Taken
  <1>4. CASE ~IsProfile(Loaded, name)
    <2>1. cred = FreshCredential(Loaded) /\ ~Taken(Loaded, name)
      BY <1>4
    <2>2. cred <= drawn + 1 /\ ~Owned(Loaded, cred)
      BY <2>1, FreshIsFree
    <2>3. ASSUME config = None, name = DefaultName
          PROVE  cred = Legacy
      <3>1. Legacy \notin DOMAIN files
        BY <1>4, <2>3, LoadedOwns
      <3>2. Loaded = Empty /\ Stored(Legacy) = None
        BY <2>3, <3>1 DEF Loaded, Stored
      <3>3. Profiles(Loaded) = {}
        BY <3>2, EmptyConfig DEF Profiles
      <3> QED BY <2>1, <3>2, <3>3 DEF FreshCredential
    <2> QED BY <1>2, <2>1, <2>2, <2>3, LoadedOwns DEF Fits
  <1> QED BY <1>3, <1>4

\* What is handed over, and what is given up for it, is in no file but that of the
\* older builds.
LEMMA AdoptFits ==
    ASSUME IInv, NEW heir \in Heirs(Loaded),
           heir \in ProfilesForUrl(Loaded, files[Legacy].url) \/ ~Taken(Loaded, heir)
    PROVE  /\ config # None
           /\ \A m \in {heir, CHOOSE n \in Owners(Loaded) : TRUE} :
                 IsProfile(config, m) => Gone(files, config.profiles[m].cred)
  <1> DEFINE owner == CHOOSE n \in Owners(Loaded) : TRUE
             url == files[Legacy].url
             candidates == ProfilesForUrl(Loaded, url) \ {owner}
  <1>1. config # None /\ Owners(Loaded) # {} /\ Loaded = config /\ Loaded.profiles[owner].url # url
    BY DEF Heirs, Loaded
  <1>2. owner \in Owners(Loaded)
    BY <1>1
  <1>3. config.profiles[owner].cred = Legacy
    BY <1>1, <1>2 DEF Owners
  <1>4. ASSUME IsProfile(config, heir)
        PROVE  Gone(files, config.profiles[heir].cred)
    <2>1. heir \in candidates
      BY <1>1, <1>4 DEF Taken, ProfilesForUrl
    <2>2. Stored(config.profiles[heir].cred) = None
      BY <1>1, <2>1 DEF Heirs
    <2>3. \A d \in DOMAIN files : files[d] # None
      BY NoneAssumption DEF IInv, TypeOK
    <2> QED BY <2>2, <2>3 DEF Stored, Gone
  <1> QED BY <1>1, <1>3, <1>4 DEF Gone
----------------------------------------------------------------------------
(* One command at a time. *)

LEMMA BelowRises ==
    ASSUME NEW c \in Config, NEW m \in Nat, NEW n \in Nat, m <= n, Below(c, m)
    PROVE  Below(c, n)
  <1>1. \A k \in Name : IsProfile(c, k) => c.profiles[k].cred \in Nat
    BY DEF IsProfile, Config, Profile, Credential
  <1> QED BY <1>1 DEF Below

\* Most steps of a command have nothing to do with owners.
LEMMA SoundAtRest ==
    ASSUME NEW c, NEW fs, NEW n, NEW r, r.pc \in {"idle", "reload", "ask"}
    PROVE  Sound(c, fs, n, r) /\ ~Records(r)
  BY DEF Sound, Small, Uses, Joins, Parts, Ends, Records

\* The command that is at work is the only one.
LEMMA Alone ==
    ASSUME IInv, OwnersInv, ~crowded, NEW p \in Proc
    PROVE  /\ Sound(config, files, drawn, proc[p])
           /\ Active(p) => /\ \A q \in Proc \ {p} : proc[q].pc = "idle"
                           /\ lock # None => InUpdate(p)
                           /\ \A c \in DOMAIN files :
                                 Covered(config, c) \/ (Records(proc[p]) /\ proc[p].change.cred = c)
           /\ (\A q \in Proc : ~Active(q)) => lock = None /\ \A c \in DOMAIN files : Covered(config, c)
           /\ config # None => config \in Config /\ Below(config, drawn)
           /\ drawn \in Nat
  <1>1. Orderly /\ drawn \in Nat /\ config \in Config \cup {None}
    BY DEF OwnersInv, IInv, TypeOK
  <1>2. Sound(config, files, drawn, proc[p])
    BY <1>1 DEF Orderly
  <1>3. ASSUME Active(p)
        PROVE  /\ \A q \in Proc \ {p} : proc[q].pc = "idle"
               /\ lock # None => InUpdate(p)
               /\ \A c \in DOMAIN files :
                     Covered(config, c) \/ (Records(proc[p]) /\ proc[p].change.cred = c)
    <2>1. \A q \in Proc \ {p} : proc[q].pc = "idle"
      BY <1>1, <1>3 DEF Orderly, Active
    <2>2. \A q \in Proc : InUpdate(q) \/ Records(proc[q]) => q = p
      BY <2>1 DEF InUpdate, Records
    <2> QED BY <1>1, <2>1, <2>2 DEF Orderly
  <1>4. ASSUME \A q \in Proc : ~Active(q)
        PROVE  lock = None /\ \A c \in DOMAIN files : Covered(config, c)
    <2>1. \A q \in Proc : ~InUpdate(q) /\ ~Records(proc[q])
      BY <1>4 DEF Active, InUpdate, Records
    <2> QED BY <1>1, <2>1 DEF Orderly
  <1> QED BY <1>1, <1>2, <1>3, <1>4 DEF Orderly

LEMMA OwnersStep ==
    ASSUME IInv, NEW p \in Proc, NEW r, Step(p, r), \A q \in Proc \ {p} : proc[q].pc = "idle",
           lock' # None => r.pc \in {"read", "write", "unlock"},
           config' # None => Below(config', drawn'),
           Sound(config', files', drawn', r),
           \A c \in DOMAIN files' : Covered(config', c) \/ (Records(r) /\ r.change.cred = c)
    PROVE  Orderly'
  <1>1. proc'[p] = r /\ \A q \in Proc \ {p} : proc'[q].pc = "idle"
    BY DEF Step, IInv, TypeOK
  <1>2. \A q, s \in Proc : Active(q)' /\ Active(s)' => q = s
    BY <1>1 DEF Active
  <1>3. lock' # None => \E q \in Proc : InUpdate(q)'
    BY <1>1 DEF InUpdate
  <1>4. \A q \in Proc : Sound(config', files', drawn', proc'[q])
    BY <1>1, SoundAtRest
  <1>5. \A c \in DOMAIN files' : Covered(config', c) \/ \E q \in Proc : Records(proc'[q]) /\ proc'[q].change.cred = c
    BY <1>1
  <1> QED BY <1>2, <1>3, <1>4, <1>5 DEF Orderly

\* The command that is at work, outside an update, goes on and changes no file.
LEMMA OwnersGoOn ==
    ASSUME IInv, OwnersInv, NEW p \in Proc, NEW r, Step(p, r), crowded' = crowded,
           proc[p].pc \notin {"idle", "lock", "read", "write", "unlock"},
           UNCHANGED shared, drawn' \in Nat, drawn <= drawn',
           ~crowded => Sound(config, files, drawn', r)
    PROVE  OwnersInv'
  <1> SUFFICES ASSUME ~crowded'
               PROVE  Orderly'
    BY DEF OwnersInv
  <1>1. Active(p) /\ ~InUpdate(p) /\ ~Records(proc[p])
    BY DEF Active, InUpdate, Records
  <1>2. /\ \A q \in Proc \ {p} : proc[q].pc = "idle"
        /\ lock' = None /\ \A c \in DOMAIN files' : Covered(config', c)
    BY <1>1, Alone DEF shared
  <1>3. config' # None => Below(config', drawn')
    BY Alone, BelowRises DEF shared
  <1> QED BY <1>2, <1>3, OwnersStep DEF shared

LEMMA OwnersBegin ==
    ASSUME IInv, OwnersInv, NEW p \in Proc, NEW cmd \in Command, NEW r \in Process, Begin(p, cmd, r),
           drawn' \in {drawn, drawn + 1}, r.pc \in {"idle", "lock", "take", "signin", "load"},
           ~crowded' => Uses(config, r) /\ Joins(config, files, r) /\ Small(drawn', r),
           ~crowded' => \A q : q.pc = r.pc /\ q.name = r.name /\ q.todo = r.todo /\ q.cmd = cmd
                               /\ q.change = r.change => Parts(config, files, q)
    PROVE  OwnersInv'
  <1> SUFFICES ASSUME ~crowded'
               PROVE  Orderly'
    BY DEF OwnersInv
  <1>1. ~crowded /\ \A q \in Proc : ~Active(q)
    BY DEF Begin
  <1>2. PICK s \in Process :
           /\ Step(p, s) /\ s.pc = r.pc /\ s.name = r.name /\ s.url = r.url /\ s.cred = r.cred
           /\ s.todo = r.todo /\ s.change = r.change /\ (r.pc # "idle" => s.cmd = cmd)
    BY BeginSteps
  <1>3. Uses(config, s) /\ Joins(config, files, s) /\ Small(drawn', s)
    BY <1>2 DEF Uses, Joins, Small
  <1>4. Parts(config, files, s)
    <2>1. CASE r.pc = "idle"
      BY <1>2, <2>1 DEF Parts
    <2>2. CASE r.pc # "idle"
      BY <1>2, <2>2
    <2> QED BY <2>1, <2>2
  <1>5. Ends(config, files, drawn', s)
    BY <1>2 DEF Ends
  <1>6. /\ lock = None /\ \A c \in DOMAIN files : Covered(config, c)
        /\ config # None => config \in Config /\ Below(config, drawn)
        /\ drawn \in Nat
    BY <1>1, Alone
  <1>7. config # None => Below(config, drawn')
    BY <1>6, BelowRises
  <1>8. UNCHANGED shared /\ \A q \in Proc \ {p} : proc[q].pc = "idle"
    BY <1>1 DEF Begin, Active
  <1> QED BY <1>2, <1>3, <1>4, <1>5, <1>6, <1>7, <1>8, OwnersStep DEF Sound, shared

(* Commands begin. *)

LEMMA StartEditOwners ==
    ASSUME IInv, OwnersInv, NEW p \in Proc, NEW cmd \in Command, StartEdit(p, cmd)
    PROVE  OwnersInv'
  <1>1. PICK r \in Process :
           /\ Begin(p, cmd, r) /\ Equipped(r) /\ r.pc = "lock"
           /\ r.cred = Legacy /\ r.change.kind \in {"use", "rename", "forget"}
           /\ r.change.cred = Legacy /\ r.change.other = Legacy
    BY StartEditBegins
  <1>2. drawn' = drawn /\ drawn \in Nat /\ Legacy <= drawn
    BY DEF StartEdit, IInv, TypeOK, Legacy
  <1> QED BY <1>1, <1>2, OwnersBegin DEF Uses, Joins, Small, Parts

LEMMA StartAddOwners ==
    ASSUME IInv, OwnersInv, NEW p \in Proc, NEW cmd \in Command, StartAdd(p, cmd), cmd.url # None
    PROVE  OwnersInv'
  <1>1. PICK r \in Process :
           /\ Begin(p, cmd, r) /\ Equipped(r) /\ r.pc = "lock" /\ r.cred = Legacy
           /\ r.change.kind = "add" /\ r.change.cred = FreshCredential(Loaded)
           /\ r.change.other = Legacy
    BY StartAddBegins
  <1>2. drawn' = drawn + 1 /\ drawn \in Nat /\ Legacy <= drawn'
    BY DEF StartAdd, IInv, TypeOK, Legacy
  <1>3. ASSUME ~crowded'
        PROVE  r.change.cred <= drawn'
    <2>1. ~crowded
      BY <1>1, <1>3 DEF Begin
    <2>2. config # None => Below(config, drawn)
      BY <2>1, Alone
    <2> QED BY <1>1, <1>2, <2>2, FreshIsFree
  <1> QED BY <1>1, <1>2, <1>3, OwnersBegin DEF Uses, Joins, Small, Parts

LEMMA StartRemoveOwners ==
    ASSUME IInv, OwnersInv, NEW p \in Proc, NEW cmd \in Command, StartRemove(p, cmd)
    PROVE  OwnersInv'
  <1>1. PICK r \in Process :
           /\ Begin(p, cmd, r) /\ Equipped(r) /\ Blank(r)
           /\ \/ r.pc = "idle"
              \/ /\ r.pc = "take" /\ IsProfile(Loaded, cmd.name) /\ r.name = cmd.name
                 /\ r.todo = {Loaded.profiles[cmd.name].cred}
    BY StartRemoveBegins
  <1>2. drawn' = drawn
    BY DEF StartRemove
  <1>3. config # None => Loaded = config
    BY LoadedOwns
  <1> QED BY <1>1, <1>2, <1>3, OwnersBegin DEF Uses, Joins, Small, Parts

LEMMA StartLogoutAllOwners ==
    ASSUME IInv, OwnersInv, NEW p \in Proc, NEW cmd \in Command, StartLogoutAll(p, cmd)
    PROVE  OwnersInv'
  <1>1. PICK r \in Process : Begin(p, cmd, r) /\ Equipped(r) /\ r.pc = "take" /\ Blank(r)
    BY StartLogoutAllBegins
  <1>2. drawn' = drawn /\ cmd.op # "remove"
    BY DEF StartLogoutAll
  <1> QED BY <1>1, <1>2, OwnersBegin DEF Uses, Joins, Small, Parts

LEMMA StartLoginOwners ==
    ASSUME IInv, OwnersInv, NEW p \in Proc, NEW cmd \in Command, StartLogin(p, cmd)
    PROVE  OwnersInv'
  <1> DEFINE plan == PlanLogin(Loaded, cmd.name, cmd.url)
  <1>1. PICK r \in Process :
           /\ Begin(p, cmd, r) /\ Equipped(r) /\ r.change = NoChange
           /\ \/ r.pc = "idle" /\ Blank(r)
              \/ /\ r.pc = "signin" /\ plan # Refusal /\ r.name = plan.name /\ r.url = plan.url
                 /\ r.cred = IF IsProfile(Loaded, plan.name) THEN Loaded.profiles[plan.name].cred
                             ELSE FreshCredential(Loaded)
    BY StartLoginBegins
  <1>2. drawn' = drawn + 1
    BY DEF StartLogin
  <1>3. ASSUME ~crowded', r.pc = "signin"
        PROVE  Fits(config, r.name, r.url, r.cred) /\ r.cred <= drawn'
    <2>1. ~crowded
      BY <1>1, <1>3 DEF Begin
    <2>2. config # None => Below(config, drawn)
      BY <2>1, Alone
    <2>3. \/ IsProfile(Loaded, plan.name) /\ plan.url = Loaded.profiles[plan.name].url
          \/ plan.name \in Name /\ ~Taken(Loaded, plan.name)
      <3>1. Loaded \in Config /\ cmd.name \in Name \cup {None} /\ cmd.url \in Url \cup {None}
        BY TypedLoaded DEF Command
      <3>2. cmd.name = None /\ cmd.url # None /\ ProfilesForUrl(Loaded, cmd.url) = {} => Nameable(Loaded, cmd.url)
        BY DEF StartLogin
      <3>3. plan # Refusal
        BY <1>1, <1>3
      <3> QED BY <3>1, <3>2, <3>3, PlanIsClear
    <2> HIDE DEF plan
    <2> QED BY <1>1, <1>2, <1>3, <2>2, <2>3, PlanFits
  <1> HIDE DEF plan
  <1> QED BY <1>1, <1>2, <1>3, OwnersBegin DEF Uses, Joins, Small, Parts

LEMMA StartResolveOwners ==
    ASSUME IInv, OwnersInv, NEW p \in Proc, NEW cmd \in Command, StartResolve(p, cmd)
    PROVE  OwnersInv'
  <1>1. PICK r \in Process :
           /\ Begin(p, cmd, r) /\ Equipped(r)
           /\ \/ Aimed(Loaded, cmd, r)
              \/ LET heir == r.change.name IN
                 /\ r.pc = "lock" /\ r.cred = Legacy /\ r.change.kind = "adopt" /\ drawn' = drawn + 1
                 /\ r.change.cred = Legacy /\ r.change.other = drawn + 1
                 /\ heir \in Heirs(Loaded) /\ r.change.to = CHOOSE n \in Owners(Loaded) : TRUE
                 /\ heir \in ProfilesForUrl(Loaded, files[Legacy].url) \/ ~Taken(Loaded, heir)
    BY StartResolveBegins
  <1>2. drawn' \in {drawn, drawn + 1} /\ drawn \in Nat /\ cmd.op # "remove"
    BY DEF StartResolve, IInv, TypeOK
  <1>3. CASE Aimed(Loaded, cmd, r)
    <2>1. r.pc \in {"idle", "take", "load"}
      BY <1>3 DEF Aimed
    <2>2. r.pc = "load" => Covered(config, r.cred)
      BY <1>3, LoadedOwns DEF Aimed, Owned, Covered
    <2> QED BY <1>1, <1>2, <2>1, <2>2, OwnersBegin DEF Uses, Joins, Small, Parts
  <1>4. CASE LET heir == r.change.name IN
             /\ r.pc = "lock" /\ r.cred = Legacy /\ r.change.kind = "adopt" /\ drawn' = drawn + 1
             /\ r.change.cred = Legacy /\ r.change.other = drawn + 1
             /\ heir \in Heirs(Loaded) /\ r.change.to = CHOOSE n \in Owners(Loaded) : TRUE
             /\ heir \in ProfilesForUrl(Loaded, files[Legacy].url) \/ ~Taken(Loaded, heir)
    <2>1. \A m \in {r.change.name, r.change.to} : IsProfile(config, m) => Gone(files, config.profiles[m].cred)
      BY <1>4, AdoptFits
    <2>2. r.change.cred <= drawn' /\ r.change.other <= drawn'
      BY <1>2, <1>4 DEF Legacy
    <2> QED BY <1>1, <1>2, <1>4, <2>1, <2>2, OwnersBegin DEF Uses, Joins, Small, Parts
  <1> QED BY <1>1, <1>3, <1>4

LEMMA StartOwners ==
    ASSUME IInv, OwnersInv, NEW p \in Proc, NEW cmd \in Menu[scene.menu], Start(p, cmd)
    PROVE  OwnersInv'
  <1>1. cmd \in Command /\ (cmd.op = "add" => cmd.url # None)
    BY TypedCommand
  <1>2. StartAdd(p, cmd) => cmd.op = "add"
    BY DEF StartAdd
  <1> QED BY <1>1, <1>2, StartEditOwners, StartAddOwners, StartRemoveOwners, StartLogoutAllOwners,
             StartLoginOwners, StartResolveOwners DEF Start
----------------------------------------------------------------------------
(* The update. *)

LEMMA ReadyToAct ==
    ASSUME IInv, NEW p \in Proc
    PROVE  proc[p] \in Process /\ Well(proc[p]) /\ Ready(p)
  BY DEF IInv, TypeOK

LEMMA UpdateLockOwners ==
    ASSUME IInv, OwnersInv, NEW p \in Proc, UpdateLock(p)
    PROVE  OwnersInv'
  <1> SUFFICES ASSUME ~crowded'
               PROVE  Orderly'
    BY DEF OwnersInv
  <1> DEFINE r == [proc[p] EXCEPT !.pc = "read"]
  <1>1. /\ ~crowded /\ proc[p].pc = "lock" /\ Active(p)
        /\ UNCHANGED <<config, files, drawn>> /\ Step(p, r)
    BY DEF UpdateLock, At, Active, history
  <1>2. r.pc = "read" /\ r.change = proc[p].change
    BY ReadyToAct DEF Process
  <1> HIDE DEF r
  <1>3. Sound(config, files, drawn, r) /\ (Records(proc[p]) <=> Records(r))
    BY <1>1, <1>2, Alone DEF Sound, Small, Uses, Joins, Parts, Ends, Records
  <1> QED BY <1>1, <1>2, <1>3, Alone, OwnersStep

\* Nobody finds a lock in the way.
LEMMA NoneInTheWay ==
    ASSUME IInv, OwnersInv, NEW p \in Proc, JudgeStale(p) \/ TakeOver(p) \/ GiveUp(p)
    PROVE  OwnersInv'
  <1> SUFFICES ASSUME ~crowded
               PROVE  FALSE
    BY DEF OwnersInv, JudgeStale, TakeOver, GiveUp, history
  <1>1. At(p, "stale") \/ (At(p, "lock") /\ lock # None)
    BY DEF JudgeStale, TakeOver, GiveUp
  <1>2. Sound(config, files, drawn, proc[p]) /\ (Active(p) /\ lock # None => InUpdate(p))
    BY Alone
  <1> QED BY <1>1, <1>2 DEF At, Active, InUpdate, Sound, Ends

LEMMA ReadConfigOwners ==
    ASSUME IInv, OwnersInv, NEW p \in Proc, ReadConfig(p)
    PROVE  OwnersInv'
  <1> SUFFICES ASSUME ~crowded'
               PROVE  Orderly'
    BY DEF OwnersInv
  <1> DEFINE ch == proc[p].change
             next == Apply(Loaded, ch)
             writes == [proc[p] EXCEPT !.pc = "write", !.base = config, !.next = next]
             refuses == [proc[p] EXCEPT !.pc = "unlock", !.outcome = "refused"]
  <1>1. /\ ~crowded /\ proc[p].pc = "read" /\ Active(p) /\ UNCHANGED <<config, files, lock, drawn>>
        /\ IF CanApply(Loaded, ch) /\ Valid(next) THEN Step(p, writes) ELSE Step(p, refuses)
    BY DEF ReadConfig, At, Active, shared, history
  <1>2. /\ ch \in Change /\ Loaded \in Config /\ drawn \in Nat
        /\ ch.kind \in {"add", "record", "adopt"} => ch.url # None
    BY ReadyToAct, TypedLoaded DEF Process, Well, Equipped, IInv, TypeOK
  <1>3. /\ ch.cred <= drawn /\ ch.other <= drawn /\ ch.cred \in Nat /\ ch.other \in Nat
        /\ ch.kind = "record" => /\ Fits(config, ch.name, ch.url, ch.cred)
                                 /\ Written(config, files, ch.url, ch.cred)
        /\ ch.kind \in {"remove", "adopt"} /\ config # None =>
              \A m \in {ch.name, ch.to} : IsProfile(config, m) => Gone(files, config.profiles[m].cred)
    BY <1>1, <1>2, Alone DEF Sound, Small, Joins, Parts, Change, Credential
  <1>4. /\ \A q \in Proc \ {p} : proc[q].pc = "idle"
        /\ config # None => Below(config, drawn)
        /\ \A d \in DOMAIN files : Covered(config, d) \/ (ch.kind = "record" /\ ch.cred = d)
    BY <1>1, Alone DEF Records
  <1>5. CASE CanApply(Loaded, ch) /\ Valid(next)
    <2>1. Step(p, writes) /\ writes.pc = "write" /\ writes.change = ch /\ writes.next = next
      <3>1. Loaded \in Config /\ proc[p] \in Process
        BY <1>2, ReadyToAct
      <3> QED BY <1>1, <1>5, <3>1 DEF Process
    <2>2. Equipped([Idle EXCEPT !.change = ch])
      BY <1>2 DEF Idle, Equipped
    <2>3. /\ \A d : Owned(Loaded, d) =>
                \/ Owned(next, d)
                \/ /\ ch.kind \in {"remove", "adopt"}
                   /\ \E m \in {ch.name, ch.to} : IsProfile(Loaded, m) /\ Loaded.profiles[m].cred = d
          /\ Below(Loaded, drawn) => Below(next, drawn)
      BY <1>2, <1>3, <1>5, <2>2, ApplyOwns
    <2> HIDE DEF writes, next
    <2>4. Below(next, drawn)
      <3>1. CASE config = None
        BY <1>2, <2>3, <3>1, LoadedOwns
      <3>2. CASE config # None
        BY <1>4, <2>3, <3>2, LoadedOwns
      <3> QED BY <3>1, <3>2
    <2>5. ASSUME NEW d \in DOMAIN files
          PROVE  Covered(next, d)
      <3>0. Owned(next, d) => next # None
        <4>1. next \in Config
          BY <1>2, <1>5, TypedLoaded, ApplyKeeps DEF next, IInv
        <4> QED BY <4>1, NoneAssumption
      <3>1. CASE d = Legacy
        BY <3>1 DEF Covered
      <3>2. CASE d # Legacy /\ Covered(config, d)
        <4>1. config # None /\ Owned(config, d) /\ Loaded = config
          BY <3>2, LoadedOwns DEF Covered
        <4>2. Owned(next, d) \/ Gone(files, d)
          BY <1>3, <2>3, <4>1
        <4> QED BY <3>0, <3>2, <4>2 DEF Covered, Gone
      <3>3. CASE d # Legacy /\ ch.kind = "record" /\ ch.cred = d
        <4>1. Owned(Apply(Loaded, ch), ch.cred)
          BY <1>2, <1>3, <3>3, RecordAccepted
        <4> QED BY <3>0, <3>3, <4>1 DEF Covered, next
      <3> QED BY <1>4, <3>1, <3>2, <3>3
    <2>6. Sound(config, files, drawn, writes)
      BY <2>1, <2>4, <2>5 DEF Sound, Small, Uses, Joins, Parts, Ends
    <2>7. Records(writes) <=> ch.kind = "record"
      BY <2>1 DEF Records
    <2> QED BY <1>1, <1>4, <2>1, <2>6, <2>7, OwnersStep
  <1>6. CASE ~(CanApply(Loaded, ch) /\ Valid(next))
    <2>1. Step(p, refuses) /\ refuses.pc = "unlock" /\ refuses.change = ch
      BY <1>1, <1>6, ReadyToAct DEF Process
    <2>2. ch.kind = "record" => config = None /\ ch.name # DefaultName /\ ch.cred = Legacy
      BY <1>2, <1>3, <1>6, RecordAccepted
    <2> HIDE DEF refuses, next
    <2>3. Sound(config, files, drawn, refuses)
      BY <2>1, <2>2 DEF Sound, Small, Uses, Joins, Parts, Ends
    <2>4. \A d \in DOMAIN files : Covered(config, d)
      BY <1>4, <2>2 DEF Covered
    <2> QED BY <1>1, <1>4, <2>1, <2>3, <2>4, OwnersStep
  <1> QED BY <1>5, <1>6

LEMMA WriteConfigOwners ==
    ASSUME IInv, OwnersInv, NEW p \in Proc, WriteConfig(p)
    PROVE  OwnersInv'
  <1> SUFFICES ASSUME ~crowded'
               PROVE  Orderly'
    BY DEF OwnersInv
  <1> DEFINE r == [proc[p] EXCEPT !.pc = "unlock", !.outcome = "done"]
  <1>1. /\ ~crowded /\ proc[p].pc = "write" /\ Active(p) /\ UNCHANGED <<files, lock, drawn>>
        /\ config' = proc[p].next /\ Step(p, r)
    BY DEF WriteConfig, At, Active
  <1>2. r.pc = "unlock" /\ r.outcome = "done"
    BY ReadyToAct DEF Process
  <1> HIDE DEF r
  <1>3. (\A d \in DOMAIN files : Covered(proc[p].next, d)) /\ Below(proc[p].next, drawn)
    BY <1>1, Alone DEF Sound, Ends
  <1>4. Sound(config', files', drawn', r)
    BY <1>2 DEF Sound, Small, Uses, Joins, Parts, Ends
  <1> QED BY <1>1, <1>2, <1>3, <1>4, Alone, OwnersStep

LEMMA UnlockOwners ==
    ASSUME IInv, OwnersInv, NEW p \in Proc, Unlock(p)
    PROVE  OwnersInv'
  <1> SUFFICES ASSUME ~crowded'
               PROVE  Orderly'
    BY DEF OwnersInv
  <1>1. /\ ~crowded /\ proc[p].pc = "unlock" /\ Active(p) /\ lock' = None
        /\ UNCHANGED <<config, files, drawn>>
    BY DEF Unlock, At, Active, history
  <1>2. PICK r : Step(p, r) /\ r.pc \in {"idle", "reload"}
    <2> DEFINE reloads == [Idle EXCEPT !.pc = "reload", !.cmd = proc[p].cmd]
    <2>1. Step(p, reloads) \/ \E outcome : Step(p, Ended(outcome))
      BY DEF Unlock
    <2>2. reloads.pc = "reload" /\ \A outcome : Ended(outcome).pc = "idle"
      BY DEF Idle, Ended
    <2> HIDE DEF reloads
    <2> QED BY <2>1, <2>2
  <1>3. ~Records(proc[p]) /\ Sound(config, files, drawn, r)
    BY <1>1, <1>2, SoundAtRest DEF Records
  <1> QED BY <1>1, <1>2, <1>3, Alone, OwnersStep

(* Sessions. *)

LEMMA ReloadOwners ==
    ASSUME IInv, OwnersInv, NEW p \in Proc, Reload(p)
    PROVE  OwnersInv'
  <1> DEFINE r == TargetOf(Loaded, proc[p].cmd)
             s == [r EXCEPT !.cmd = proc[p].cmd]
  <1>1. /\ crowded' = crowded /\ proc[p].pc = "reload" /\ UNCHANGED shared /\ drawn' = drawn
        /\ Step(p, IF r.pc = "idle" THEN r ELSE s)
    BY DEF Reload, At, history
  <1>2. proc[p].cmd \in Command /\ drawn \in Nat
    BY DEF IInv, TypeOK, Process, Well, Reload, At
  <1>3. r \in Process /\ Aimed(Loaded, proc[p].cmd, r)
    BY <1>2, TypedLoaded, TargetType
  <1>4. s.pc = r.pc /\ s.cred = r.cred /\ s.cmd = proc[p].cmd
    <2> HIDE DEF r
    <2> QED BY <1>3 DEF Process
  <1> HIDE DEF r, s
  <1>5. r.pc \in {"idle", "take", "load"} /\ (r.pc = "take" => proc[p].cmd.op # "remove")
    BY <1>3 DEF Aimed
  <1>6. r.pc = "load" => Covered(config, r.cred)
    BY <1>3, LoadedOwns DEF Aimed, Owned, Covered
  <1>7. PICK t : Step(p, t) /\ Sound(config, files, drawn, t)
    <2>1. CASE r.pc = "idle"
      BY <1>1, <2>1, SoundAtRest
    <2>2. CASE r.pc # "idle"
      <3>1. Sound(config, files, drawn, s)
        BY <1>4, <1>5, <1>6, <2>2 DEF Sound, Small, Uses, Joins, Parts, Ends
      <3> QED BY <1>1, <2>2, <3>1
    <2> QED BY <2>1, <2>2
  <1> QED BY <1>1, <1>2, <1>7, OwnersGoOn

LEMMA LoadSessionOwners ==
    ASSUME IInv, OwnersInv, NEW p \in Proc, LoadSession(p)
    PROVE  OwnersInv'
  <1>1. /\ crowded' = crowded /\ proc[p].pc = "load" /\ UNCHANGED shared /\ drawn' = drawn /\ drawn \in Nat
    BY DEF LoadSession, At, history, IInv, TypeOK
  <1> DEFINE takes(pc, s) == [proc[p] EXCEPT !.pc = pc, !.session = s]
  <1>2. Step(p, Ended("refused")) \/ \E pc \in {"refresh", "ask"} : \E s : Step(p, takes(pc, s))
    BY DEF LoadSession
  <1>3. \A pc, s : takes(pc, s).pc = pc /\ takes(pc, s).cred = proc[p].cred
    BY ReadyToAct DEF Process
  <1> HIDE DEF takes
  <1>4. ASSUME NEW r, Step(p, r), r.pc \in {"idle", "ask"} \/ (r.pc = "refresh" /\ r.cred = proc[p].cred)
        PROVE  OwnersInv'
    <2>1. ~crowded => Sound(config, files, drawn, r)
      BY <1>1, <1>4, Alone, SoundAtRest DEF Sound, Small, Uses, Joins, Parts, Ends
    <2> QED BY <1>1, <1>4, <2>1, OwnersGoOn
  <1>5. Ended("refused").pc = "idle"
    BY DEF Ended, Idle
  <1> QED BY <1>2, <1>3, <1>4, <1>5

LEMMA EndedOwners ==
    ASSUME IInv, OwnersInv, NEW p \in Proc, NEW outcome, Step(p, Ended(outcome)), crowded' = crowded,
           proc[p].pc \notin {"idle", "lock", "read", "write", "unlock"},
           UNCHANGED shared, drawn' \in Nat, drawn <= drawn'
    PROVE  OwnersInv'
  <1>1. Ended(outcome).pc = "idle"
    BY DEF Ended, Idle
  <1> QED BY <1>1, SoundAtRest, OwnersGoOn

LEMMA RefreshOwners ==
    ASSUME IInv, OwnersInv, NEW p \in Proc, Refresh(p) \/ LoseRenewal(p)
    PROVE  OwnersInv'
  <1>1. /\ crowded' = crowded /\ proc[p].pc = "refresh" /\ UNCHANGED shared /\ drawn \in Nat
        /\ drawn' \in {drawn, drawn + 1}
    BY DEF Refresh, LoseRenewal, At, history, IInv, TypeOK
  <1>2. drawn' \in Nat /\ drawn <= drawn'
    BY <1>1
  <1> DEFINE renewed == [proc[p].session EXCEPT !.token = drawn + 1]
             r == [proc[p] EXCEPT !.pc = "save", !.session = renewed]
  <1>3. Step(p, r) \/ Step(p, Ended("refused"))
    BY DEF Refresh, LoseRenewal
  <1>4. r.pc = "save" /\ r.cred = proc[p].cred
    BY ReadyToAct DEF Process
  <1> HIDE DEF r
  <1>5. ~crowded => Sound(config, files, drawn', r)
    BY <1>1, <1>4, Alone DEF Sound, Small, Uses, Joins, Parts, Ends
  <1>6. CASE Step(p, r)
    BY <1>1, <1>2, <1>5, <1>6, OwnersGoOn
  <1>7. CASE Step(p, Ended("refused"))
    BY <1>1, <1>2, <1>7, EndedOwners
  <1> QED BY <1>3, <1>6, <1>7

LEMMA SaveRenewedOwners ==
    ASSUME IInv, OwnersInv, NEW p \in Proc, SaveRenewed(p)
    PROVE  OwnersInv'
  <1> SUFFICES ASSUME ~crowded'
               PROVE  Orderly'
    BY DEF OwnersInv
  <1> DEFINE r == [proc[p] EXCEPT !.pc = "ask"]
  <1>1. /\ ~crowded /\ proc[p].pc = "save" /\ Active(p) /\ Step(p, r) /\ UNCHANGED <<config, lock, drawn>>
        /\ DOMAIN files' = DOMAIN files \cup {proc[p].cred}
    BY DEF SaveRenewed, At, Active, Save, history
  <1>2. r.pc = "ask"
    BY ReadyToAct DEF Process
  <1> HIDE DEF r
  <1>3. Covered(config, proc[p].cred)
    BY <1>1, Alone DEF Sound, Uses
  <1>4. ~InUpdate(p) /\ ~Records(proc[p])
    BY <1>1 DEF InUpdate, Records
  <1> QED BY <1>1, <1>2, <1>3, <1>4, Alone, SoundAtRest, OwnersStep

LEMMA VerifyOwners ==
    ASSUME IInv, OwnersInv, NEW p \in Proc, Verify(p)
    PROVE  OwnersInv'
  <1>1. /\ crowded' = crowded /\ proc[p].pc = "ask" /\ UNCHANGED shared /\ drawn' = drawn /\ drawn \in Nat
    BY DEF Verify, At, history, IInv, TypeOK
  <1> DEFINE reported == deployed[proc[p].url]
             ch == [NoChange EXCEPT !.kind = "pin", !.name = proc[p].name, !.url = proc[p].url,
                                    !.inst = reported]
             r == ToLock([Idle EXCEPT !.cmd = proc[p].cmd], ch)
  <1>2. Step(p, r) \/ \E outcome : Step(p, Ended(outcome))
    BY DEF Verify
  <1>3. ch.kind = "pin" /\ ch.cred = Legacy /\ ch.other = Legacy
    BY DEF NoChange
  <1> HIDE DEF ch
  <1>4. r.pc = "lock" /\ r.change = ch
    BY DEF ToLock, Idle
  <1> HIDE DEF r
  <1>5. Sound(config, files, drawn, r)
    BY <1>1, <1>3, <1>4 DEF Sound, Small, Uses, Joins, Parts, Ends, Legacy
  <1> QED BY <1>1, <1>2, <1>5, OwnersGoOn, EndedOwners

LEMMA SignInOwners ==
    ASSUME IInv, OwnersInv, NEW p \in Proc, SignIn(p)
    PROVE  OwnersInv'
  <1>1. /\ crowded' = crowded /\ proc[p].pc = "signin" /\ UNCHANGED shared /\ drawn' = drawn + 1 /\ drawn \in Nat
    BY DEF SignIn, At, history, IInv, TypeOK
  <1>2. drawn' \in Nat /\ drawn <= drawn'
    BY <1>1
  <1> DEFINE session == [url |-> proc[p].url, token |-> drawn + 1]
             enters(pin) == [proc[p] EXCEPT !.pc = "store", !.pin = pin, !.session = session]
  <1>3. Step(p, Ended("refused")) \/ \E pin : Step(p, enters(pin))
    BY DEF SignIn
  <1>4. \A pin : /\ enters(pin).pc = "store" /\ enters(pin).session = session
                 /\ enters(pin).cred = proc[p].cred /\ enters(pin).name = proc[p].name
                 /\ enters(pin).url = proc[p].url
    BY ReadyToAct DEF Process
  <1>5. session.url = proc[p].url
    OBVIOUS
  <1> HIDE DEF enters, session
  <1>6. ASSUME NEW pin, Step(p, enters(pin))
        PROVE  OwnersInv'
    <2>1. ~crowded => Fits(config, proc[p].name, proc[p].url, proc[p].cred) /\ proc[p].cred <= drawn
      BY <1>1, Alone DEF Sound, Small, Joins
    <2>2. ~crowded => proc[p].cred <= drawn'
      <3>1. proc[p].cred \in Nat
        BY ReadyToAct DEF Process, Credential
      <3> QED BY <1>1, <2>1, <3>1
    <2>3. ~crowded => Sound(config, files, drawn', enters(pin))
      BY <1>4, <1>5, <2>1, <2>2 DEF Sound, Small, Uses, Joins, Parts, Ends
    <2> QED BY <1>1, <1>2, <1>6, <2>3, OwnersGoOn
  <1> QED BY <1>1, <1>2, <1>3, <1>6, EndedOwners

LEMMA StoreSessionOwners ==
    ASSUME IInv, OwnersInv, NEW p \in Proc, StoreSession(p)
    PROVE  OwnersInv'
  <1> SUFFICES ASSUME ~crowded'
               PROVE  Orderly'
    BY DEF OwnersInv
  <1> DEFINE ch == [NoChange EXCEPT !.kind = "record", !.name = proc[p].name, !.url = proc[p].url,
                                    !.cred = proc[p].cred, !.inst = proc[p].pin]
             r == ToLock([Idle EXCEPT !.cmd = proc[p].cmd], ch)
  <1>1. /\ ~crowded /\ proc[p].pc = "store" /\ Active(p) /\ Step(p, r) /\ UNCHANGED <<config, lock, drawn>>
        /\ DOMAIN files' = DOMAIN files \cup {proc[p].cred} /\ files'[proc[p].cred] = proc[p].session
    BY DEF StoreSession, At, Active, Save, history
  <1>2. /\ ch.kind = "record" /\ ch.name = proc[p].name /\ ch.url = proc[p].url
        /\ ch.cred = proc[p].cred /\ ch.other = Legacy
    BY DEF NoChange
  <1> HIDE DEF ch
  <1>3. r.pc = "lock" /\ r.change = ch
    BY DEF ToLock, Idle
  <1> HIDE DEF r
  <1>4. /\ Fits(config, proc[p].name, proc[p].url, proc[p].cred)
        /\ proc[p].cred <= drawn /\ proc[p].session.url = proc[p].url /\ Legacy <= drawn
    BY <1>1, Alone DEF Sound, Small, Joins, Legacy
  <1>5. Written(config, files', proc[p].url, proc[p].cred)
    BY <1>1, <1>4 DEF Written
  <1>6. Sound(config', files', drawn', r) /\ Records(r)
    BY <1>1, <1>2, <1>3, <1>4, <1>5 DEF Sound, Small, Uses, Joins, Parts, Ends, Records
  <1>7. ~InUpdate(p) /\ ~Records(proc[p])
    BY <1>1 DEF InUpdate, Records
  <1> QED BY <1>1, <1>2, <1>3, <1>6, <1>7, Alone, OwnersStep

LEMMA TakeSessionOwners ==
    ASSUME IInv, OwnersInv, NEW p \in Proc, TakeSession(p)
    PROVE  OwnersInv'
  <1>1. /\ crowded' = crowded /\ proc[p].pc = "take" /\ UNCHANGED shared /\ drawn' = drawn /\ drawn \in Nat
    BY DEF TakeSession, At, history, IInv, TypeOK
  <1> DEFINE takes(pc, c, s) == [proc[p] EXCEPT !.pc = pc, !.cred = c, !.session = s]
  <1>2. PICK pc \in {"revoke", "clear"}, c \in proc[p].todo, s \in {Stored(d) : d \in proc[p].todo} \cup {None} :
           Step(p, takes(pc, c, s))
    <2>1. PICK c \in proc[p].todo : \E ours \in BOOLEAN : Step(p, takes(IF ours THEN "revoke" ELSE "clear", c, IF ours THEN Stored(c) ELSE None))
      BY DEF TakeSession
    <2>2. PICK ours \in BOOLEAN : Step(p, takes(IF ours THEN "revoke" ELSE "clear", c, IF ours THEN Stored(c) ELSE None))
      BY <2>1
    <2> HIDE DEF takes
    <2> QED BY <2>2
  <1>3. takes(pc, c, s).pc = pc /\ takes(pc, c, s).cred = c /\ takes(pc, c, s).cmd = proc[p].cmd
        /\ takes(pc, c, s).name = proc[p].name
    BY ReadyToAct DEF Process
  <1> DEFINE r == takes(pc, c, s)
  <1>4. Step(p, r) /\ r.pc = pc /\ r.cred = c /\ r.cmd = proc[p].cmd /\ r.name = proc[p].name
    BY <1>2, <1>3
  <1> HIDE DEF r, takes
  <1>5. ~crowded => Sound(config, files, drawn, r)
    <2>1. ~crowded => Parts(config, files, proc[p])
      BY Alone DEF Sound
    <2> QED BY <1>1, <1>2, <1>4, <2>1 DEF Sound, Small, Uses, Joins, Parts, Ends
  <1> QED BY <1>1, <1>4, <1>5, OwnersGoOn

LEMMA RevokeOwners ==
    ASSUME IInv, OwnersInv, NEW p \in Proc, Revoke(p)
    PROVE  OwnersInv'
  <1>1. /\ crowded' = crowded /\ proc[p].pc = "revoke" /\ UNCHANGED shared /\ drawn' = drawn /\ drawn \in Nat
    BY DEF Revoke, At, history, IInv, TypeOK
  <1> DEFINE r == [proc[p] EXCEPT !.pc = "clear"]
  <1>2. Step(p, r)
    BY DEF Revoke
  <1>3. r.pc = "clear" /\ r.cred = proc[p].cred /\ r.cmd = proc[p].cmd /\ r.name = proc[p].name
    BY ReadyToAct DEF Process
  <1> HIDE DEF r
  <1>4. ~crowded => Sound(config, files, drawn, r)
    BY <1>1, <1>3, Alone DEF Sound, Small, Uses, Joins, Parts, Ends
  <1> QED BY <1>1, <1>2, <1>4, OwnersGoOn

LEMMA ClearSessionOwners ==
    ASSUME IInv, OwnersInv, NEW p \in Proc, ClearSession(p)
    PROVE  OwnersInv'
  <1> SUFFICES ASSUME ~crowded'
               PROVE  Orderly'
    BY DEF OwnersInv
  <1> DEFINE rest == proc[p].todo \ {proc[p].cred}
             ch == [NoChange EXCEPT !.kind = "remove", !.name = proc[p].name]
             removes == ToLock([Idle EXCEPT !.cmd = proc[p].cmd], ch)
             repeats == [proc[p] EXCEPT !.pc = "take", !.todo = rest, !.cred = Legacy, !.session = None]
  <1>1. /\ ~crowded /\ proc[p].pc = "clear" /\ Active(p) /\ UNCHANGED <<config, lock, drawn>>
        /\ DOMAIN files' = DOMAIN files \ {proc[p].cred} /\ drawn \in Nat
    BY DEF ClearSession, At, Active, Clear, history, IInv, TypeOK
  <1>2. \/ proc[p].cmd.op = "remove" /\ Step(p, removes)
        \/ Step(p, Ended("done"))
        \/ proc[p].cmd.op # "remove" /\ Step(p, repeats)
    BY DEF ClearSession
  <1>3. ch.kind = "remove" /\ ch.name = proc[p].name /\ ch.to = None /\ ch.cred = Legacy /\ ch.other = Legacy
    BY DEF NoChange
  <1> HIDE DEF ch
  <1>4. removes.pc = "lock" /\ removes.change = ch /\ repeats.pc = "take" /\ repeats.cmd = proc[p].cmd
    BY ReadyToAct DEF ToLock, Idle, Process
  <1> HIDE DEF removes, repeats
  <1>5. ~InUpdate(p) /\ ~Records(proc[p])
    BY <1>1 DEF InUpdate, Records
  <1>6. ASSUME NEW r, Step(p, r), Sound(config, files', drawn, r)
        PROVE  Orderly'
    BY <1>1, <1>5, <1>6, Alone, OwnersStep
  <1>7. CASE proc[p].cmd.op = "remove" /\ Step(p, removes)
    <2>1. config # None /\ IsProfile(config, proc[p].name) => Gone(files', config.profiles[proc[p].name].cred)
      BY <1>1, <1>7, Alone DEF Sound, Parts, Gone
    <2>2. ~IsProfile(config, None)
      BY ConfigAssumption DEF IsProfile
    <2>3. Sound(config, files', drawn, removes)
      BY <1>1, <1>3, <1>4, <2>1, <2>2 DEF Sound, Small, Uses, Joins, Parts, Ends, Legacy
    <2> QED BY <1>6, <1>7, <2>3
  <1>8. CASE Step(p, Ended("done"))
    <2>1. Ended("done").pc = "idle"
      BY DEF Ended, Idle
    <2> QED BY <1>6, <1>8, <2>1, SoundAtRest
  <1>9. CASE proc[p].cmd.op # "remove" /\ Step(p, repeats)
    <2>1. Sound(config, files', drawn, repeats)
      BY <1>4, <1>9 DEF Sound, Small, Uses, Joins, Parts, Ends
    <2> QED BY <1>6, <1>9, <2>1
  <1> QED BY <1>2, <1>7, <1>8, <1>9

(* The rest of the world. *)

LEMMA OlderBuildOwners ==
    ASSUME IInv, OwnersInv, NEW u \in Url, OlderBuildSignsIn(u)
    PROVE  OwnersInv'
  <1> SUFFICES ASSUME ~crowded'
               PROVE  Orderly'
    BY DEF OwnersInv
  <1>1. /\ ~crowded /\ (\A q \in Proc : ~Active(q)) /\ UNCHANGED <<config, lock, proc>>
        /\ drawn' = drawn + 1 /\ DOMAIN files' = DOMAIN files \cup {Legacy}
    BY DEF OlderBuildSignsIn, Save
  <1>2. Orderly /\ drawn \in Nat /\ config \in Config \cup {None}
    BY <1>1 DEF OwnersInv, IInv, TypeOK
  <1>3. /\ \A q \in Proc : proc'[q].pc = "idle"
        /\ \A q, s \in Proc : Active(q)' /\ Active(s)' => q = s
    BY <1>1 DEF Active
  <1>4. lock' = None /\ \A c \in DOMAIN files' : Covered(config', c)
    <2>1. lock = None /\ \A c \in DOMAIN files : Covered(config, c)
      BY <1>1, <1>2 DEF Orderly, Active, InUpdate, Records
    <2> QED BY <1>1, <2>1 DEF Covered
  <1>5. config' # None => Below(config', drawn')
    BY <1>1, <1>2, BelowRises DEF Orderly
  <1>6. \A q \in Proc : Sound(config', files', drawn', proc'[q])
    BY <1>3, SoundAtRest
  <1> QED BY <1>3, <1>4, <1>5, <1>6 DEF Orderly

LEMMA OwnersInit == Init => OwnersInv
  <1> SUFFICES ASSUME Init
               PROVE  Orderly
    BY DEF OwnersInv
  <1>1. \A q \in Proc : proc[q].pc = "idle"
    BY DEF Init, Idle
  <1>2. config = None /\ lock = None /\ DOMAIN files \subseteq {Legacy}
    BY DEF Init
  <1> QED BY <1>1, <1>2, SoundAtRest DEF Orderly, Active, Covered

LEMMA OwnersNext == IInv /\ OwnersInv /\ [Next]_vars => OwnersInv'
  <1> SUFFICES ASSUME IInv, OwnersInv, [Next]_vars
               PROVE  OwnersInv'
    OBVIOUS
  <1>1. ASSUME NEW p \in Proc, NEW cmd \in Menu[scene.menu], Start(p, cmd)
        PROVE  OwnersInv'
    BY <1>1, StartOwners
  <1>2. ASSUME NEW p \in Proc, Act(p)
        PROVE  OwnersInv'
    <2>1. Die(p) => OwnersInv'
      BY DEF Die, OwnersInv
    <2> QED BY <1>2, <2>1, UpdateLockOwners, NoneInTheWay, ReadConfigOwners, WriteConfigOwners, UnlockOwners,
               ReloadOwners, LoadSessionOwners, RefreshOwners, SaveRenewedOwners, VerifyOwners,
               SignInOwners, StoreSessionOwners, TakeSessionOwners, RevokeOwners, ClearSessionOwners DEF Act
  <1>3. CASE AgeLock
    <2>1. /\ UNCHANGED <<config, files, drawn, proc, crowded>> /\ lock # None
      BY <1>3 DEF AgeLock
    <2>2. OwnersInv' = (~crowded => Orderly')
      BY <2>1 DEF OwnersInv
    <2>3. Orderly => Orderly'
      BY <2>1 DEF Orderly, Active, InUpdate
    <2> QED BY <2>2, <2>3 DEF OwnersInv
  <1>4. ASSUME NEW u \in Url, OlderBuildSignsIn(u)
        PROVE  OwnersInv'
    BY <1>4, OlderBuildOwners
  <1>5. CASE UNCHANGED <<config, lock, files, drawn, proc, crowded>>
    BY <1>5 DEF OwnersInv, Orderly, Active, InUpdate
  <1>6. \A u, i : Redeploy(u, i) => UNCHANGED <<config, lock, files, drawn, proc, crowded>>
    BY DEF Redeploy, shared, history
  <1>7. UNCHANGED vars => UNCHANGED <<config, lock, files, drawn, proc, crowded>>
    BY DEF vars
  <1> QED BY <1>1, <1>2, <1>3, <1>4, <1>5, <1>6, <1>7 DEF Next

LEMMA OwnersMean == IInv /\ OwnersInv => NoSessionIsLost /\ RefusedOnlyOnAFreshMachine
  <1> SUFFICES ASSUME IInv, OwnersInv
               PROVE  NoSessionIsLost /\ RefusedOnlyOnAFreshMachine
    OBVIOUS
  <1>1. ASSUME ~crowded, \A p \in Proc : ~Active(p), NEW c \in DOMAIN files, c # Legacy
        PROVE  \E n \in Profiles(Loaded) : Loaded.profiles[n].cred = c
    <2>1. Covered(config, c)
      BY <1>1 DEF OwnersInv, Orderly, Active, Records
    <2>2. Owned(Loaded, c)
      BY <1>1, <2>1, LoadedOwns DEF Covered
    <2> QED BY <2>2 DEF Owned, Profiles
  <1>2. RefusedOnlyOnAFreshMachine
    BY Alone DEF RefusedOnlyOnAFreshMachine, Sound, Ends, At
  <1> QED BY <1>1, <1>2 DEF NoSessionIsLost

\* A session that is stored is one that its server honours; one that is left is
\* somebody's; and what a login has saved is recorded, but on a fresh machine:
\* every command that has the machine to itself leaves the files and config.toml
\* in agreement (session.rs:114-124, auth.rs:300-310, auth.rs:459-469).
THEOREM SessionsStayKept == Spec => []SessionsAreKept
  <1>1. IInv /\ OwnersInv /\ StoredSessionsAreLive => SessionsAreKept
    BY OwnersMean DEF SessionsAreKept
  <1> QED BY <1>1, StoredSessionsStayLive, OwnersInit, OwnersNext, ProfilesInvariant, PTL DEF Spec
=============================================================================
