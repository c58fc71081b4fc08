-------------------------------- MODULE Prk --------------------------------
(***************************************************************************)
(* prk on one machine: commands in several terminals, each a process, that *)
(* share config.toml, its lock file and the credential files.              *)
(*                                                                         *)
(* config.toml is changed by read, change and write under an advisory lock *)
(* file, which a process that has waited long enough takes over.  The      *)
(* credential files are under no lock: a command loads a session, speaks   *)
(* to a server, and then saves or clears the file.  An older build that    *)
(* knows no profiles signs in over the one credential file it knows.       *)
(*                                                                         *)
(* A step is one access to a shared file or one answer of a server.  A     *)
(* command reads what it can without interruption: config.toml and, where  *)
(* there is none, the legacy file.  A session is its server and the number *)
(* of its refresh token; each sign-in and each renewal draws a new one,    *)
(* and a renewal spends the old.  Left out: service tokens, which touch no *)
(* file; the roaming copy of the legacy file on Windows; `profile set`,    *)
(* which changes nothing that is modelled; and the order of waiting.       *)
(***************************************************************************)
EXTENDS ProfileConfig, FiniteSets

CONSTANTS
    Proc,         \* terminals
    Menu,         \* the commands that may be typed in each of several scenes
    Scenes,       \* the bounds that go with each scene
    FirstDeployed \* the instance behind each URL to begin with

Command ==
    [op: {"run", "login", "logout", "logoutAll", "use", "add", "rename", "forget", "remove"},
     name: Name \cup {None}, url: Url \cup {None}, to: Name \cup {None},
     force: BOOLEAN,              \* --default and --reuse-name; for run, that it writes
     project: Project \cup {None}]

Session == [url: Url, token: Nat]
Lock == [by: Proc, old: BOOLEAN]

\* A menu, and the bounds: in how many terminals at a time commands are typed and
\* how many in all, the processes that die and answers that are lost, and the
\* events outside prk: sign-ins by an older build and redeployments.
Scene == [menu: DOMAIN Menu, terminals: Nat, commands: Nat, faults: Nat, outside: Nat]

ASSUME ScenesAssumption ==
    /\ \A m \in DOMAIN Menu : \A cmd \in Menu[m] :
          /\ cmd \in Command
          /\ cmd.op \in {"use", "forget", "rename", "add", "remove"} => cmd.name # None
          /\ cmd.op = "add" => cmd.url # None
          /\ cmd.op = "rename" => cmd.to # None
    /\ Scenes \subseteq Scene
ASSUME NoneAssumption == None \notin Config \cup Command \cup Session \cup Lock \cup Project
ASSUME DeployedAssumption == FirstDeployed \in [Url -> Instance]

VARIABLES
    config,    \* config.toml, or None
    lock,      \* config.toml.lock: who made it and whether it is old, or None
    files,     \* the credential files that exist, each with its session
    live,      \* refresh tokens that the servers still honour
    deployed,  \* the instance behind each URL
    proc,      \* what each process holds in memory
    drawn,     \* tokens and credential ids drawn so far
    scene,     \* what is left of the scene
    calm,      \* nothing has died and no answer was lost
    trouble,   \* a lock grew old under its holder, or two processes found one old
    crowded,   \* two commands have overlapped, or one has died
    meant      \* the instance a name was first pinned to since it was free

shared == <<config, lock, files>>
history == <<calm, trouble, crowded, meant>>
vars == <<config, lock, files, live, deployed, proc, drawn, scene, calm, trouble, crowded, meant>>
----------------------------------------------------------------------------
(* Processes. *)

\* A change that an update makes to the configuration it finds.
Change ==
    [kind: {"none", "use", "add", "rename", "forget", "remove", "record", "adopt", "pin"},
     name: Name \cup {None}, to: Name \cup {None},
     url: Url \cup {None}, cred: Credential, other: Credential,
     inst: Instance \cup {None}, force: BOOLEAN, default: BOOLEAN]

NoChange ==
    [kind |-> "none", name |-> None, to |-> None, url |-> None, cred |-> Legacy, other |-> Legacy,
     inst |-> None, force |-> FALSE, default |-> FALSE]

Process ==
    [pc: {"idle", "reload", "load", "refresh", "save", "ask", "signin", "store",
          "take", "revoke", "clear", "lock", "stale", "read", "write", "unlock"},
     cmd: Command \cup {None},
     name: Name \cup {None},          \* the profile of its target
     url: Url \cup {None},            \* and its server
     pin: Instance \cup {None},       \* and the pin of that profile
     cred: Credential,                \* the credential file it works on
     todo: SUBSET Credential,         \* those a logout has still to clear
     session: Session \cup {None},    \* the session it has loaded or got
     change: Change,
     base: Config \cup {None},        \* what its update has read, if there was anything
     next: Config \cup {None},        \* and will write, if it was not refused
     outcome: {"none", "done", "refused"}]

Idle ==
    [pc |-> "idle", cmd |-> None, name |-> None, url |-> None, pin |-> None,
     cred |-> Legacy, todo |-> {}, session |-> None, change |-> NoChange,
     base |-> None, next |-> None, outcome |-> "none"]

At(p, pc) == proc[p].pc = pc
Ended(outcome) == [Idle EXCEPT !.outcome = outcome]
Active(p) == proc[p].pc # "idle"
InUpdate(p) == proc[p].pc \in {"read", "write", "unlock"}

Fault ==
    /\ scene.faults > 0
    /\ scene' = [scene EXCEPT !.faults = @ - 1]
    /\ calm' = FALSE

Step(p, r) == proc' = [proc EXCEPT ![p] = r]

Init ==
    /\ config = None
    /\ lock = None
    /\ \E u \in Url \cup {None} :
          files = [c \in IF u = None THEN {} ELSE {Legacy} |-> [url |-> u, token |-> 1]]
    /\ live = {1}
    /\ deployed = FirstDeployed
    /\ proc = [p \in Proc |-> Idle]
    /\ drawn = 1
    /\ scene \in Scenes
    /\ calm = TRUE
    /\ trouble = FALSE
    /\ crowded = FALSE
    /\ meant = [n \in Name |-> None]
----------------------------------------------------------------------------
(* The files. *)

Stored(c) == IF c \in DOMAIN files THEN files[c] ELSE None
Save(c, s) == files' = [d \in DOMAIN files \cup {c} |-> IF d = c THEN s ELSE files[d]]
Clear(c) == files' = [d \in DOMAIN files \ {c} |-> files[d]]

\* ProfileStore::load
Loaded ==
    IF config # None THEN config
    ELSE IF Stored(Legacy) # None THEN FromLegacy(files[Legacy].url)
    ELSE Empty

FreshCredential(c) ==
    IF (\E n \in Profiles(c) : c.profiles[n].cred = Legacy) \/ Stored(Legacy) # None
    THEN drawn + 1 ELSE Legacy
----------------------------------------------------------------------------
(* Commands begin. *)

Begin(p, cmd, r) ==
    /\ ~Active(p)
    /\ scene.commands > 0 /\ Cardinality({q \in Proc : Active(q)}) < scene.terminals
    /\ scene' = [scene EXCEPT !.commands = @ - 1]
    /\ Step(p, IF r.pc = "idle" THEN r ELSE [r EXCEPT !.cmd = cmd])
    /\ crowded' = (crowded \/ \E q \in Proc : Active(q))
    /\ UNCHANGED <<shared, live, deployed, calm, trouble, meant>>

ToLock(r, change) == [r EXCEPT !.pc = "lock", !.change = change]

StartEdit(p, cmd) ==
    /\ cmd.op \in {"use", "rename", "forget"}
    /\ Begin(p, cmd, ToLock(Idle, [NoChange EXCEPT !.kind = cmd.op, !.name = cmd.name, !.to = cmd.to]))
    /\ UNCHANGED drawn

StartAdd(p, cmd) ==
    /\ cmd.op = "add"
    /\ Begin(p, cmd, ToLock(Idle,
          [NoChange EXCEPT !.kind = "add", !.name = cmd.name, !.url = cmd.url,
                           !.cred = FreshCredential(Loaded), !.force = cmd.force]))
    /\ drawn' = drawn + 1

StartRemove(p, cmd) ==
    /\ cmd.op = "remove"
    /\ Begin(p, cmd,
          IF ~IsProfile(Loaded, cmd.name) THEN Ended("refused")
          ELSE [Idle EXCEPT !.pc = "take", !.name = cmd.name,
                            !.url = Loaded.profiles[cmd.name].url,
                            !.todo = {Loaded.profiles[cmd.name].cred}])
    /\ UNCHANGED drawn

StartLogoutAll(p, cmd) ==
    /\ cmd.op = "logoutAll"
    /\ Begin(p, cmd,
          [Idle EXCEPT !.pc = "take",
                       !.todo = {Loaded.profiles[n].cred : n \in Profiles(Loaded)} \cup {Legacy}])
    /\ UNCHANGED drawn

\* The profile and server of a login, or Refusal.
PlanLogin(c, name, url) ==
    IF name # None /\ url # None
    THEN IF IsProfile(c, name) THEN IF c.profiles[name].url = url THEN Through(c, name, "flag") ELSE Refusal
         ELSE IF CanAdd(c, name, NewProfile(url, Legacy, None), FALSE)
         THEN [name |-> name, url |-> url, source |-> "flag"] ELSE Refusal
    ELSE IF name # None THEN ByName(c, name, "flag")
    ELSE IF url # None /\ ProfilesForUrl(c, url) = {}
    THEN [name |-> AutoName(c, url), url |-> url, source |-> "flag"]
    ELSE IF url # None THEN ByUrl(c, url, "flag")
    ELSE ByDefault(c)

StartLogin(p, cmd) ==
    /\ cmd.op = "login"
    /\ cmd.name = None /\ cmd.url # None /\ ProfilesForUrl(Loaded, cmd.url) = {} => Nameable(Loaded, cmd.url)
    /\ LET plan == PlanLogin(Loaded, cmd.name, cmd.url)
           existing == IsProfile(Loaded, plan.name)
       IN Begin(p, cmd,
             IF plan = Refusal THEN Ended("refused")
             ELSE [Idle EXCEPT !.pc = "signin", !.name = plan.name, !.url = plan.url,
                     !.pin = IF existing THEN Loaded.profiles[plan.name].inst ELSE None,
                     !.cred = IF existing THEN Loaded.profiles[plan.name].cred
                              ELSE FreshCredential(Loaded)])
    /\ drawn' = drawn + 1

\* What a command goes on with once the configuration has chosen its target.
TargetOf(c, cmd) ==
    LET chosen == Select(c, cmd.name, cmd.url, cmd.project)
        profile == IF chosen.name = None THEN None ELSE c.profiles[chosen.name]
        pin == IF profile = None THEN None ELSE profile.inst
        nothing == /\ cmd.name = None /\ cmd.url = None /\ Profiles(c) = {}
                   /\ cmd.project # None => cmd.project.local = None /\ cmd.project.localProfile = None
        todo == IF profile # None THEN {profile.cred}
                ELSE IF chosen = Refusal \/ (Stored(Legacy) # None /\ files[Legacy].url = chosen.url)
                THEN {Legacy} ELSE {}
    IN CASE cmd.op = "logout" ->
              IF chosen = Refusal /\ ~nothing THEN Ended("refused")
              ELSE IF todo = {} THEN Ended("done")
              ELSE [Idle EXCEPT !.pc = "take", !.todo = todo]
         [] OTHER ->
              IF \/ chosen = Refusal
                 \/ cmd.force /\ ~IsDeliberate(chosen.source) /\ ~(\E n \in Name : Profiles(c) \subseteq {n})
                 \/ cmd.project # None /\ pin # None /\ pin \notin cmd.project.allow
              THEN Ended("refused")
              ELSE [Idle EXCEPT !.pc = "load", !.name = chosen.name, !.url = chosen.url, !.pin = pin,
                                !.cred = IF profile = None THEN Legacy ELSE profile.cred]

\* Those that adopt_legacy_session may hand the legacy session to: none, when
\* there is nothing to hand over or no profile that may take it.
Owners(c) == {n \in Profiles(c) : c.profiles[n].cred = Legacy}
Heirs(c) ==
    IF config = None \/ Owners(c) = {} \/ Stored(Legacy) = None THEN {}
    ELSE LET owner == CHOOSE n \in Owners(c) : TRUE
             url == files[Legacy].url
             candidates == ProfilesForUrl(c, url) \ {owner}
         IN IF c.profiles[owner].url = url THEN {}
            ELSE IF candidates = {} THEN {AutoName(c, url)}
            ELSE {n \in candidates : candidates = {n} /\ Stored(c.profiles[n].cred) = None}

StartResolve(p, cmd) ==
    /\ cmd.op \in {"run", "logout"}
    /\ IF Heirs(Loaded) = {}
       THEN Begin(p, cmd, TargetOf(Loaded, cmd)) /\ UNCHANGED drawn
       ELSE \E heir \in Heirs(Loaded) :
              /\ heir \in ProfilesForUrl(Loaded, files[Legacy].url) \/ ~Taken(Loaded, heir)
              /\ Begin(p, cmd, ToLock(Idle,
                    [NoChange EXCEPT
                       !.kind = "adopt", !.name = heir, !.url = files[Legacy].url,
                       !.to = CHOOSE n \in Owners(Loaded) : TRUE, !.other = drawn + 1,
                       !.inst = IF IsProfile(Loaded, heir) THEN Loaded.profiles[heir].inst ELSE None]))
              /\ drawn' = drawn + 1

Start(p, cmd) ==
    \/ StartEdit(p, cmd)
    \/ StartAdd(p, cmd)
    \/ StartRemove(p, cmd)
    \/ StartLogoutAll(p, cmd)
    \/ StartLogin(p, cmd)
    \/ StartResolve(p, cmd)
----------------------------------------------------------------------------
(* The update of config.toml. *)

LockOverAny(p) ==
    /\ At(p, "lock")
    /\ lock' = [by |-> p, old |-> FALSE]
    /\ Step(p, [proc[p] EXCEPT !.pc = "read"])
    /\ UNCHANGED <<config, files, live, deployed, drawn, scene, history>>
UpdateLock(p) ==
    /\ At(p, "lock")
    /\ lock = None
    /\ lock' = [by |-> p, old |-> FALSE]
    /\ Step(p, [proc[p] EXCEPT !.pc = "read"])
    /\ UNCHANGED <<config, files, live, deployed, drawn, scene, history>>

JudgeStale(p) ==
    /\ At(p, "lock")
    /\ lock # None /\ lock.old
    /\ Step(p, [proc[p] EXCEPT !.pc = "stale"])
    /\ trouble' = (trouble \/ \E q \in Proc : At(q, "stale"))
    /\ UNCHANGED <<shared, live, deployed, drawn, scene, calm, crowded, meant>>

TakeOver(p) ==
    /\ At(p, "stale")
    /\ lock' = None
    /\ Step(p, [proc[p] EXCEPT !.pc = "lock"])
    /\ UNCHANGED <<config, files, live, deployed, drawn, scene, history>>

\* A pin that cannot be recorded is only a warning.
GiveUp(p) ==
    /\ At(p, "lock")
    /\ lock # None /\ ~lock.old
    /\ Step(p, Ended(IF proc[p].change.kind = "pin" THEN "done" ELSE "refused"))
    /\ UNCHANGED <<shared, live, deployed, drawn, scene, history>>

Pin(c, ch) ==
    IF IsProfile(c, ch.name) /\ c.profiles[ch.name].url = ch.url /\ c.profiles[ch.name].inst = None
    THEN [c EXCEPT !.profiles = [@ EXCEPT ![ch.name] = [c.profiles[ch.name] EXCEPT !.inst = ch.inst]]]
    ELSE c

SetCredential(c, n, cred) ==
    IF IsProfile(c, n)
    THEN [c EXCEPT !.profiles = [@ EXCEPT ![n] = [c.profiles[n] EXCEPT !.cred = cred]]]
    ELSE c

Adopt(c, ch) ==
    LET disowned == SetCredential(c, ch.to, ch.other) IN
    IF IsProfile(c, ch.name) THEN SetCredential(disowned, ch.name, Legacy)
    ELSE Add(disowned, ch.name, NewProfile(ch.url, Legacy, ch.inst), FALSE)

CanApply(c, ch) ==
    CASE ch.kind = "use"    -> IsProfile(c, ch.name)
      [] ch.kind = "add"    -> CanAdd(c, ch.name, NewProfile(ch.url, ch.cred, None), ch.force)
      [] ch.kind = "rename" -> CanRename(c, ch.name, ch.to)
      [] ch.kind = "forget" -> CanForget(c, ch.name)
      [] ch.kind = "record" ->
            IF IsProfile(c, ch.name) THEN c.profiles[ch.name].url = ch.url
            ELSE CanAdd(c, ch.name, NewProfile(ch.url, ch.cred, ch.inst), FALSE)
      [] ch.kind = "adopt"  ->
            IsProfile(c, ch.name) \/ CanAdd(c, ch.name, NewProfile(ch.url, Legacy, ch.inst), FALSE)
      [] OTHER -> TRUE

Apply(c, ch) ==
    CASE ch.kind = "use"    -> SetDefault(c, ch.name)
      [] ch.kind = "add"    -> Add(c, ch.name, NewProfile(ch.url, ch.cred, None), ch.default)
      [] ch.kind = "rename" -> Rename(c, ch.name, ch.to)
      [] ch.kind = "forget" -> Forget(c, ch.name)
      [] ch.kind = "remove" -> IF IsProfile(c, ch.name) THEN Remove(c, ch.name) ELSE c
      [] ch.kind = "record" ->
            IF IsProfile(c, ch.name) THEN Pin(c, ch)
            ELSE Add(c, ch.name, NewProfile(ch.url, ch.cred, ch.inst), FALSE)
      [] ch.kind = "adopt"  -> Adopt(c, ch)
      [] OTHER -> Pin(c, ch)

ReadConfig(p) ==
    /\ At(p, "read")
    /\ LET ch == proc[p].change
           next == Apply(Loaded, ch)
       IN Step(p, IF CanApply(Loaded, ch) /\ Valid(next)
                  THEN [proc[p] EXCEPT !.pc = "write", !.base = config, !.next = next]
                  ELSE [proc[p] EXCEPT !.pc = "unlock", !.outcome = "refused"])
    /\ UNCHANGED <<shared, live, deployed, drawn, scene, history>>

\* The names that a change frees on purpose.
Freed(c, ch) ==
    CASE ch.kind = "remove" /\ IsProfile(c, ch.name) ->
            {ch.name} \cup {n \in Name : IsTombstone(c, n) /\ c.renamed[n].to = ch.name}
      [] ch.kind = "forget" \/ (ch.kind = "add" /\ ch.force) -> {ch.name}
      [] OTHER -> {}

Meaning(before, freed, next) ==
    [n \in Name |->
        LET kept == IF n \in freed THEN None ELSE before[n] IN
        IF kept = None /\ IsProfile(next, n) THEN next.profiles[n].inst ELSE kept]

Before(p) == IF proc[p].base = None THEN Empty ELSE proc[p].base

WriteConfig(p) ==
    /\ At(p, "write")
    /\ config' = proc[p].next
    /\ meant' = Meaning(meant, Freed(Before(p), proc[p].change), proc[p].next)
    /\ Step(p, [proc[p] EXCEPT !.pc = "unlock", !.outcome = "done"])
    /\ UNCHANGED <<lock, files, live, deployed, drawn, scene, calm, trouble, crowded>>

\* LockGuard::drop removes the lock file, whoever made it.
Unlock(p) ==
    /\ At(p, "unlock")
    /\ lock' = None
    /\ LET kind == proc[p].change.kind
           outcome == IF kind = "pin" THEN "done" ELSE proc[p].outcome
       IN Step(p, IF kind = "adopt" /\ outcome = "done"
                  THEN [Idle EXCEPT !.pc = "reload", !.cmd = proc[p].cmd]
                  ELSE Ended(outcome))
    /\ UNCHANGED <<config, files, live, deployed, drawn, scene, history>>

Reload(p) ==
    /\ At(p, "reload")
    /\ LET r == TargetOf(Loaded, proc[p].cmd) IN
       Step(p, IF r.pc = "idle" THEN r ELSE [r EXCEPT !.cmd = proc[p].cmd])
    /\ UNCHANGED <<shared, live, deployed, drawn, scene, history>>

AgeLock ==
    /\ lock # None /\ ~lock.old
    /\ lock' = [lock EXCEPT !.old = TRUE]
    /\ trouble' = (trouble \/ InUpdate(lock.by))
    /\ UNCHANGED <<config, files, live, deployed, proc, drawn, scene, calm, crowded, meant>>
----------------------------------------------------------------------------
(* A command that uses a session. *)

\* A session for another server is not presented; one that has expired and has
\* no refresh token ends the command as well.
LoadSession(p) ==
    /\ At(p, "load")
    /\ LET s == Stored(proc[p].cred) IN
       \/ /\ s # None /\ s.url = proc[p].url
          /\ \E pc \in {"refresh", "ask"} : Step(p, [proc[p] EXCEPT !.pc = pc, !.session = s])
       \/ Step(p, Ended("refused"))
    /\ UNCHANGED <<shared, live, deployed, drawn, scene, history>>

Refresh(p) ==
    /\ At(p, "refresh")
    /\ LET token == proc[p].session.token IN
       IF token \in live
       THEN /\ live' = (live \ {token}) \cup {drawn + 1}
            /\ drawn' = drawn + 1
            /\ Step(p, [proc[p] EXCEPT !.pc = "save", !.session.token = drawn + 1])
       ELSE Step(p, Ended("refused")) /\ UNCHANGED <<live, drawn>>
    /\ UNCHANGED <<shared, deployed, scene, history>>

\* The server renews and its answer is lost.
LoseRenewal(p) ==
    /\ At(p, "refresh")
    /\ Fault
    /\ live' = live \ {proc[p].session.token}
    /\ Step(p, Ended("refused"))
    /\ UNCHANGED <<shared, deployed, drawn, trouble, crowded, meant>>

SaveRenewed(p) ==
    /\ At(p, "save")
    /\ Save(proc[p].cred, proc[p].session)
    /\ Step(p, [proc[p] EXCEPT !.pc = "ask"])
    /\ UNCHANGED <<config, lock, live, deployed, drawn, scene, history>>

\* /whoami and Target::verify; a command on a bare URL and outside a project
\* does not ask.
Verify(p) ==
    /\ At(p, "ask")
    /\ LET r == proc[p]
           reported == deployed[r.url]
       IN Step(p, IF \/ r.pin # None /\ r.pin # reported
                     \/ r.cmd.project # None /\ reported \notin r.cmd.project.allow
                  THEN Ended("refused")
                  ELSE IF r.name = None \/ r.pin # None THEN Ended("done")
                  ELSE ToLock([Idle EXCEPT !.cmd = r.cmd],
                         [NoChange EXCEPT !.kind = "pin", !.name = r.name, !.url = r.url,
                                          !.inst = reported]))
    /\ UNCHANGED <<shared, live, deployed, drawn, scene, history>>
----------------------------------------------------------------------------
(* Signing in and out. *)

\* The browser, then /whoami with the new token.  An unpinned profile does not
\* need the answer.  A session for the wrong deployment is revoked, or not if
\* that fails; it is never saved.
SignIn(p) ==
    /\ At(p, "signin")
    /\ \E reported \in {deployed[proc[p].url]} \cup (IF proc[p].pin = None THEN {None} ELSE {}) :
          IF proc[p].pin \in {None, reported}
          THEN /\ live' = live \cup {drawn + 1}
               /\ Step(p, [proc[p] EXCEPT !.pc = "store", !.pin = reported,
                                          !.session = [url |-> proc[p].url, token |-> drawn + 1]])
          ELSE /\ live' \in {live, live \cup {drawn + 1}}
               /\ Step(p, Ended("refused"))
    /\ drawn' = drawn + 1
    /\ UNCHANGED <<shared, deployed, scene, history>>

StoreSession(p) ==
    /\ At(p, "store")
    /\ Save(proc[p].cred, proc[p].session)
    /\ Step(p, ToLock([Idle EXCEPT !.cmd = proc[p].cmd],
              [NoChange EXCEPT !.kind = "record", !.name = proc[p].name, !.url = proc[p].url,
                               !.cred = proc[p].cred, !.inst = proc[p].pin]))
    /\ UNCHANGED <<config, lock, live, deployed, drawn, scene, history>>

\* `profile remove` does not revoke a session for another server.
TakeSession(p) ==
    /\ At(p, "take")
    /\ \E c \in proc[p].todo :
          LET s == Stored(c)
              ours == s # None /\ (proc[p].cmd.op = "remove" => s.url = proc[p].url)
          IN Step(p, [proc[p] EXCEPT !.pc = IF ours THEN "revoke" ELSE "clear",
                                     !.cred = c, !.session = IF ours THEN s ELSE None])
    /\ UNCHANGED <<shared, live, deployed, drawn, scene, history>>

\* With --no-revoke, or when it fails, the token stays good.
RevokeAndStop(p) ==
    /\ At(p, "revoke")
    /\ live' \in {live, live \ {proc[p].session.token}}
    /\ Step(p, Ended("done"))
    /\ UNCHANGED <<shared, deployed, drawn, scene, history>>
Revoke(p) ==
    /\ At(p, "revoke")
    /\ live' \in {live, live \ {proc[p].session.token}}
    /\ Step(p, [proc[p] EXCEPT !.pc = "clear"])
    /\ UNCHANGED <<shared, deployed, drawn, scene, history>>

ClearSession(p) ==
    /\ At(p, "clear")
    /\ Clear(proc[p].cred)
    /\ LET todo == proc[p].todo \ {proc[p].cred} IN
       Step(p, IF proc[p].cmd.op = "remove"
               THEN ToLock([Idle EXCEPT !.cmd = proc[p].cmd],
                           [NoChange EXCEPT !.kind = "remove", !.name = proc[p].name])
               ELSE IF todo = {} THEN Ended("done")
               ELSE [proc[p] EXCEPT !.pc = "take", !.todo = todo, !.cred = Legacy, !.session = None])
    /\ UNCHANGED <<config, lock, live, deployed, drawn, scene, history>>
----------------------------------------------------------------------------
(* The rest of the world. *)

Die(p) ==
    /\ Active(p)
    /\ Fault
    /\ Step(p, Idle)
    /\ crowded' = TRUE
    /\ UNCHANGED <<shared, live, deployed, drawn, trouble, meant>>

Outside ==
    /\ scene.outside > 0
    /\ scene' = [scene EXCEPT !.outside = @ - 1]

OlderBuildSignsIn(u) ==
    /\ Outside
    /\ Save(Legacy, [url |-> u, token |-> drawn + 1])
    /\ live' = live \cup {drawn + 1}
    /\ drawn' = drawn + 1
    /\ crowded' = (crowded \/ \E q \in Proc : Active(q))
    /\ UNCHANGED <<config, lock, deployed, proc, calm, trouble, meant>>

Redeploy(u, i) ==
    /\ Outside
    /\ i # deployed[u]
    /\ deployed' = [deployed EXCEPT ![u] = i]
    /\ UNCHANGED <<shared, live, proc, drawn, history>>

Act(p) ==
    \/ UpdateLock(p) \/ JudgeStale(p) \/ TakeOver(p) \/ GiveUp(p)
    \/ ReadConfig(p) \/ WriteConfig(p) \/ Unlock(p) \/ Reload(p)
    \/ LoadSession(p) \/ Refresh(p) \/ LoseRenewal(p) \/ SaveRenewed(p) \/ Verify(p)
    \/ SignIn(p) \/ StoreSession(p) \/ TakeSession(p) \/ Revoke(p) \/ ClearSession(p)
    \/ Die(p)

Next ==
    \/ \E p \in Proc : (\E cmd \in Menu[scene.menu] : Start(p, cmd)) \/ Act(p)
    \/ AgeLock
    \/ \E u \in Url : OlderBuildSignsIn(u) \/ \E i \in Instance : Redeploy(u, i)

Spec == Init /\ [][Next]_vars
----------------------------------------------------------------------------
(* What the processes keep to. *)

\* The lock does its work as long as no lock grows old under a holder that is
\* still at work and no two processes find the same lock old: nobody changes
\* config.toml without holding the lock that is there, and a lock is taken
\* over by one process only (profiles.rs:214-263).
LockHolds ==
    ~trouble =>
       /\ \A p \in Proc : InUpdate(p) => lock # None /\ lock.by = p /\ ~lock.old
       /\ \A p \in Proc : At(p, "stale") => lock # None /\ lock.old
       /\ \A p, q \in Proc : At(p, "stale") /\ At(q, "stale") => p = q

\* config.toml is valid whatever happens, so every command can read it: no two
\* profiles share a credential file, the default exists, and a name that was
\* renamed away leads to a profile and is none itself (profile.rs:400-453).
TombstonesLead(c) ==
    \A n \in Name : IsTombstone(c, n) => ~IsProfile(c, n) /\ IsProfile(c, c.renamed[n].to)
ConfigIsValid == config # None => Valid(config) /\ TombstonesLead(config)

\* "A rename in one terminal and a first-time pin in another both persist"
\* (profiles.rs:17-20): a configuration that is written replaces the one that
\* was read and changed, and none written since.
BothPersist ==
    [][config' # config /\ ~trouble => \E p \in Proc : At(p, "write") /\ proc[p].base = config]_vars

\* A name never quietly comes to mean another deployment (profile.rs:293-299):
\* whatever was pinned to it first since it was last free is what its profile
\* is pinned to, across renames, adoptions and sign-ins.
NamesKeepTheirMeaning ==
    ~trouble /\ config # None =>
       \A n \in Name : IsProfile(config, n) /\ meant[n] # None => config.profiles[n].inst = meant[n]

\* While nothing dies and no answer is lost, a stored session is one that its
\* server honours, or one that somebody is about to replace or clear
\* (session.rs:114-124, auth.rs:459-469).
StoredSessionsAreLive ==
    calm =>
       \A c \in DOMAIN files :
          \/ files[c].token \in live
          \/ \E p \in Proc : /\ proc[p].cred = c
                            /\ \/ At(p, "save")
                               \/ At(p, "clear") /\ proc[p].session = files[c]

\* Between commands that did not overlap, a session on disk is one that some
\* profile uses or the one file that `prk logout --all` always clears, so none
\* is left that nothing can sign out.
NoSessionIsLost ==
    ~crowded /\ (\A p \in Proc : ~Active(p)) =>
       \A c \in DOMAIN files : c = Legacy \/ \E n \in Profiles(Loaded) : Loaded.profiles[n].cred = c

\* A login that had the machine to itself is refused when it is recorded, after
\* its session was saved, in one case only: the first, when there is neither a
\* config.toml nor a session, under a name that is not the default (auth.rs:300-310,
\* profiles.rs:154-163).
RefusedOnlyOnAFreshMachine ==
    ~crowded => \A p \in Proc :
       At(p, "unlock") /\ proc[p].change.kind = "record" /\ proc[p].outcome = "refused" =>
          config = None /\ proc[p].change.name # DefaultName /\ proc[p].change.cred = Legacy

\* What is stored is live, what is left is somebody's, and what a login has
\* saved is recorded, but on a fresh machine (session.rs:114-124, auth.rs:300-310,
\* auth.rs:459-469).
SessionsAreKept == StoredSessionsAreLive /\ NoSessionIsLost /\ RefusedOnlyOnAFreshMachine

-----------------------------------------------------------------------------
(* The inductive invariant.                                                 *)

TypeOK ==
    /\ config \in Config \cup {None}
    /\ lock \in Lock \cup {None}
    /\ DOMAIN files \subseteq Credential /\ files \in [DOMAIN files -> Session]
    /\ live \subseteq Nat
    /\ deployed \in [Url -> Instance]
    /\ proc \in [Proc -> Process]
    /\ drawn \in Nat
    /\ scene \in Scene
    /\ {calm, trouble, crowded} \subseteq BOOLEAN
    /\ meant \in [Name -> Instance \cup {None}]

\* What a configuration and the meanings of names have to do with each other: a
\* profile's pin is what its name means, an old name means what the profile it
\* leads to is pinned to, and a free name means nothing.
Consistent(c, meaning) ==
    \A n \in Name :
       /\ IsProfile(c, n) => c.profiles[n].inst = meaning[n]
       /\ IsTombstone(c, n) => /\ meaning[n] # None => c.profiles[c.renamed[n].to].inst = meaning[n]
                               /\ c.renamed[n].inst # None => c.renamed[n].inst = meaning[n]
       /\ ~Taken(c, n) => meaning[n] = None

MeansNothing == \A n \in Name : meant[n] = None

\* A process has what its next step needs of it.
Equipped(r) ==
    /\ r.pc \in {"load", "refresh", "save", "ask", "signin", "store"} => r.url # None
    /\ r.pc \in {"refresh", "save", "ask", "store", "revoke"} => r.session # None
    /\ r.change.kind \in {"add", "record", "adopt"} => r.change.url # None
Well(r) == Equipped(r) /\ (r.pc # "idle" => r.cmd # None)

\* A write that is ready has a valid configuration, made from the one there is.
Ready(p) ==
    At(p, "write") =>
       /\ proc[p].next \in Config /\ Valid(proc[p].next) /\ TombstonesLead(proc[p].next)
       /\ ~trouble => /\ proc[p].base = config
                      /\ Consistent(proc[p].next,
                            Meaning(meant, Freed(Before(p), proc[p].change), proc[p].next))

IInv ==
    /\ TypeOK
    /\ LockHolds
    /\ ConfigIsValid
    /\ \A p \in Proc : Well(proc[p]) /\ Ready(p)
    /\ config = None => MeansNothing
    /\ ~trouble /\ config # None => Consistent(config, meant)
=============================================================================
