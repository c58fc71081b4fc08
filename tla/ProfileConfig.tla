--------------------------- MODULE ProfileConfig ---------------------------
(***************************************************************************)
(* The profiles of prk's config.toml: what makes a configuration valid,    *)
(* the edits that change one, and how a command chooses its profile.  All  *)
(* of it is pure, in the code as here: a function from a configuration to  *)
(* another, or to a refusal.  An edit is two operators, when it is allowed *)
(* (Can...) and what it yields.                                            *)
(*                                                                         *)
(* Data abstraction: a server is its normalised URL, a credential file a   *)
(* number, zero for the file of builds that knew no profiles.  Left out:   *)
(* the grammar of names and URLs, the issuer, pinned beside the instance   *)
(* and in the same way, and the defaults that a profile holds for --project*)
(* and --env and its service token.                                        *)
(***************************************************************************)
EXTENDS Naturals

CONSTANTS
    Name,         \* profile names
    DefaultName,  \* DEFAULT_NAME
    Url,          \* servers
    HostNames,    \* names after the host of a URL: plain, then with -2, -3 ...
    Instance,     \* what a deployment reports of itself
    None

ASSUME ConfigAssumption ==
    /\ DefaultName \in Name
    /\ HostNames \in [Url -> [1..2 -> Name]]
    /\ None \notin Name \cup Url \cup Instance
    /\ None \notin Nat

Legacy == 0
Credential == Nat

Profile == [url: Url, cred: Credential, inst: Instance \cup {None}]
Tombstone == [to: Name, inst: Instance \cup {None}]

ASSUME RecordsAssumption == None \notin Profile /\ None \notin Tombstone

Config ==
    [default: Name \cup {None},
     profiles: [Name -> Profile \cup {None}],
     renamed: [Name -> Tombstone \cup {None}]]

Empty ==
    [default |-> None, profiles |-> [n \in Name |-> None], renamed |-> [n \in Name |-> None]]

NewProfile(url, cred, inst) == [url |-> url, cred |-> cred, inst |-> inst]

IsProfile(c, n) == n \in Name /\ c.profiles[n] # None
IsTombstone(c, n) == n \in Name /\ c.renamed[n] # None
Profiles(c) == {n \in Name : IsProfile(c, n)}

FromLegacy(url) ==
    [Empty EXCEPT !.default = DefaultName,
                  !.profiles = [Empty.profiles EXCEPT ![DefaultName] = NewProfile(url, Legacy, None)]]

Valid(c) ==
    /\ \A m, n \in Name :
          IsProfile(c, m) /\ IsProfile(c, n) /\ m # n => c.profiles[m].cred # c.profiles[n].cred
    /\ c.default # None => IsProfile(c, c.default)

ProfilesForUrl(c, url) == {n \in Profiles(c) : c.profiles[n].url = url}
ProfilesForInstance(c, inst) == {n \in Profiles(c) : c.profiles[n].inst = inst}

Taken(c, n) == IsProfile(c, n) \/ IsTombstone(c, n)
AutoName(c, url) ==
    LET names == HostNames[url] IN
    IF Profiles(c) = {} /\ ~IsTombstone(c, DefaultName) THEN DefaultName
    ELSE IF Taken(c, names[1]) /\ ~Taken(c, names[2]) THEN names[2] ELSE names[1]

\* A name that is tried is free: HostNames bounds the names, and prk tries as many
\* as it takes.
Nameable(c, url) == ~Taken(c, AutoName(c, url))
----------------------------------------------------------------------------
(* Edits. *)

AvailableUnlessProfile(c, n, inst, reuse) == n \in Name /\ ~IsProfile(c, n)
Available(c, n, inst, reuse) ==
    /\ n \in Name /\ ~IsProfile(c, n)
    /\ IsTombstone(c, n) => \/ reuse
                            \/ c.renamed[n].inst # None /\ c.renamed[n].inst = inst

CanAdd(c, n, profile, reuse) == Available(c, n, profile.inst, reuse)
Add(c, n, profile, makeDefault) ==
    [default |-> IF makeDefault \/ c.default = None THEN n ELSE c.default,
     profiles |-> [c.profiles EXCEPT ![n] = profile],
     renamed |-> [c.renamed EXCEPT ![n] = None]]

CanRename(c, old, new) ==
    /\ IsProfile(c, old)
    /\ Available(c, new, c.profiles[old].inst, IsTombstone(c, new) /\ c.renamed[new].to = old)
Rename(c, old, new) ==
    [default |-> IF c.default = old THEN new ELSE c.default,
     profiles |-> [c.profiles EXCEPT ![old] = None, ![new] = c.profiles[old]],
     renamed |-> [n \in Name |->
        IF n = old THEN [to |-> new, inst |-> c.profiles[old].inst]
        ELSE IF n = new \/ c.renamed[n] = None THEN None
        ELSE IF c.renamed[n].to = old THEN [c.renamed[n] EXCEPT !.to = new]
        ELSE c.renamed[n]]]

CanForget(c, n) == IsTombstone(c, n)
Forget(c, n) == [c EXCEPT !.renamed = [@ EXCEPT ![n] = None]]

Remove(c, n) ==
    [default |-> IF c.default = n THEN None ELSE c.default,
     profiles |-> [c.profiles EXCEPT ![n] = None],
     renamed |-> [m \in Name |->
        IF IsTombstone(c, m) /\ c.renamed[m].to = n THEN None ELSE c.renamed[m]]]

SetDefault(c, n) == [c EXCEPT !.default = n]
----------------------------------------------------------------------------
(***************************************************************************)
(* The choice of a server.  What is asked: a profile or a URL, or neither, *)
(* by flag or by environment (one and the same here: the first that says   *)
(* anything decides, and both are deliberate); and the project files of    *)
(* the directory, None or the instances they allow, a tie-breaker, and     *)
(* this checkout's own choice.  A choice is a name and a URL; without a    *)
(* profile the name is None, and a refusal has neither.                    *)
(***************************************************************************)
Source == {"flag", "local_file", "project_file", "default"}

Project ==
    [allow: SUBSET Instance, tie: Name \cup {None},
     local: Instance \cup {None}, localProfile: Name \cup {None}]

Refusal == [name |-> None, url |-> None, source |-> "default"]
Through(c, n, source) == [name |-> n, url |-> c.profiles[n].url, source |-> source]

ByName(c, n, source) == IF IsProfile(c, n) THEN Through(c, n, source) ELSE Refusal

ByUrl(c, url, source) ==
    LET matching == ProfilesForUrl(c, url) IN
    IF matching = {} THEN [name |-> None, url |-> url, source |-> source]
    ELSE IF \E n \in Name : matching = {n}
    THEN Through(c, CHOOSE n \in Name : matching = {n}, source)
    ELSE Refusal

ByInstance(c, inst, tie, source) ==
    LET pinned == ProfilesForInstance(c, inst) IN
    IF \E n \in Name : pinned = {n} THEN Through(c, CHOOSE n \in Name : pinned = {n}, source)
    ELSE IF tie \in pinned THEN Through(c, tie, source)
    ELSE Refusal

ByDefault(c) == IF c.default = None THEN Refusal ELSE ByName(c, c.default, "default")

FromProject(c, project) ==
    IF project.local # None THEN ByInstance(c, project.local, project.localProfile, "local_file")
    ELSE IF project.localProfile # None THEN ByName(c, project.localProfile, "local_file")
    ELSE IF \E i \in Instance : project.allow = {i}
    THEN LET only == CHOOSE i \in Instance : project.allow = {i} IN
         IF ProfilesForInstance(c, only) = {} THEN ByDefault(c)
         ELSE ByInstance(c, only, project.tie, "project_file")
    ELSE ByDefault(c)

Select(c, name, url, project) ==
    IF name # None THEN ByName(c, name, "flag")
    ELSE IF url # None THEN ByUrl(c, url, "flag")
    ELSE IF project # None THEN FromProject(c, project)
    ELSE ByDefault(c)

IsDeliberate(source) == source \in {"flag", "local_file"}
=============================================================================
