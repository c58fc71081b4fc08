------------------------------- MODULE Publish -------------------------------
(* From a tag to a release (.github/workflows/cli-release.yml and the        *)
(* scripts its jobs run): a run stamps its version into the manifests,       *)
(* builds a binary for every platform, renders the npm packages, publishes   *)
(* them one by one, releases on GitHub and renders the manifests of the      *)
(* package managers. Any step may fail; a failed run may be run again, from  *)
(* the job that failed or from the start, when other versions are out.       *)
(*                                                                           *)
(* The tags of one day are pushed in order (ReleaseTags); a version is its   *)
(* number. Of a job's steps, those that write to somewhere others read are   *)
(* apart. Not modelled: crates.io and WinGet, which publish beside this;     *)
(* the attestations; the documentation's and the app's runs.                 *)
EXTENDS Naturals, FiniteSets

CONSTANTS Platform,    \* The platforms a binary is built for.
          Host,        \* The one the jobs run on.
          LastVersion, \* Bound on the tags.
          MaxDispatch, \* Bound on the runs dispatched by hand.
          MaxReruns    \* Bound on the runs run again.

VARIABLES tags,     \* How many tags the origin has.
          run,      \* The run that is going, at most one.
          pending,  \* The one that waits for it, at most one.
          stopped,  \* Those that failed or ended.
          registry, \* The packages on npm,
          readable, \* and those of them that npm shows already.
          github,   \* The releases: their version and whether they are drafts.
          buckets,  \* The version in Scoop's bucket and in Homebrew's tap.
          budget    \* Dispatches and reruns so far.

vars == <<tags, run, pending, stopped, registry, readable, github, buckets, budget>>

Old == LastVersion + 1
Foreign == LastVersion + 2

(* The places where a version is written: the workspace, a path dependency,  *)
(* a member's block in the lock, a package.json and its pins of our own      *)
(* packages are ours. Of a dependency, a crate in the lock that has a        *)
(* member's name, and another's optional package the version is theirs.      *)
Ours == {"workspace", "path", "member", "npm", "pin"}
Theirs == {"dependency", "namesake", "optional"}

(* What is written in each: at most one version. A path dependency and a     *)
(* package.json may have none.                                               *)
Trees == {[s \in Ours \union Theirs |->
              IF s \in Theirs THEN {Foreign} ELSE IF s \in bare THEN {} ELSE {Old}]
              : bare \in SUBSET {"path", "npm"}}
Unread == [s \in Ours \union Theirs |-> {}]

Package == Platform \union {"mcp", "parent"}

Init ==
    /\ tags = 0
    /\ run = {} /\ pending = {} /\ stopped = {}
    /\ registry = {} /\ readable = {} /\ github = {}
    /\ buckets = [scoop |-> {}, homebrew |-> {}]
    /\ budget = [dispatch |-> 0, reruns |-> 0]

-----------------------------------------------------------------------------
(* The scripts.                                                              *)

(* version.mjs set: ours is the version, wherever it was missing too.        *)
SetCargoVersion(tree, v) == [tree EXCEPT !["workspace"] = {v}, !["path"] = {v}]
SetCargoLockVersion(tree, v) == [tree EXCEPT !["member"] = {v}]
SetPackageJsonVersion(tree, v) == [tree EXCEPT !["npm"] = {v}, !["pin"] = {v}]

CmdSet(tree, v) ==
    SetPackageJsonVersion(SetCargoLockVersion(SetCargoVersion(tree, v), v), v)

(* version.mjs check: all of ours agree.                                     *)
Observed(tree) == UNION {tree[s] : s \in Ours}
CmdCheck(tree) == Cardinality(Observed(tree)) <= 1

(* npm-package.mjs: with a binary missing it renders nothing.                *)
RenderPackages(found) == IF found = Platform THEN Package ELSE {}

(* dist-manifests.mjs: no manifest without the hash of each archive.         *)
RenderManifests(sums) == sums = Platform

(* cli-release.mjs dry: a branch that is on the origin.                      *)
DispatchRefProblem(ref) == ref \in {"", "HEAD", "tag"}
CmdDryDispatches(ref) == ~DispatchRefProblem(ref) /\ ref # "unpushed"

-----------------------------------------------------------------------------
(* The runs. The group lets one go; of those that wait, the last.            *)
Enqueue(r) == IF run = {} THEN run' = {r} /\ UNCHANGED pending
                          ELSE pending' = {r} /\ UNCHANGED run

Fresh(event, dry, v) ==
    [event |-> event, dry |-> dry, v |-> v, at |-> "version",
     tree |-> Unread, found |-> {}, out |-> {}]

(* cli:cut pushes a tag, and the push starts a run.                          *)
PushTag ==
    /\ tags <= LastVersion
    /\ tags' = tags + 1
    /\ Enqueue(Fresh("push", FALSE, tags))
    /\ UNCHANGED <<stopped, registry, readable, github, buckets, budget>>

(* A run dispatched by cli:dry, or on GitHub's page, where the box that says *)
(* dry can be cleared. The version is the one the next cut would take.       *)
Dispatch ==
    /\ budget.dispatch < MaxDispatch /\ tags <= LastVersion
    /\ \E dry \in BOOLEAN, ref \in {"branch", "unpushed", "HEAD", "tag", ""} :
           /\ dry => CmdDryDispatches(ref)
           /\ ~dry => ref \in {"branch", "tag"}
           /\ Enqueue(Fresh("dispatch", dry, tags))
    /\ budget' = [budget EXCEPT !.dispatch = @ + 1]
    /\ UNCHANGED <<tags, stopped, registry, readable, github, buckets>>

(* What a step of the run leaves alone unless it says otherwise.             *)
Still == UNCHANGED <<tags, pending, stopped, budget>>
Local == Still /\ UNCHANGED <<registry, readable, github, buckets>>

Goes(r, at) == run' = {[r EXCEPT !.at = at]}

Ends(r, at) ==
    /\ run' = pending /\ pending' = {}
    /\ stopped' = {s \in stopped : s.v # r.v \/ s.event # r.event} \union {[r EXCEPT !.at = at]}
    /\ UNCHANGED <<tags, registry, readable, github, buckets, budget>>

(* Only a pushed tag releases.                                               *)
Released(r) == r.event = "push"

(* What fails is a job, which starts where it started.                       *)
JobOf(r) == CASE r.at \in {"version", "build", "package"} -> r.at
              [] r.at \in {"platforms", "smoke", "mcp", "parent"} ->
                     IF Released(r) THEN "platforms" ELSE "smoke"
              [] r.at \in {"draft", "undraft"} -> "draft"
              [] r.at \in {"scoop", "homebrew"} -> "scoop"

Fail(r) == r.at # "done" /\ Ends(r, JobOf(r))

Resolve(r) ==
    /\ r.at = "version"
    /\ r.event = "push" \/ r.dry
    /\ Goes(r, "build")
    /\ Local

(* Every platform is built, with --locked, from a checkout that is stamped.  *)
Build(r) ==
    /\ r.at = "build"
    /\ \E tree \in Trees :
           LET stamped == CmdSet(tree, r.v)
           IN  /\ stamped["member"] = stamped["workspace"]
               /\ run' = {[r EXCEPT !.at = "package", !.tree = stamped]}
    /\ Local

(* What the download of the artefacts leaves in the directory is rendered.   *)
Pack(r) ==
    /\ r.at = "package"
    /\ \E found \in SUBSET Platform :
           /\ RenderPackages(found) # {}
           /\ run' = {[r EXCEPT !.at = IF Released(r) THEN "platforms" ELSE "smoke",
                                !.found = found, !.out = RenderPackages(found)]}
    /\ Local

(* One package is published, unless npm shows it already. It takes a version *)
(* once, and not one below what it has (npm's own refusal of a lower latest).*)
Refused(name, v) == \/ [name |-> name, v |-> v] \in registry
                    \/ \E p \in registry : p.name = name /\ p.v > v

PublishOne(r, name) ==
    /\ name \in r.out
    /\ [name |-> name, v |-> r.v] \notin readable
    /\ ~Refused(name, r.v)
    /\ registry' = registry \union {[name |-> name, v |-> r.v]}
    /\ UNCHANGED <<readable, github, buckets>>

PublishPlatform(r) ==
    /\ r.at = "platforms"
    /\ \E p \in Platform : PublishOne(r, p)
    /\ UNCHANGED run /\ Still

Shown(r, names) == \A p \in names : [name |-> p, v |-> r.v] \in readable

(* The mistake of not waiting for the registry.                              *)
WaitNot(r) == r.at = "platforms" /\ Goes(r, "smoke") /\ Local

(* Each platform package is there, and is waited for.                        *)
Wait(r) ==
    /\ r.at = "platforms"
    /\ Shown(r, Platform)
    /\ Goes(r, "smoke")
    /\ Local

(* The launcher is installed, with the host's package from npm or, in a      *)
(* rehearsal, from here; its binary says the version.                        *)
Smoke(r) ==
    /\ r.at = "smoke" /\ r.tree["workspace"] = {r.v}
    /\ Released(r) => Shown(r, {Host})
    /\ Goes(r, IF Released(r) THEN "mcp" ELSE "scoop")
    /\ Local

(* The MCP server is published, then the parent, which is the release.       *)
PublishMcp(r) ==
    /\ r.at = "mcp"
    /\ \/ PublishOne(r, "mcp")
       \/ Shown(r, {"mcp"}) /\ UNCHANGED <<registry, readable, github, buckets>>
    /\ Goes(r, "parent") /\ Still

PublishParent(r) ==
    /\ r.at = "parent"
    /\ \/ PublishOne(r, "parent") /\ UNCHANGED run
       \/ /\ Shown(r, {"mcp", "parent"}) /\ Goes(r, "draft")
          /\ UNCHANGED <<registry, readable, github, buckets>>
    /\ Still

(* A draft is made, or its assets are put up again; it is shown with them.   *)
Draft(r) ==
    /\ r.at = "draft"
    /\ github' = IF \E g \in github : g.v = r.v THEN github
                 ELSE github \union {[v |-> r.v, draft |-> TRUE, assets |-> r.found]}
    /\ Goes(r, "undraft")
    /\ Still /\ UNCHANGED <<registry, readable, buckets>>

Undraft(r) ==
    /\ r.at = "undraft"
    /\ github' = {IF g.v = r.v THEN [g EXCEPT !.draft = FALSE] ELSE g : g \in github}
    /\ Goes(r, "scoop")
    /\ Still /\ UNCHANGED <<registry, readable, buckets>>

(* A rehearsal renders the manifests and commits neither.                    *)
Scoop(r) ==
    /\ r.at = "scoop" /\ RenderManifests(r.found)
    /\ IF Released(r) THEN buckets' = [buckets EXCEPT !.scoop = {r.v}] /\ Goes(r, "homebrew")
                      ELSE UNCHANGED buckets /\ Goes(r, "done")
    /\ Still /\ UNCHANGED <<registry, readable, github>>

Homebrew(r) ==
    /\ r.at = "homebrew"
    /\ buckets' = [buckets EXCEPT !.homebrew = {r.v}]
    /\ Goes(r, "done")
    /\ Still /\ UNCHANGED <<registry, readable, github>>

Done(r) == r.at = "done" /\ Ends(r, "done")

(* npm shows what was published, some time later.                            *)
Appear ==
    /\ \E p \in registry \ readable : readable' = readable \union {p}
    /\ UNCHANGED <<tags, run, pending, stopped, registry, github, buckets, budget>>

(* Somebody runs it again: the job that failed and those after it, with the  *)
(* artefacts it had, or all of it.                                           *)
Rerun ==
    /\ budget.reruns < MaxReruns
    /\ \E s \in stopped :
           /\ stopped' = stopped \ {s}
           /\ \/ s.at # "done" /\ Enqueue(s)
              \/ Enqueue(Fresh(s.event, s.dry, s.v))
    /\ budget' = [budget EXCEPT !.reruns = @ + 1]
    /\ UNCHANGED <<tags, registry, readable, github, buckets>>

Next ==
    \/ PushTag \/ Dispatch \/ Appear \/ Rerun
    \/ \E r \in run :
           \/ Resolve(r) \/ Build(r) \/ Pack(r) \/ PublishPlatform(r) \/ Wait(r) \/ Smoke(r)
           \/ PublishMcp(r) \/ PublishParent(r) \/ Draft(r) \/ Undraft(r)
           \/ Scoop(r) \/ Homebrew(r) \/ Done(r) \/ Fail(r)

Spec == Init /\ [][Next]_vars

-----------------------------------------------------------------------------
On(name, v) == [name |-> name, v |-> v] \in readable

(* A launcher on npm finds each platform package of its very version there,  *)
(* a release on GitHub has its launcher on npm and every archive, and the    *)
(* package managers name a release that is shown: at each step, whatever     *)
(* failed and was run again in between.                                      *)
LiveIsComplete ==
    /\ \A p \in registry : p.name = "parent" => \A q \in Platform : On(q, p.v)
    /\ \A g \in github : ~g.draft => On("parent", g.v) /\ g.assets = Platform
    /\ \A v \in buckets.scoop \union buckets.homebrew : \E g \in github : g.v = v /\ ~g.draft

(* What is on npm, on GitHub and in the buckets has its tag, so no rehearsal *)
(* takes a version; and what a run builds says its version wherever it is    *)
(* ours to say, the lock's namesake of a member being theirs.                *)
OnlyTagsRelease ==
    /\ \A p \in registry : p.v < tags
    /\ \A g \in github : g.v < tags
    /\ \A r \in run : r.at \notin {"version", "build"} =>
           /\ CmdCheck(r.tree) /\ Observed(r.tree) = {r.v}
           /\ \A s \in Theirs : r.tree[s] = {Foreign}
=============================================================================
