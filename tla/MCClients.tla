------------------------------ MODULE MCClients ------------------------------
(* What is on the other side of the API, one part at a time: prk's commands  *)
(* (two clients calling the server, a login, a program run with the secrets  *)
(* of an environment, an argument on its way to a batch file), the launcher  *)
(* npm installs as prk, the MCP server, a page and a dialog of the web       *)
(* interface, and the release of all of it. A scene is one of them; the      *)
(* state of the others stays what it is at their start.                      *)
EXTENDS Naturals, Sequences, FiniteSets

CONSTANTS Client, MaxRetries, MaxCalls, MaxFaults,
          Deadline, ReadTimeout, MaxTime, MaxConnections, MaxBytes,
          ExitCodes, MaxEvents,
          MaxLength,
          Machine, Builds, EndCodes, MaxSignals,
          Deployment, Pinned, Call, Settings,
          Cut, Clone, FarCut, Attempts,
          Platform, RunsOn, LastVersion, MaxDispatch, MaxReruns,
          Tokens, Project, Blank, MaxRequests,
          SecretKey, Files, KeptKeys, MaxImports, MaxWrites

VARIABLES scene,
          made, rev, applied, call, flight, reply, faults,
          stage, walk, loop, paste, channel, arrival, backlog, visits, clock, bytes,
          grant, session,
          setting, phase, status, env, proc, job, program, events,
          arg,
          machine, shim, binary, late, signals,
          options, config, verified, behind, trail, holds, used,
          remote, local, cut, mishaps,
          tags, workflow, pending, stopped, registry, readable, github, buckets, budget,
          page, sent, numbered, list, secret, rotating, creating, revoking, comparing, busy,
          keys, revision, writes, known, reading, open, format, replace, draft, preview,
          previewed, request, turns

(* Retries, times and what is counted are whole numbers.                     *)
ASSUME BoundsAssumption ==
    /\ MaxRetries \in Nat /\ MaxCalls \in Nat
    /\ Deadline \in Nat /\ ReadTimeout \in Nat

(* The MCP package and the parent are published beside those of the          *)
(* platforms.                                                                *)
ASSUME PlatformAssumption == {"mcp", "parent"} \cap Platform = {}

(* A deployment's id is no other word an answer may hold in its place.       *)
ASSUME DeploymentAssumption ==
    /\ Pinned \in Deployment
    /\ Deployment \cap {"none", "html", "other json", "envelope", "no instance"} = {}

(* The last of the cuts is made in another clone.                            *)
Home(c) == IF c = FarCut THEN "b" ELSE "a"
ASSUME HomeAssumption == \A c \in Cut : Home(c) \in Clone

Calls == INSTANCE ApiCalls
Login == INSTANCE SignIn
Run == INSTANCE RunChild WITH Status <- ExitCodes
Line == INSTANCE CmdLine
Shim == INSTANCE Launcher WITH Host <- Machine, Package <- Builds, Codes <- EndCodes,
                               program <- binary
Tool == INSTANCE Mcp WITH setting <- options, call <- used
Cuts == INSTANCE ReleaseTags WITH faults <- mishaps
Release == INSTANCE Publish WITH Host <- RunsOn, run <- workflow
Screen == INSTANCE TokenScreen WITH Token <- Tokens, MaxCalls <- MaxRequests,
                                    calls <- sent, made <- numbered,
                                    Nothing <- Blank
Dialog == INSTANCE ImportDialog WITH rev <- revision, seen <- known, text <- draft,
                                     left <- turns, Key <- SecretKey,
                                     Kept <- KeptKeys, Nothing <- Blank

calls == <<made, rev, applied, call, flight, reply, faults>>
login == <<stage, walk, loop, paste, channel, arrival, backlog, visits, clock, bytes,
           grant, session>>
run == <<setting, phase, status, env, proc, job, program, events>>
launch == <<machine, shim, binary, late, signals>>
tool == <<options, config, verified, behind, trail, holds, used>>
cuts == <<remote, local, cut, mishaps>>
release == <<tags, workflow, pending, stopped, registry, readable, github, buckets, budget>>
screen == <<page, sent, numbered, list, secret, rotating, creating, revoking, comparing, busy>>
dialog == <<keys, revision, writes, known, reading, open, format, replace, draft, preview,
            previewed, request, turns>>

prk == <<calls, login, run, arg>>
beside == <<launch, tool, cuts, release, screen, dialog>>

vars == <<scene, prk, beside>>

(* The settings an MCP server is tried with; most vary one entry of a good   *)
(* one. What an import is given: one key more, or two in the other format.   *)
GoodSetting ==
    [unknownArgument |-> FALSE, credentials |-> TRUE, url |-> "https",
     workspace |-> "directory", timeout |-> "unset", pin |-> "unset",
     revealFlag |-> FALSE, reveal |-> "unset"]
MCSettings ==
    {[GoodSetting EXCEPT !.pin = p, !.reveal = "TRUE"] : p \in {"id", "malformed"}}
    \union {[GoodSetting EXCEPT !.pin = "ID", !.revealFlag = TRUE],
            [GoodSetting EXCEPT !.reveal = "true"]}
    \union {[GoodSetting EXCEPT !.url = u] :
                u \in {"unset", "relative", "ftp", "http remote", "credentials", "query"}}

MCFiles == {[as |-> "env", keys |-> {"b"}], [as |-> "json", keys |-> {"a", "b"}]}

Init ==
    /\ scene \in {"calls", "login", "run", "argument",
                  "launch", "mcp", "cuts", "release", "screen", "import"}
    /\ Calls!Init /\ (scene = "calls" \/ ~made)
    /\ Login!Init
    /\ Run!Init /\ (scene = "run" \/ setting = [platform |-> "unix", allowPrkVars |-> FALSE,
                                                allowUnsafe |-> FALSE, keys |-> {}])
    /\ Line!Init
    /\ Shim!Init /\ (scene = "launch" \/ machine = [host |-> "other", installed |-> {},
                                                    detects |-> TRUE])
    /\ Tool!Init /\ (scene = "mcp" \/ (behind = Pinned /\ options = CHOOSE s \in Settings : TRUE))
    /\ Cuts!Init /\ Release!Init /\ Screen!Init /\ Dialog!Init

InCalls(A) == scene = "calls" /\ A /\ UNCHANGED <<scene, login, run, arg, beside>>
InLogin(A) == scene = "login" /\ A /\ UNCHANGED <<scene, calls, run, arg, beside>>

Beside ==
    \/ scene = "launch" /\ Shim!Next /\ UNCHANGED <<tool, cuts, release, screen, dialog>>
    \/ scene = "mcp" /\ Tool!Next /\ UNCHANGED <<launch, cuts, release, screen, dialog>>
    \/ scene = "cuts" /\ Cuts!Next /\ UNCHANGED <<launch, tool, release, screen, dialog>>
    \/ scene = "release" /\ Release!Next /\ UNCHANGED <<launch, tool, cuts, screen, dialog>>
    \/ scene = "screen" /\ Screen!Next /\ UNCHANGED <<launch, tool, cuts, release, dialog>>
    \/ scene = "import" /\ Dialog!Next /\ UNCHANGED <<launch, tool, cuts, release, screen>>

Next ==
    \/ InCalls(Calls!Next)
    \/ InLogin(Login!Next)
    \/ scene = "run" /\ Run!Next /\ UNCHANGED <<scene, calls, login, arg, beside>>
    \/ scene = "argument" /\ Line!Next /\ UNCHANGED <<scene, calls, login, run, beside>>
    \/ Beside /\ UNCHANGED <<scene, prk>>

Spec == Init /\ [][Next]_vars

-----------------------------------------------------------------------------
(* A request that mints a credential, or that names a revision, changes the  *)
(* server at most once.                                                      *)
AppliedOnce == Calls!AppliedOnce

(* What a command reports is so: a write reported as done was done, and one  *)
(* reported as refused, at its first try, was not.                           *)
OutcomesAreTrue == Calls!SuccessIsTheServers /\ Calls!DefiniteFailuresChangeNothing

(* Only this login's redirect ends its wait, and the session that comes of   *)
(* it is stored, revoked or reported; it times out at its deadline, not      *)
(* before, and later only for a connection that keeps sending.               *)
LoginsEndAsTheyShould ==
    Login!OnlyItsOwnRedirect /\ Login!NoSessionIsForgotten /\ Login!DeadlineIsKept

(* A program gets what it was to be given or is not started -- an argument   *)
(* of a batch file as well --, does not outlive prk, and answers Ctrl-C      *)
(* itself.                                                                   *)
ProgramsStartCleanAndEnd ==
    /\ Run!StartsClean /\ Run!NothingOutlivesPrk /\ Run!CtrlCIsTheProgramsToHandle
    /\ Line!ArgumentsSurvive

(* The launcher ends as the program it runs.                                 *)
EndsAsTheProgram == scene = "launch" => Shim!EndsAsTheProgram

(* With a pin, the MCP server writes nowhere but at the pinned deployment,   *)
(* short of a name that moves after it was seen to match; what a tool says   *)
(* it did is so; and no file or stored value gets out unasked, nor the value *)
(* a set submits, but in the code or the request id of an error.             *)
WritesLandWhereSaid ==
    scene = "mcp" =>
        Tool!PinnedWritesLandAtHome /\ Tool!WhatIsSaidIsSo /\ Tool!ValuesAndFilesStayIn

(* A number is released once; and what is live is complete, and has a tag.   *)
ReleasesAreComplete ==
    /\ scene = "cuts" => Cuts!NoNumberIsReused
    /\ scene = "release" => Release!LiveIsComplete /\ Release!OnlyTagsRelease

(* The only copy of a secret stays on the page until its user has stored it, *)
(* is long away, or had asked for another before it appeared; a grant is     *)
(* made on an environment of the project that is chosen; and an import does  *)
(* what its preview has shown.                                               *)
PagesDoAsTheyShow ==
    /\ [](Screen!SecretsAreWiped /\ Screen!EnvironmentsBelong) /\ Screen!OnlyEarlierRequestsReplace
    /\ [](scene = "import" => Dialog!ImportsDoAsPreviewed)
=============================================================================
