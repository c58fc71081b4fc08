------------------------------- MODULE MCTools -------------------------------
(* What TLC alone can check, one part at a time: that what is begun ends,    *)
(* for a client that calls the server twice, for a login, and for requests   *)
(* that race to write secrets; and the readers of .env files and the GitHub  *)
(* action, which recur on what they read. A scene is one of them; the state  *)
(* of the others stays what it is at their start.                            *)
EXTENDS Naturals, Sequences, FiniteSets, TLC

CONSTANTS Client, MaxRetries, MaxCalls, MaxFaults,
          Deadline, ReadTimeout, MaxTime, MaxConnections, MaxBytes,
          MaxText, MaxValue, Texts, Values,
          Version, Admits, Tags, Sound, Inputs, Environment, Delimiters, MaxAttempts,
          Writer, Key, Value, MaxSecrets, NoValue, MaxRev, MaxEnv

VARIABLES scene,
          made, rev, applied, call, flight, reply, faults,
          stage, walk, loop, paste, channel, arrival, backlog, visits, clock, bytes,
          grant, session,
          file, exported, imported, scanned,
          inputs, latest, step, staged, installed, secrets, masks, warned, draws, envFile,
          outFile,
          env, versions, current, audit, req, etag, answer

Calls == INSTANCE ApiCalls
Login == INSTANCE SignIn
Env == INSTANCE Dotenv
Job == INSTANCE Action

(* What is sent to the store: a little of everything; the cap of one refuses *)
(* two keys.                                                                 *)
Body(mode, set, guarded) ==
    [kind |-> "write", mode |-> mode, set |-> set, delete |-> {}, guarded |-> guarded]
Bodies ==
    {Body("merge", "a" :> "x", FALSE), Body("merge", "a" :> "x", TRUE),
     Body("replace", "b" :> "x", FALSE), Body("merge", ("a" :> "x") @@ ("b" :> "x"), FALSE)}
    \union [kind : {"rename"}, old : {"a"}, new : {"b"}]
    \union [kind : {"rollback"}, key : {"a"}, to : {1}]
    \union [kind : {"list", "delete_env", "create_env"}]
Store == INSTANCE SecretStore WITH Client <- Writer, Inputs <- Bodies

calls == <<made, rev, applied, call, flight, reply, faults>>
login == <<stage, walk, loop, paste, channel, arrival, backlog, visits, clock, bytes,
           grant, session>>
dotenv == <<file, exported, imported, scanned>>
job == <<inputs, latest, step, staged, installed, secrets, masks, warned, draws, envFile,
         outFile>>
store == <<env, versions, current, audit, req, etag, answer>>

vars == <<scene, calls, login, dotenv, job, store>>

(* The texts, values and inputs that are tried; most vary one entry of a     *)
(* good one.                                                                 *)
Symbol == {"x", "eq", "dq", "sq", "bs", "nl", "cr", "sp", "hash"}
Quoting == {"x", "eq", "dq", "bs", "nl"}
MCTexts ==
    {<<>>, <<"export", "sp", "x", "eq", "x">>, <<"export", "eq", "x">>, <<"-", "eq", "x">>}
    \union {<<"x", "eq">> \o t : t \in UNION {[1..n -> Symbol] : n \in 0..MaxText}}
    \union {<<"x", "eq">> \o t : t \in [1..(MaxText + 2) -> Quoting]}
MCValues == UNION {[1..n -> {"n", "dq", "bs", "nl", "cr", "bell", "sq", "sp"}] : n \in 0..MaxValue}

GoodInputs ==
    [url |-> "https", token |-> TRUE, project |-> TRUE, prefix |-> "",
     exportTo |-> "env", mask |-> "", allowUnsafe |-> FALSE, allowlist |-> {},
     version |-> "", actionRef |-> "main"]
MCInputs ==
    {GoodInputs,
     [GoodInputs EXCEPT !.mask = "off", !.exportTo = "outputs", !.allowlist = {"A"}],
     [GoodInputs EXCEPT !.mask = "enabled"], [GoodInputs EXCEPT !.url = "http"],
     [GoodInputs EXCEPT !.prefix = "GITHUB_", !.version = "v1", !.allowUnsafe = TRUE],
     [GoodInputs EXCEPT !.prefix = "APP_", !.version = "../prick"],
     [GoodInputs EXCEPT !.version = "caret", !.actionRef = "v1"],
     [GoodInputs EXCEPT !.version = "next"], [GoodInputs EXCEPT !.version = "latest"],
     [GoodInputs EXCEPT !.prefix = "TOO_LONG_", !.actionRef = "v2", !.exportTo = "outputs"]}
MCAdmits == "caret" :> {"v2", "v3"}
MCLines == {"a", "blank", "d1"}
MCEnvironment ==
    {[k \in {"A"} |-> t] : t \in UNION {[1..n -> MCLines] : n \in 1..3}}
    \union {[k \in {"A", "PATH", "BAD-NAME"} |-> IF k = "A" THEN <<"a", "d1">> ELSE <<"b">>]}
    \union {[k \in {"A", "B"} |-> IF k = "A" THEN t ELSE <<"d1", "b">>] :
               t \in [1..2 -> MCLines]}

(* The start of a scene, or of one that stays still.                         *)
Init ==
    /\ scene \in {"calls", "login", "dotenv", "action", "store"}
    /\ scene # "dotenv" => file = <<>>
    /\ scene # "action" => inputs = GoodInputs
    /\ scene # "action" => latest = CHOOSE v \in Version : TRUE
    /\ Calls!Init /\ (scene = "calls" \/ ~made)
    /\ Login!Init /\ Env!Init /\ Job!Init /\ Store!Init

InCalls(A) == scene = "calls" /\ A /\ UNCHANGED <<scene, login, dotenv, job, store>>
InLogin(A) == scene = "login" /\ A /\ UNCHANGED <<scene, calls, dotenv, job, store>>
InStore(A) == scene = "store" /\ A /\ UNCHANGED <<scene, calls, login, dotenv, job>>

Next ==
    \/ InCalls(Calls!Next)
    \/ InLogin(Login!Next)
    \/ scene = "dotenv" /\ Env!Next /\ UNCHANGED <<scene, calls, login, job, store>>
    \/ scene = "action" /\ Job!Next /\ UNCHANGED <<scene, calls, login, dotenv, store>>
    \/ InStore(Store!Next)

(* The fairness of Calls, of Login and of the store, in their scenes.        *)
Fairness ==
    /\ \A c \in Client : /\ WF_vars(InCalls(Calls!Receive(c)))
                         /\ WF_vars(InCalls(Calls!Expire(c)))
    /\ WF_vars(InLogin(Login!Command))
    /\ WF_vars(InLogin(Login!Loopback))
    /\ WF_vars(InLogin(Login!Tick))
    /\ \A c \in Writer : WF_vars(InStore(Store!Step(c)))

Spec == Init /\ [][Next]_vars /\ Fairness

-----------------------------------------------------------------------------
(* What is begun ends: every call of prk and every login; and every request  *)
(* of the store is answered, for one that lost a race is tried again once at *)
(* most.                                                                     *)
WhatIsBegunEnds ==
    /\ Calls!EveryCommandEnds
    /\ scene = "login" ~> Login!Over
    /\ Store!EveryRequestAnswered

(* What was written reads back: the two readers of .env files agree, and     *)
(* read what is exported.                                                    *)
WhatIsWrittenReadsBack ==
    scene = "dotenv" => Env!ReadersAgree /\ Env!ExportsReadBack

(* The prk of a job is one whose provenance was verified; and the job's      *)
(* later steps get the values as they are, and none unmasked.                *)
SecretsArriveAndOnlyThey ==
    scene = "action" => /\ Job!OnlyVerifiedVersionsRun
                        /\ Job!FilesReadBackAsPlanned /\ Job!NothingIsWrittenUnmasked
=============================================================================
