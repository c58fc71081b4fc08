------------------------------ MODULE RunChild ------------------------------
(* `prk run`: which of an environment's secrets reach the program, how it is *)
(* started, and how prk and the program end together. On Unix prk becomes    *)
(* the program. On Windows it starts it, puts it into a job that dies with   *)
(* prk, leaves Ctrl-C to it, and answers with its status.                    *)
EXTENDS Naturals, FiniteSets

CONSTANTS Status,       \* what a program may exit with
          MaxEvents     \* how often Ctrl-C is pressed

VARIABLES setting,   \* the platform, the flags and the environment's keys
          phase,     \* how far prk has come
          status,    \* what prk has exited with
          env,       \* the secrets in the program's environment
          proc,      \* the processes: the program and what it starts
          job,       \* the processes of the job
          program,   \* how the program has ended, and the signals it started with
          events     \* Ctrl-C, so far

vars == <<setting, phase, status, env, proc, job, program, events>>

-----------------------------------------------------------------------------
(* Key names, by what prk makes of them: ones that prk itself reads, ones    *)
(* that decide what code a program runs before it starts -- in capitals, and *)
(* in another case, which is the same name on Windows --, ones that are not  *)
(* names for a variable, and the rest.                                       *)
Key == {"plain", "prk", "loader", "Loader", "bad"}

IsPrkVar(key) == key = "prk"             \* PRK_VARS
IsValid(key) == key # "bad"
IsLoaderControlled(key) == key = "loader"    \* compared exactly

(* skip_prk_vars: left out with a warning, unless asked for.                 *)
Kept(keys, allowPrkVars) == {k \in keys : allowPrkVars \/ ~IsPrkVar(k)}

(* LaunchSpec::with_secrets: one refused name refuses the launch.            *)
Refused(key, allowUnsafe) ==
    ~IsValid(key) \/ (~allowUnsafe /\ IsLoaderControlled(key))

Allowed(keys, allowUnsafe) == \A k \in keys : ~Refused(k, allowUnsafe)

(* CliError::exit_code: a refused variable is an invalid input, any other    *)
(* error has its LaunchError's.                                              *)
ExitCode(error) ==
    CASE error = "Guard" -> 11
      [] error = "NotFound" -> 127
      [] error \in {"PermissionDenied", "NoExecFormat"} -> 126
      [] OTHER -> 1

-----------------------------------------------------------------------------
Process == {"program", "early", "late"}   \* early: started before the program is in the job

Init ==
    /\ setting \in [platform : {"unix", "windows"}, allowPrkVars : BOOLEAN,
                    allowUnsafe : BOOLEAN, keys : SUBSET Key]
    /\ phase = "export"
    /\ status = 0
    /\ env = {}
    /\ proc = [p \in Process |-> "none"]
    /\ job = {}
    /\ program = [code |-> 0, killed |-> FALSE, sigpipe |-> "ignored", masked |-> TRUE]
    /\ events = 0

Running == phase \in {"export", "launch", "handler", "job", "spawn", "assign", "wait"}

Exit(code) ==
    /\ phase' = "exited"
    /\ status' = code

(* The session, the scope and the one request for the whole environment.     *)
Export ==
    /\ phase = "export"
    /\ LET keys == Kept(setting.keys, setting.allowPrkVars) IN
       \/ \E code \in 3 .. 11 : Exit(code) /\ UNCHANGED env
       \/ /\ Allowed(keys, setting.allowUnsafe)
          /\ phase' = "launch"
          /\ env' = keys
          /\ UNCHANGED status
       \/ /\ ~Allowed(keys, setting.allowUnsafe)
          /\ Exit(ExitCode("Guard"))
          /\ UNCHANGED env
    /\ UNCHANGED <<setting, proc, job, program, events>>

(* Unix: the signals are reset between fork and exec, and the program takes  *)
(* prk's place.                                                              *)
Exec ==
    /\ phase = "launch" /\ setting.platform = "unix"
    /\ \/ /\ phase' = "became"
          /\ proc' = [proc EXCEPT !["program"] = "alive"]
          /\ program' = [program EXCEPT !.sigpipe = "default", !.masked = FALSE]
          /\ UNCHANGED status
       \/ /\ \E error \in {"NotFound", "PermissionDenied", "NoExecFormat", "Io"} :
                Exit(ExitCode(error))
          /\ UNCHANGED <<proc, program>>
    /\ UNCHANGED <<setting, env, job, events>>

(* Windows: the program is found, a batch file by way of cmd.exe.            *)
Resolve ==
    /\ phase = "launch" /\ setting.platform = "windows"
    /\ \/ phase' = "handler" /\ UNCHANGED status
       \/ \E error \in {"NotFound", "CommandLine"} : Exit(ExitCode(error))
    /\ UNCHANGED <<setting, env, proc, job, program, events>>

InstallHandler ==
    /\ phase = "handler"
    /\ \/ phase' = "job" /\ UNCHANGED status
       \/ Exit(ExitCode("Io"))
    /\ UNCHANGED <<setting, env, proc, job, program, events>>

CreateJob ==
    /\ phase = "job"
    /\ \/ phase' = "spawn" /\ UNCHANGED status
       \/ Exit(ExitCode("Io"))
    /\ UNCHANGED <<setting, env, proc, job, program, events>>

Spawn ==
    /\ phase = "spawn"
    /\ \/ /\ phase' = "assign"
          /\ proc' = [proc EXCEPT !["program"] = "alive"]
          /\ UNCHANGED status
       \/ /\ \E error \in {"NotFound", "PermissionDenied", "NoExecFormat", "Io"} :
                Exit(ExitCode(error))
          /\ UNCHANGED proc
    /\ UNCHANGED <<setting, env, job, program, events>>

AssignOrLeave ==
    /\ phase = "assign"
    /\ \/ phase' = "wait" /\ job' = {"program"} /\ UNCHANGED status
       \/ Exit(ExitCode("Io")) /\ UNCHANGED job
    /\ UNCHANGED <<setting, env, proc, program, events>>

(* The program may end, and may have started others, before it is assigned.  *)
(* An assignment that fails kills the program, and nothing else.             *)
Assign ==
    /\ phase = "assign"
    /\ \/ /\ phase' = "wait"
          /\ job' = IF proc["program"] = "alive" THEN {"program"} ELSE {}
          /\ UNCHANGED <<status, proc, program>>
       \/ /\ Exit(ExitCode("Io"))
          /\ proc' = [proc EXCEPT !["program"] = "dead"]
          /\ program' = [program EXCEPT !.killed = (proc["program"] = "alive")]
          /\ UNCHANGED job
    /\ UNCHANGED <<setting, env, events>>

(* The last handle to the job closes, and what is in it dies.                *)
CloseJob ==
    /\ proc' = [p \in Process |-> IF p \in job /\ proc[p] = "alive" THEN "dead" ELSE proc[p]]
    /\ program' = [program EXCEPT !.killed = @ \/ ("program" \in job
                                                   /\ proc["program"] = "alive")]
    /\ job' = {}

Wait ==
    /\ phase = "wait"
    /\ proc["program"] = "dead"
    /\ Exit(program.code)
    /\ CloseJob
    /\ UNCHANGED <<setting, env, events>>

-----------------------------------------------------------------------------
(* The program, and the world around the two.                                *)

ProgramExits(code) ==
    /\ proc["program"] = "alive"
    /\ proc' = [proc EXCEPT !["program"] = "dead"]
    /\ program' = [program EXCEPT !.code = code]
    /\ UNCHANGED <<setting, phase, status, env, job, events>>

(* What a member of the job starts is a member of the job.                   *)
ProgramStarts ==
    /\ proc["program"] = "alive"
    /\ LET p == IF "program" \in job THEN "late" ELSE "early" IN
       /\ proc[p] = "none"
       /\ proc' = [proc EXCEPT ![p] = "alive"]
       /\ job' = IF "program" \in job THEN job \cup {p} ELSE job
    /\ UNCHANGED <<setting, phase, status, env, program, events>>

(* Ctrl-C goes to every process of the console. prk leaves it to the program,*)
(* which may end, at once or later, or carry on.                             *)
Handled == phase \notin {"export", "launch", "handler"}

Die(code) ==
    /\ Exit(code)
    /\ CloseJob

CtrlC ==
    /\ setting.platform = "windows" /\ Running
    /\ events < MaxEvents
    /\ events' = events + 1
    /\ IF Handled THEN UNCHANGED <<phase, status, proc, job, program>> ELSE Die(130)
    /\ UNCHANGED <<setting, env>>

(* The window is closed, the session ends, or prk is killed.                 *)
Killed ==
    /\ setting.platform = "windows" /\ Running
    /\ phase' = "killed"
    /\ status' = 1
    /\ CloseJob
    /\ UNCHANGED <<setting, env, events>>

Next ==
    \/ Export \/ Exec \/ Resolve \/ InstallHandler \/ CreateJob \/ Spawn \/ Assign \/ Wait
    \/ \E code \in Status : ProgramExits(code)
    \/ ProgramStarts \/ CtrlC \/ Killed

Spec == Init /\ [][Next]_vars

-----------------------------------------------------------------------------
(* The program starts with all the secrets it was to be given or not at all, *)
(* none of them one that prk or a loader would follow unasked; and with the  *)
(* signals of a program started from a shell, not those of prk's runtime.    *)
StartsClean ==
    proc["program"] # "none" =>
        /\ env = {k \in setting.keys : setting.allowPrkVars \/ k # "prk"}
        /\ "bad" \notin env
        /\ setting.allowUnsafe \/ "loader" \notin env
        /\ setting.platform = "unix" => program.sigpipe = "default" /\ ~program.masked

(* Nothing that the program has started outlives prk, however prk ends --    *)
(* but for what it started before it was in the job.                         *)
NothingOutlivesPrk ==
    setting.platform = "windows" /\ ~Running =>
        \A p \in Process : proc[p] = "alive" => p = "early" \/ (p = "program" /\ phase = "killed")

(* Ctrl-C is for the program to act on: prk neither ends before the program  *)
(* nor takes it along, and then answers with the program's own status.       *)
CtrlCIsTheProgramsToHandle ==
    phase = "exited" /\ setting.platform = "windows" /\ proc["program"] # "none" =>
        \/ ~program.killed /\ status = program.code
        \/ job = {} /\ status = ExitCode("Io")
=============================================================================
