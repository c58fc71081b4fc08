------------------------------ MODULE Launcher -------------------------------
(* The launcher npm installs as prk (packages/npm/prick/bin/prk.js): it      *)
(* finds the platform's package, holds the signals a terminal or a           *)
(* supervisor sends, runs the binary, and ends as the binary ended.          *)
(*                                                                           *)
(* Signals come from outside: to both processes (a terminal's), or to one.   *)
(* A held signal is never passed on: spawnSync blocks the loop that would    *)
(* deliver it, and nobody listens any more when it returns.                  *)
EXTENDS Naturals

CONSTANTS Host,      \* Kinds of machine.
          Package,   \* The platform packages.
          Codes,     \* Exit codes of the program.
          MaxSignals \* Bound on the signals sent.

VARIABLES machine, \* The host, what is installed on it and whether libc is detected.
          shim,    \* The launcher: where it is, the signals it holds, how it ended.
          program, \* The binary, and how it ended.
          late,    \* Whether a signal reached the launcher after the program ended.
          signals  \* How many were sent.

vars == <<machine, shim, program, late, signals>>

Signals == {"INT", "TERM", "HUP", "KILL", "PIPE"}
IgnoredByNode == {"PIPE"}

Exit(n) == [how |-> "exit", code |-> n, signal |-> "none"]
Killed(s) == [how |-> "signal", code |-> 0, signal |-> s]
NotYet == [how |-> "not yet", code |-> 0, signal |-> "none"]

(* 128 and the signal's number.                                              *)
NumberOf(s) == CASE s = "HUP" -> 1 [] s = "INT" -> 2 [] s = "KILL" -> 9
                 [] s = "PIPE" -> 13 [] s = "TERM" -> 15

Init ==
    /\ machine \in [host : Host, installed : SUBSET Package, detects : BOOLEAN]
    /\ shim = [at |-> "start", held |-> {}, end |-> NotYet]
    /\ program = [at |-> "none", end |-> NotYet]
    /\ late = FALSE
    /\ signals = 0

-----------------------------------------------------------------------------
(* Where libc is not detected it is taken for glibc.                         *)
DetectTarget(m) ==
    CASE m.host = "glibc" -> {"linux-gnu"}
      [] m.host = "musl" -> IF m.detects THEN {"linux-musl"} ELSE {"linux-gnu"}
      [] m.host = "darwin" -> {"darwin"}
      [] m.host = "other" -> {}

ResolveBinary(m) == DetectTarget(m) \intersect m.installed

Held == {"INT", "TERM", "HUP"}

Ends(end) == shim' = [shim EXCEPT !.at = "ended", !.end = end]

Main ==
    /\ shim.at = "start"
    /\ IF ResolveBinary(machine) = {} THEN Ends(Exit(127))
       ELSE shim' = [shim EXCEPT !.at = "spawn", !.held = Held]
    /\ UNCHANGED <<machine, program, late, signals>>

(* A binary for another libc, or one that may not be executed, does not      *)
(* start.                                                                    *)
Spawn ==
    /\ shim.at = "spawn"
    /\ \/ /\ program' = [program EXCEPT !.at = "running"]
          /\ shim' = [shim EXCEPT !.at = "waits"]
       \/ Ends(Exit(126)) /\ UNCHANGED program
    /\ UNCHANGED <<machine, late, signals>>

ProgramEnds(end) == program' = [at |-> "ended", end |-> end]

Finish ==
    /\ program.at = "running"
    /\ \E c \in Codes : ProgramEnds(Exit(c))
    /\ UNCHANGED <<machine, shim, late, signals>>

(* spawnSync returns, and the listeners are removed.                         *)
Return ==
    /\ shim.at = "waits" /\ program.at = "ended"
    /\ shim' = [shim EXCEPT !.at = "raise", !.held = {}]
    /\ UNCHANGED <<machine, program, late, signals>>

(* The signal is raised again; if that does not end the launcher, and else,  *)
(* it exits with a number.                                                   *)
Conclusion(end) ==
    IF end.how = "signal" /\ end.signal \in IgnoredByNode
    THEN Exit(128 + NumberOf(end.signal)) ELSE end

(* The mistake of always translating.                                        *)
RaiseTranslated ==
    /\ shim.at = "raise"
    /\ Ends(IF program.end.how = "signal" THEN Exit(128 + NumberOf(program.end.signal))
            ELSE program.end)
    /\ UNCHANGED <<machine, program, late, signals>>

Raise ==
    /\ shim.at = "raise"
    /\ Ends(Conclusion(program.end))
    /\ UNCHANGED <<machine, program, late, signals>>

-----------------------------------------------------------------------------
(* The launcher dies of a signal it neither holds nor ignores.               *)
ShimTakes(s) ==
    IF s \in shim.held \union IgnoredByNode \/ shim.at = "ended" THEN UNCHANGED <<shim, late>>
    ELSE Ends(Killed(s)) /\ late' = (late \/ program.at # "running")

(* The program dies of it, handles it or, but for KILL, does nothing.        *)
ProgramTakes(s) ==
    \/ program.at = "running" /\ ProgramEnds(Killed(s))
    \/ program.at = "running" /\ s # "KILL" /\ \E c \in Codes : ProgramEnds(Exit(c))
    \/ (program.at # "running" \/ s # "KILL") /\ UNCHANGED program

Signal ==
    /\ signals < MaxSignals
    /\ \E s \in Signals :
           \/ ShimTakes(s) /\ ProgramTakes(s)
           \/ ShimTakes(s) /\ UNCHANGED program
           \/ ProgramTakes(s) /\ UNCHANGED <<shim, late>>
    /\ signals' = signals + 1
    /\ UNCHANGED machine

Next == Main \/ Spawn \/ Finish \/ Return \/ Raise \/ Signal

Spec == Init /\ [][Next]_vars

-----------------------------------------------------------------------------
(* The launcher does not end while its program runs, unless it is killed;    *)
(* and whoever waits for it sees the program's own end, a signal as that     *)
(* signal, unless another signal came in between the two ends.               *)
EndsAsTheProgram ==
    shim.at = "ended" /\ program.at # "none" /\ ~late =>
        IF program.at = "running" THEN shim.end = Killed("KILL")
        ELSE \/ shim.end = Killed("KILL")
             \/ shim.end = program.end /\ program.end.signal \notin IgnoredByNode
             \/ /\ program.end.signal \in IgnoredByNode
                /\ shim.end = Exit(128 + NumberOf(program.end.signal))
=============================================================================
