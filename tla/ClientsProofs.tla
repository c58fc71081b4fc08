---------------------------- MODULE ClientsProofs ----------------------------
(***************************************************************************)
(* Proofs about what is on the other side of the API, each part one scene  *)
(* of MCClients: clients that call the server through an edge that loses,  *)
(* delays and makes up answers; a login; a program run with secrets; an    *)
(* argument of a batch file, of any length, which three folds read; the    *)
(* launcher; the MCP server; the cutting and the publishing of a release;  *)
(* and two screens of the web interface.  The theorems come last, each     *)
(* from the invariant of its scene.                                        *)
(***************************************************************************)
EXTENDS MCClients, FiniteSetTheorems, SequenceTheorems, WellFoundedInduction, TLAPS

-----------------------------------------------------------------------------
(* `prk run`. *)

Given == {k \in setting.keys : setting.allowPrkVars \/ k # "prk"}
Windows == setting.platform = "windows"
Living(p) == proc[p] = "alive"

(* The secrets are settled before the program is started, and the program's  *)
(* signals with its start.                                                   *)
SecretsSettled ==
    phase \notin {"export", "exited", "killed"} \/ proc["program"] # "none" =>
        /\ env = Given
        /\ "bad" \notin env
        /\ setting.allowUnsafe \/ "loader" \notin env

SignalsSettled ==
    /\ phase = "became" => program.sigpipe = "default" /\ ~program.masked
    /\ ~Windows => phase \in {"export", "launch", "became", "exited"}
    /\ Windows => phase # "became"

(* Who is alive, and in the job, at each place of prk.                       *)
ProcessesPlaced ==
    /\ phase \in {"export", "launch", "handler", "job", "spawn"} =>
          \A p \in Run!Process : proc[p] = "none"
    /\ ~Windows /\ phase = "exited" => \A p \in Run!Process : proc[p] = "none"
    /\ Windows /\ Living("program") => phase \in {"assign", "wait", "killed"}
    /\ phase = "wait" /\ Living("program") => "program" \in job
    /\ phase # "wait" => job = {}
    /\ Living("late") => ~Windows \/ (phase = "wait" /\ "late" \in job)

StatusSettled ==
    /\ program.killed => phase \in {"exited", "killed"}
    /\ phase = "exited" /\ Windows /\ proc["program"] # "none" =>
          (~program.killed /\ status = program.code) \/ status = 1

RunInv ==
    /\ setting.platform \in {"unix", "windows"}
    /\ DOMAIN proc = Run!Process
    /\ \E code, killed, sigpipe, masked :
          program = [code |-> code, killed |-> killed, sigpipe |-> sigpipe, masked |-> masked]
    /\ program.killed \in BOOLEAN
    /\ phase \in {"export", "launch", "handler", "job", "spawn", "assign", "wait", "became",
                  "exited", "killed"}
    /\ job \subseteq Run!Process
    /\ SecretsSettled /\ SignalsSettled /\ ProcessesPlaced /\ StatusSettled

LEMMA RunInit == Run!Init => RunInv
<1> SUFFICES ASSUME Run!Init PROVE RunInv
  OBVIOUS
<1>1. setting.platform \in {"unix", "windows"} /\ DOMAIN proc = Run!Process
  BY DEF Run!Init
<1>2. program = [code |-> 0, killed |-> FALSE, sigpipe |-> "ignored", masked |-> TRUE]
  BY DEF Run!Init
<1>3. phase = "export" /\ job = {} /\ \A p \in Run!Process : proc[p] = "none"
  BY DEF Run!Init
<1>4. "program" \in Run!Process /\ "late" \in Run!Process
  BY DEF Run!Process
<1>5. SecretsSettled /\ SignalsSettled /\ ProcessesPlaced /\ StatusSettled
  BY <1>2, <1>3, <1>4 DEF SecretsSettled, SignalsSettled, ProcessesPlaced, StatusSettled,
     Living
<1> QED
  BY <1>1, <1>2, <1>3, <1>5 DEF RunInv

LEMMA RunAnswers ==
    RunInv => Run!StartsClean /\ Run!NothingOutlivesPrk /\ Run!CtrlCIsTheProgramsToHandle
<1> SUFFICES ASSUME RunInv
             PROVE  Run!StartsClean /\ Run!NothingOutlivesPrk /\ Run!CtrlCIsTheProgramsToHandle
  OBVIOUS
<1>1. Run!StartsClean
  BY DEF RunInv, Run!StartsClean, SecretsSettled, SignalsSettled, ProcessesPlaced, Given,
         Windows, Living, Run!Process
<1>2. Run!NothingOutlivesPrk
  BY DEF RunInv, Run!NothingOutlivesPrk, Run!Running, ProcessesPlaced, Windows, Living,
         Run!Process
<1>3. Run!CtrlCIsTheProgramsToHandle
  BY DEF RunInv, Run!CtrlCIsTheProgramsToHandle, StatusSettled, ProcessesPlaced, Windows,
         Run!ExitCode
<1> QED
  BY <1>1, <1>2, <1>3

LEMMA RunStep == RunInv /\ Run!Next => RunInv'
<1> SUFFICES ASSUME RunInv, Run!Next PROVE RunInv'
  OBVIOUS
<1> USE DEF RunInv, Windows, Living, Run!Process
<1>1. CASE Run!Export
  BY <1>1 DEF Run!Export, Run!Exit, Run!Kept, Run!Allowed, Run!Refused, Run!IsValid,
     Run!IsPrkVar, Run!IsLoaderControlled, SecretsSettled, SignalsSettled,
     ProcessesPlaced, StatusSettled, Given
<1>2. CASE Run!Exec
  <2>1. CASE UNCHANGED <<proc, program>>
    BY <1>2, <2>1 DEF Run!Exec, Run!Exit, SecretsSettled, SignalsSettled, ProcessesPlaced,
                      StatusSettled, Given
  <2>2. CASE ~UNCHANGED <<proc, program>>
    <3>1. /\ phase = "launch" /\ phase' = "became" /\ setting.platform = "unix"
          /\ proc' = [proc EXCEPT !["program"] = "alive"]
          /\ program' = [program EXCEPT !.sigpipe = "default", !.masked = FALSE]
          /\ UNCHANGED <<status, setting, env, job>>
      BY <1>2, <2>2 DEF Run!Exec
    <3>2. program'.sigpipe = "default" /\ ~program'.masked /\ program'.killed = program.killed
      BY <3>1
    <3>3. \E code, killed, sigpipe, masked :
             program' = [code |-> code, killed |-> killed, sigpipe |-> sigpipe,
                         masked |-> masked]
      BY <3>1
    <3>4. SecretsSettled' /\ SignalsSettled' /\ ProcessesPlaced' /\ StatusSettled'
      BY <3>1, <3>2 DEF SecretsSettled, SignalsSettled, ProcessesPlaced, StatusSettled, Given
    <3> QED
      BY <3>1, <3>2, <3>3, <3>4
  <2> QED
    BY <2>1, <2>2
<1>3. CASE Run!Resolve
  BY <1>3 DEF Run!Resolve, Run!Exit, SecretsSettled, SignalsSettled, ProcessesPlaced,
     StatusSettled, Given
<1>4. CASE Run!InstallHandler
  BY <1>4 DEF Run!InstallHandler, Run!Exit, SecretsSettled, SignalsSettled, ProcessesPlaced,
     StatusSettled, Given
<1>5. CASE Run!CreateJob
  BY <1>5 DEF Run!CreateJob, Run!Exit, SecretsSettled, SignalsSettled, ProcessesPlaced,
     StatusSettled, Given
<1>6. CASE Run!Spawn
  BY <1>6 DEF Run!Spawn, Run!Exit, SecretsSettled, SignalsSettled, ProcessesPlaced,
     StatusSettled, Given
<1>7. CASE Run!Assign
  <2>1. CASE phase' = "wait"
    BY <1>7, <2>1 DEF Run!Assign, Run!Exit, SecretsSettled, SignalsSettled, ProcessesPlaced,
                      StatusSettled, Given
  <2>2. CASE phase' # "wait"
    <3>1. /\ phase = "assign" /\ phase' = "exited" /\ status' = 1
          /\ proc' = [proc EXCEPT !["program"] = "dead"]
          /\ program' = [program EXCEPT !.killed = (proc["program"] = "alive")]
          /\ UNCHANGED <<setting, env, job>>
      BY <1>7, <2>2 DEF Run!Assign, Run!Exit, Run!ExitCode
    <3>2. program'.killed \in BOOLEAN
      BY <3>1
    <3>3. \E code, killed, sigpipe, masked :
             program' = [code |-> code, killed |-> killed, sigpipe |-> sigpipe,
                         masked |-> masked]
      BY <3>1
    <3>4. SecretsSettled' /\ SignalsSettled' /\ ProcessesPlaced' /\ StatusSettled'
      BY <3>1 DEF SecretsSettled, SignalsSettled, ProcessesPlaced, StatusSettled, Given
    <3> QED
      BY <3>1, <3>2, <3>3, <3>4
  <2> QED
    BY <2>1, <2>2
<1>8. CASE Run!Wait
  BY <1>8 DEF Run!Wait, Run!Exit, Run!CloseJob, SecretsSettled, SignalsSettled,
     ProcessesPlaced, StatusSettled, Given
<1>9. ASSUME NEW code \in ExitCodes, Run!ProgramExits(code) PROVE RunInv'
  BY <1>9 DEF Run!ProgramExits, SecretsSettled, SignalsSettled, ProcessesPlaced,
     StatusSettled, Given
<1>10. CASE Run!ProgramStarts
  BY <1>10 DEF Run!ProgramStarts, SecretsSettled, SignalsSettled, ProcessesPlaced,
     StatusSettled, Given
<1>11. CASE Run!CtrlC
  BY <1>11 DEF Run!CtrlC, Run!Running, Run!Handled, Run!Die, Run!Exit, Run!CloseJob,
     SecretsSettled, SignalsSettled, ProcessesPlaced, StatusSettled, Given
<1>12. CASE Run!Killed
  BY <1>12 DEF Run!Killed, Run!Running, Run!CloseJob, SecretsSettled, SignalsSettled,
     ProcessesPlaced, StatusSettled, Given
<1> QED
  BY <1>1, <1>2, <1>3, <1>4, <1>5, <1>6, <1>7, <1>8, <1>9, <1>10, <1>11, <1>12 DEF Run!Next

-----------------------------------------------------------------------------
(* `prk login`. *)

Before == {"probe", "resource", "server", "bind", "register", "open"}
Codes == {"exchange", "check", "revoke", "save", "record"}
OfThisLogin == {"genuine", "refused", "timeout"}

(* The wait ends by an answer of one of the two threads; the loopback thread *)
(* answers with this login's redirect or at the deadline.                    *)
AnswersBelong ==
    /\ \A i \in DOMAIN channel :
          /\ channel[i].source = "loopback" => channel[i].line \in OfThisLogin
          /\ channel[i].line = "timeout" => clock >= Deadline
    /\ arrival.source = "loopback" => arrival.line \in OfThisLogin
    /\ stage \in Codes \/ session.state # "none" => arrival.line = "genuine"
    /\ stage # "wait" => channel = <<>> /\ loop.state = "off"
    /\ stage = "wait" /\ loop.state = "ended" => channel # <<>>
    /\ stage = "wait" => loop.state \in {"accepting", "reading", "ended"}

(* A session is issued in the exchange, and kept in view from then on.       *)
SessionInView ==
    /\ stage \in Before \cup {"wait"} => session.state = "none"
    /\ stage = "exchange" /\ session.state = "live" => session.lost
    /\ stage = "record" => session.state = "saved"
    /\ stage \notin Login!Ongoing /\ session.state = "live" =>
          session.lost

(* The wait is within what the deadline and the bytes sent allow, and a read *)
(* that goes on is within it to the end of what it is allowed.               *)
WithinTheDeadline ==
    /\ clock \in Nat /\ bytes \in Nat
    /\ clock <= Deadline + bytes * ReadTimeout
    /\ loop.state = "reading" =>
          /\ loop.quiet \in Nat /\ loop.allowed \in Nat
          /\ loop.quiet <= loop.allowed /\ loop.allowed <= ReadTimeout
          /\ clock + (loop.allowed - loop.quiet) <= Deadline + bytes * ReadTimeout

Answers == [line : Login!Redirect \cup {"unreadable", "timeout"}, source : {"pasted", "loopback"}]

LoginTyped ==
    /\ \E state, quiet, allowed, line :
          loop = [state |-> state, quiet |-> quiet, allowed |-> allowed, line |-> line]
    /\ \E state, held, lost : session = [state |-> state, held |-> held, lost |-> lost]
    /\ channel \in Seq(Answers)

LoginInv == LoginTyped /\ AnswersBelong /\ SessionInView /\ WithinTheDeadline

LEMMA LoginInit == Login!Init => LoginInv
<1> SUFFICES ASSUME Login!Init PROVE LoginInv
  OBVIOUS
<1>1. channel = <<>> /\ clock = 0 /\ bytes = 0 /\ stage = "probe" /\ arrival = Login!Nothing
      /\ loop = Login!Closed /\ session = [state |-> "none", held |-> FALSE, lost |-> FALSE]
  BY DEF Login!Init
<1>2. LoginTyped
  <2>1. loop = [state |-> "off", quiet |-> 0, allowed |-> 0, line |-> "other"]
    BY <1>1 DEF Login!Closed
  <2>2. channel \in Seq(Answers)
    BY <1>1
  <2> QED
    BY <1>1, <2>1, <2>2 DEF LoginTyped
<1>3. AnswersBelong
  BY <1>1 DEF AnswersBelong, Login!Nothing, Login!Closed, Codes
<1>4. SessionInView
  BY <1>1 DEF SessionInView
<1>5. 0 <= Deadline + 0 * ReadTimeout
  BY BoundsAssumption
<1>6. WithinTheDeadline
  BY <1>1, <1>5 DEF WithinTheDeadline, Login!Closed
<1> QED
  BY <1>2, <1>3, <1>4, <1>6 DEF LoginInv

LEMMA LoginAnswers ==
    LoginInv => Login!OnlyItsOwnRedirect /\ Login!NoSessionIsForgotten /\ Login!DeadlineIsKept
  BY DEF LoginInv, AnswersBelong, SessionInView, WithinTheDeadline, Login!OnlyItsOwnRedirect,
         Login!NoSessionIsForgotten, Login!DeadlineIsKept, Login!Over, OfThisLogin

(* What is asked of the deployment leaves the threads and the session alone. *)
LEMMA EarlyStep ==
    ASSUME LoginInv, stage \in Before, stage' \notin {"wait"} \cup Codes,
           UNCHANGED <<Login!threads, session>>
    PROVE  LoginInv'
<1>1. LoginTyped' /\ WithinTheDeadline'
  BY DEF LoginInv, LoginTyped, WithinTheDeadline, Login!threads
<1>2. AnswersBelong'
  BY DEF LoginInv, AnswersBelong, SessionInView, Login!threads, Before
<1>3. SessionInView'
  BY DEF LoginInv, SessionInView, Before, Codes
<1> QED
  BY <1>1, <1>2, <1>3 DEF LoginInv

LEMMA EarlySteps ==
    ASSUME LoginInv,
           \/ Login!Probe \/ Login!ReadResource \/ Login!ReadServer \/ Login!Bind \/ Login!Register
    PROVE  LoginInv'
<1>1. stage \in Before /\ UNCHANGED <<Login!threads, session>>
  BY DEF Login!Probe, Login!ReadResource, Login!ReadServer, Login!Bind, Login!Register, Before
<1>2. stage' \notin {"wait"} \cup Codes
  <2>1. CASE Login!Probe
    BY <2>1 DEF Login!Probe, Login!Fail, Codes
  <2>2. CASE Login!ReadResource
    BY <2>2 DEF Login!ReadResource, Login!Walked, Login!Fail, Codes
  <2>3. CASE Login!ReadServer
    BY <2>3 DEF Login!ReadServer, Login!Walked, Login!Fail, Codes
  <2>4. CASE Login!Bind \/ Login!Register
    BY <2>4 DEF Login!Bind, Login!Register, Login!Fail, Codes
  <2> QED
    BY <2>1, <2>2, <2>3, <2>4
<1> QED
  BY <1>1, <1>2, EarlyStep

LEMMA OpenStep ==
    ASSUME LoginInv, NEW acceptPasted, Login!Open(acceptPasted)
    PROVE  LoginInv'
<1>1. /\ stage = "open" /\ stage' = "wait"
      /\ loop' = [state |-> "accepting", quiet |-> 0, allowed |-> 0, line |-> "other"]
      /\ UNCHANGED <<channel, arrival, clock, bytes, session>>
  BY DEF Login!Open, Login!Closed
<1>2. loop'.state = "accepting"
  BY <1>1
<1>3. LoginTyped'
  BY <1>1 DEF LoginInv, LoginTyped
<1>4. AnswersBelong'
  BY <1>1, <1>2 DEF LoginInv, AnswersBelong, SessionInView, Codes, Before
<1>5. SessionInView'
  BY <1>1 DEF LoginInv, SessionInView, Before, Login!Ongoing
<1>6. WithinTheDeadline'
  BY <1>1, <1>2 DEF LoginInv, WithinTheDeadline
<1> QED
  BY <1>3, <1>4, <1>5, <1>6 DEF LoginInv

(* An answer is sent, and the thread that sent it is at its end. *)
LEMMA Sent ==
    ASSUME LoginInv, NEW answer \in Answers, channel' = Append(channel, answer),
           answer.source = "loopback" => answer.line \in OfThisLogin,
           answer.line = "timeout" => clock >= Deadline,
           stage = "wait", UNCHANGED <<stage, arrival, clock, session>>,
           loop'.state \in {"accepting", "reading", "ended"}
    PROVE  AnswersBelong' /\ SessionInView' /\ channel' \in Seq(Answers)
<1>1. channel \in Seq(Answers)
  BY DEF LoginInv, LoginTyped
<1>2. channel' \in Seq(Answers) /\ channel' # <<>>
  BY <1>1
<1>3. ASSUME NEW i \in DOMAIN channel'
      PROVE  channel'[i] = answer \/ (i \in DOMAIN channel /\ channel'[i] = channel[i])
  BY <1>1, <1>3
<1>4. AnswersBelong'
  BY <1>2, <1>3 DEF LoginInv, AnswersBelong
<1>5. SessionInView'
  BY DEF LoginInv, SessionInView
<1> QED
  BY <1>2, <1>4, <1>5

LEMMA PasteStep ==
    ASSUME LoginInv, NEW line \in Login!Line, Login!Paste(line)
    PROVE  LoginInv'
<1> DEFINE answer == [line |-> IF line \in Login!Redirect THEN line ELSE "unreadable",
                      source |-> "pasted"]
<1>1. /\ stage = "wait" /\ channel' = Append(channel, answer)
      /\ UNCHANGED <<stage, loop, arrival, clock, bytes, session>>
  BY DEF Login!Paste
<1>2. answer \in Answers /\ answer.source = "pasted" /\ answer.line # "timeout"
  BY DEF Answers, Login!Line, Login!Redirect
<1> HIDE DEF answer
<1>3. loop'.state \in {"accepting", "reading", "ended"}
  BY <1>1 DEF LoginInv, AnswersBelong
<1>4. AnswersBelong' /\ SessionInView' /\ channel' \in Seq(Answers)
  BY <1>1, <1>2, <1>3, Sent
<1> QED
  BY <1>1, <1>4 DEF LoginInv, LoginTyped, WithinTheDeadline

(* What concerns neither the answers, the session nor the clock. *)
LEMMA Aside ==
    ASSUME LoginInv, UNCHANGED <<stage, loop, channel, arrival, clock, bytes, session>>
    PROVE  LoginInv'
  BY DEF LoginInv, LoginTyped, AnswersBelong, SessionInView, WithinTheDeadline

LEMMA AcceptStep == ASSUME LoginInv, Login!Accept PROVE LoginInv'
<1> DEFINE allowed == IF ReadTimeout < Login!Remaining THEN ReadTimeout ELSE Login!Remaining
<1>1. /\ stage = "wait" /\ Login!Remaining > 0
      /\ loop' = [state |-> "reading", quiet |-> 0, line |-> Head(backlog), allowed |-> allowed]
      /\ UNCHANGED <<stage, channel, arrival, clock, bytes, session>>
  BY DEF Login!Accept
<1>2. clock \in Nat /\ bytes \in Nat
  BY DEF LoginInv, WithinTheDeadline
<1>3. clock < Deadline /\ Login!Remaining = Deadline - clock
  BY <1>1, <1>2, BoundsAssumption DEF Login!Remaining
<1>4. allowed \in Nat /\ allowed <= ReadTimeout /\ clock + allowed <= Deadline
  BY <1>2, <1>3, BoundsAssumption
<1> HIDE DEF allowed
<1>5. bytes * ReadTimeout \in Nat
  BY <1>2, BoundsAssumption
<1>6. /\ loop'.state = "reading" /\ loop'.quiet = 0 /\ loop'.allowed = allowed
      /\ \E state, quiet, limit, line :
            loop' = [state |-> state, quiet |-> quiet, allowed |-> limit, line |-> line]
  BY <1>1
<1>7. WithinTheDeadline'
  BY <1>1, <1>2, <1>3, <1>4, <1>5, <1>6, BoundsAssumption DEF WithinTheDeadline
<1>8. AnswersBelong' /\ SessionInView'
  BY <1>1, <1>6 DEF LoginInv, AnswersBelong, SessionInView
<1> QED
  BY <1>1, <1>6, <1>7, <1>8 DEF LoginInv, LoginTyped

(* Each byte buys the limit of one read. *)
LEMMA DribbleStep == ASSUME LoginInv, Login!Dribble PROVE LoginInv'
<1>1. /\ loop.state = "reading" /\ bytes' = bytes + 1 /\ loop' = [loop EXCEPT !.quiet = 0]
      /\ UNCHANGED <<stage, channel, arrival, clock, session>>
  BY DEF Login!Dribble
<1>2. /\ loop'.state = "reading" /\ loop'.quiet = 0 /\ loop'.allowed = loop.allowed
      /\ \E state, quiet, limit, line :
            loop' = [state |-> state, quiet |-> quiet, allowed |-> limit, line |-> line]
  BY <1>1 DEF LoginInv, LoginTyped
<1>3. /\ clock \in Nat /\ bytes \in Nat /\ loop.quiet \in Nat /\ loop.allowed \in Nat
      /\ loop.quiet <= loop.allowed /\ loop.allowed <= ReadTimeout
      /\ clock <= Deadline + bytes * ReadTimeout
      /\ clock + (loop.allowed - loop.quiet) <= Deadline + bytes * ReadTimeout
  BY <1>1 DEF LoginInv, WithinTheDeadline
<1>4. bytes * ReadTimeout \in Nat /\ (bytes + 1) * ReadTimeout = bytes * ReadTimeout + ReadTimeout
  BY <1>3, BoundsAssumption
<1> DEFINE bought == bytes * ReadTimeout
<1>5. bought \in Nat /\ clock <= Deadline + bought
      /\ clock + (loop.allowed - loop.quiet) <= Deadline + bought
      /\ (bytes + 1) * ReadTimeout = bought + ReadTimeout
  BY <1>3, <1>4
<1> HIDE DEF bought
<1>6. /\ clock <= Deadline + (bought + ReadTimeout)
      /\ clock + loop.allowed <= Deadline + (bought + ReadTimeout)
  BY <1>3, <1>5, BoundsAssumption
<1>7. clock <= Deadline + (bytes + 1) * ReadTimeout
      /\ clock + loop.allowed <= Deadline + (bytes + 1) * ReadTimeout
  BY <1>5, <1>6
<1>8. clock + (loop.allowed - 0) = clock + loop.allowed
  BY <1>3
<1>9. WithinTheDeadline'
  BY <1>1, <1>2, <1>3, <1>7, <1>8 DEF WithinTheDeadline
<1>10. AnswersBelong' /\ SessionInView'
  BY <1>1, <1>2 DEF LoginInv, AnswersBelong, SessionInView
<1> QED
  BY <1>1, <1>2, <1>9, <1>10 DEF LoginInv, LoginTyped

(* The loopback thread is in its scene only while the command waits. *)
LEMMA Listening == LoginInv /\ loop.state # "off" => stage = "wait"
  BY DEF LoginInv, AnswersBelong

LEMMA ServeStep == ASSUME LoginInv, Login!Serve PROVE LoginInv'
<1>1. /\ loop.state = "reading" /\ stage = "wait"
      /\ UNCHANGED <<stage, arrival, clock, bytes, session>>
  BY Listening DEF Login!Serve
<1>2. CASE Login!BelongsTo(loop.line)
  <2> DEFINE answer == [line |-> loop.line, source |-> "loopback"]
  <2>1. loop' = [loop EXCEPT !.state = "ended"] /\ channel' = Append(channel, answer)
    BY <1>2 DEF Login!Serve
  <2>2. answer.line \in OfThisLogin /\ answer.line # "timeout" /\ answer \in Answers
    BY <1>2 DEF Login!BelongsTo, OfThisLogin, Answers, Login!Line, Login!Redirect
  <2> HIDE DEF answer
  <2>3. /\ loop'.state = "ended"
        /\ \E state, quiet, limit, line :
              loop' = [state |-> state, quiet |-> quiet, allowed |-> limit, line |-> line]
    BY <2>1 DEF LoginInv, LoginTyped
  <2>4. AnswersBelong' /\ SessionInView' /\ channel' \in Seq(Answers)
    BY <1>1, <2>1, <2>2, <2>3, Sent
  <2>5. WithinTheDeadline'
    BY <1>1, <2>3 DEF LoginInv, WithinTheDeadline
  <2> QED
    BY <1>1, <2>3, <2>4, <2>5 DEF LoginInv, LoginTyped
<1>3. CASE ~Login!BelongsTo(loop.line)
  <2>1. /\ loop' = [state |-> "accepting", quiet |-> 0, allowed |-> 0, line |-> "other"]
        /\ channel' = channel
    BY <1>3 DEF Login!Serve, Login!Closed
  <2>2. loop'.state = "accepting"
    BY <2>1
  <2>3. AnswersBelong' /\ SessionInView'
    BY <1>1, <2>1, <2>2 DEF LoginInv, AnswersBelong, SessionInView
  <2>4. WithinTheDeadline'
    BY <1>1, <2>2 DEF LoginInv, WithinTheDeadline
  <2> QED
    BY <1>1, <2>1, <2>3, <2>4 DEF LoginInv, LoginTyped
<1> QED
  BY <1>2, <1>3

LEMMA ReadExpiresStep == ASSUME LoginInv, Login!ReadExpires PROVE LoginInv'
<1>1. /\ loop.state = "reading" /\ stage = "wait"
      /\ loop' = [state |-> "accepting", quiet |-> 0, allowed |-> 0, line |-> "other"]
      /\ UNCHANGED <<stage, channel, arrival, clock, bytes, session>>
  BY Listening DEF Login!ReadExpires, Login!Closed
<1>2. loop'.state = "accepting"
  BY <1>1
<1>3. AnswersBelong' /\ SessionInView'
  BY <1>1, <1>2 DEF LoginInv, AnswersBelong, SessionInView
<1>4. WithinTheDeadline'
  BY <1>1, <1>2 DEF LoginInv, WithinTheDeadline
<1> QED
  BY <1>1, <1>3, <1>4 DEF LoginInv, LoginTyped

LEMMA GiveUpStep == ASSUME LoginInv, Login!GiveUp PROVE LoginInv'
<1> DEFINE answer == [line |-> "timeout", source |-> "loopback"]
<1>1. /\ loop.state = "accepting" /\ stage = "wait" /\ Login!Remaining = 0
      /\ loop' = [state |-> "ended", quiet |-> 0, allowed |-> 0, line |-> "other"]
      /\ channel' = Append(channel, answer)
      /\ UNCHANGED <<stage, arrival, clock, bytes, session>>
  BY Listening DEF Login!GiveUp, Login!Closed
<1>2. clock \in Nat
  BY DEF LoginInv, WithinTheDeadline
<1>3. clock >= Deadline
  BY <1>1, <1>2, BoundsAssumption DEF Login!Remaining
<1>4. answer.line \in OfThisLogin /\ answer \in Answers
  BY DEF OfThisLogin, Answers
<1> HIDE DEF answer
<1>5. loop'.state = "ended"
  BY <1>1
<1>6. AnswersBelong' /\ SessionInView' /\ channel' \in Seq(Answers)
  BY <1>1, <1>3, <1>4, <1>5, Sent
<1>7. WithinTheDeadline'
  BY <1>1, <1>5 DEF LoginInv, WithinTheDeadline
<1> QED
  BY <1>1, <1>6, <1>7 DEF LoginInv, LoginTyped

(* Time passes while the deadline is ahead, or while a read may go on. *)
LEMMA TickStep == ASSUME LoginInv, Login!Tick PROVE LoginInv'
<1>1. /\ stage = "wait" /\ channel = <<>> /\ clock' = clock + 1
      /\ loop.state = "accepting" => Login!Remaining > 0
      /\ loop.state = "reading" => loop.quiet < loop.allowed
      /\ loop' = IF loop.state = "reading" THEN [loop EXCEPT !.quiet = @ + 1] ELSE loop
      /\ UNCHANGED <<stage, channel, arrival, bytes, session>>
  BY DEF Login!Tick
<1>2. clock \in Nat /\ bytes \in Nat /\ bytes * ReadTimeout \in Nat
  BY BoundsAssumption DEF LoginInv, WithinTheDeadline
<1>3. AnswersBelong' /\ SessionInView'
  <2>1. loop'.state = loop.state
    BY <1>1 DEF LoginInv, LoginTyped
  <2> QED
    BY <1>1, <2>1 DEF LoginInv, AnswersBelong, SessionInView
<1> DEFINE bought == bytes * ReadTimeout
<1>4. bought \in Nat /\ bytes * ReadTimeout = bought
  BY <1>2
<1> HIDE DEF bought
<1>5. CASE loop.state = "reading"
  <2>1. /\ loop'.state = "reading" /\ loop'.quiet = loop.quiet + 1
        /\ loop'.allowed = loop.allowed
        /\ \E state, quiet, limit, line :
              loop' = [state |-> state, quiet |-> quiet, allowed |-> limit, line |-> line]
    BY <1>1, <1>5 DEF LoginInv, LoginTyped
  <2>2. /\ loop.quiet \in Nat /\ loop.allowed \in Nat /\ loop.quiet < loop.allowed
        /\ loop.allowed <= ReadTimeout
        /\ clock + (loop.allowed - loop.quiet) <= Deadline + bought
    BY <1>1, <1>4, <1>5 DEF LoginInv, WithinTheDeadline
  <2>3. /\ clock + 1 \in Nat /\ loop.quiet + 1 \in Nat /\ loop.quiet + 1 <= loop.allowed
        /\ clock + 1 <= Deadline + bought
        /\ (clock + 1) + (loop.allowed - (loop.quiet + 1)) <= Deadline + bought
    BY <1>2, <1>4, <2>2, BoundsAssumption
  <2>4. WithinTheDeadline'
    BY <1>1, <1>2, <1>4, <2>1, <2>2, <2>3 DEF WithinTheDeadline
  <2> QED
    BY <1>1, <1>3, <2>1, <2>4 DEF LoginInv, LoginTyped
<1>6. CASE loop.state # "reading"
  <2>1. loop.state = "accepting"
    BY <1>1, <1>6 DEF LoginInv, AnswersBelong
  <2>2. clock < Deadline
    BY <1>1, <1>2, <2>1, BoundsAssumption DEF Login!Remaining
  <2>3. clock + 1 \in Nat /\ clock + 1 <= Deadline + bought
    BY <1>2, <1>4, <2>2, BoundsAssumption
  <2>4. loop' = loop
    BY <1>1, <1>6
  <2>5. WithinTheDeadline'
    BY <1>1, <1>2, <1>4, <1>6, <2>3, <2>4 DEF WithinTheDeadline
  <2> QED
    BY <1>1, <1>3, <2>4, <2>5 DEF LoginInv, LoginTyped
<1> QED
  BY <1>5, <1>6

LEMMA ReceiveStep == ASSUME LoginInv, Login!Receive PROVE LoginInv'
<1>1. /\ stage = "wait" /\ channel # <<>> /\ arrival' = channel[1] /\ channel' = <<>>
      /\ stage' = Login!Verdict(channel[1].line) /\ clock' = 0 /\ bytes' = 0
      /\ loop' = [state |-> "off", quiet |-> 0, allowed |-> 0, line |-> "other"]
      /\ UNCHANGED session
  BY DEF Login!Receive, Login!Closed, LoginInv, LoginTyped
<1>2. channel[1] \in Answers /\ 1 \in DOMAIN channel
  BY <1>1 DEF LoginInv, LoginTyped
<1>3. channel[1].line \in Login!Redirect \cup {"unreadable", "timeout"}
  BY <1>2 DEF Answers
<1>4. session.state = "none"
  BY <1>1 DEF LoginInv, SessionInView
<1>5. channel[1].source = "loopback" => channel[1].line \in OfThisLogin
  BY <1>2 DEF LoginInv, AnswersBelong
<1>6. /\ stage' \in {"exchange", "Denied", "StateMismatch", "LoginTimeout", "RedirectUnreadable"}
      /\ stage' = "exchange" => channel[1].line = "genuine"
  BY <1>1, <1>3 DEF Login!Verdict, Login!Redirect
<1>7. loop'.state = "off"
  BY <1>1
<1>8. AnswersBelong'
  BY <1>1, <1>4, <1>5, <1>6, <1>7 DEF AnswersBelong, Codes
<1>9. SessionInView'
  BY <1>1, <1>4 , <1>6 DEF SessionInView, Before
<1>10. 0 <= Deadline + 0 * ReadTimeout
  BY BoundsAssumption
<1>11. WithinTheDeadline'
  BY <1>1, <1>7, <1>10 DEF WithinTheDeadline
<1>12. channel' \in Seq(Answers)
  BY <1>1
<1> QED
  BY <1>1, <1>8, <1>9, <1>11, <1>12 DEF LoginInv, LoginTyped

(* After the wait, what the threads had does not matter. *)
LEMMA AfterTheWait ==
    ASSUME LoginInv, stage \in Codes, stage' \notin Before \cup {"wait"},
           UNCHANGED Login!threads,
           \E state, held, lost : session' = [state |-> state, held |-> held, lost |-> lost],
           stage' = "exchange" /\ session'.state = "live" => session'.lost,
           stage' = "record" => session'.state = "saved",
           stage' \notin Login!Ongoing /\ session'.state = "live" => session'.lost
    PROVE  LoginInv'
<1>1. LoginTyped' /\ WithinTheDeadline'
  BY DEF LoginInv, LoginTyped, WithinTheDeadline, Login!threads
<1>2. stage # "wait"
  BY DEF Codes
<1>3. AnswersBelong'
  BY <1>2 DEF LoginInv, AnswersBelong, Login!threads
<1>4. SessionInView'
  BY DEF SessionInView
<1> QED
  BY <1>1, <1>3, <1>4 DEF LoginInv

LEMMA ExchangeStep == ASSUME LoginInv, Login!Exchange PROVE LoginInv'
<1>1. stage \in Codes /\ stage = "exchange" /\ UNCHANGED Login!threads
  BY DEF Login!Exchange, Codes
<1>2. PICK state, held, lost : session = [state |-> state, held |-> held, lost |-> lost]
  BY DEF LoginInv, LoginTyped
<1>3. session.state = "live" => session.lost
  BY <1>1 DEF LoginInv, SessionInView
<1>4. CASE stage' = "check" /\ session' = [session EXCEPT !.state = "live", !.held = TRUE]
  <2>1. session' = [state |-> "live", held |-> TRUE, lost |-> lost]
    BY <1>2, <1>4
  <2> QED
    BY <1>1, <1>4, <2>1, AfterTheWait DEF Before, Login!Ongoing
<1>5. CASE stage' \in {"exchange", "Timeout"}
           /\ session' = [session EXCEPT !.state = "live", !.lost = TRUE]
  <2>1. session' = [state |-> "live", held |-> held, lost |-> TRUE]
    BY <1>2, <1>5
  <2>2. session'.lost
    BY <2>1
  <2> QED
    BY <1>1, <1>5, <2>1, <2>2, AfterTheWait DEF Before
<1>6. CASE stage' \in {"AuthExpired", "Denied", "Discovery"} /\ UNCHANGED session
  BY <1>1, <1>2, <1>3, <1>6, AfterTheWait DEF Before
<1> QED
  BY <1>1, <1>4, <1>5, <1>6 DEF Login!Exchange, Login!Fail

LEMMA KeepingSteps ==
    ASSUME LoginInv, Login!Check \/ Login!Revoke \/ Login!Save \/ Login!Record
    PROVE  LoginInv'
<1>1. stage \in Codes /\ UNCHANGED Login!threads
  BY DEF Login!Check, Login!Revoke, Login!Save, Login!Record, Codes
<1>2. PICK state, held, lost : session = [state |-> state, held |-> held, lost |-> lost]
  BY DEF LoginInv, LoginTyped
<1>3. CASE Login!Check
  BY <1>1, <1>2, <1>3, AfterTheWait DEF Login!Check, Before, Login!Ongoing
<1>4. CASE Login!Revoke
  <2>1. stage' = "Mismatch"
    BY <1>4 DEF Login!Revoke, Login!Fail
  <2>2. \/ session' = [state |-> "revoked", held |-> held, lost |-> lost]
        \/ session' = [state |-> state, held |-> held, lost |-> TRUE]
    BY <1>2, <1>4 DEF Login!Revoke
  <2>3. session'.state = "live" => session'.lost
    BY <2>2
  <2> QED
    BY <1>1, <2>1, <2>2, <2>3, AfterTheWait DEF Before
<1>5. CASE Login!Save
  <2>1. \/ stage' = "record" /\ session' = [state |-> "saved", held |-> held, lost |-> lost]
        \/ stage' = "Store" /\ session' = [state |-> state, held |-> held, lost |-> TRUE]
    BY <1>2, <1>5 DEF Login!Save, Login!Fail
  <2>2. \/ stage' = "record" /\ session'.state = "saved"
        \/ stage' = "Store" /\ session'.lost
    BY <2>1
  <2> QED
    BY <1>1, <2>1, <2>2, AfterTheWait DEF Before, Login!Ongoing
<1>6. CASE Login!Record
  <2>1. session.state = "saved" /\ session' = session /\ stage' \in {"done", "Profile"}
    BY <1>6 DEF Login!Record, Login!Fail, LoginInv, SessionInView
  <2> QED
    BY <1>1, <1>2, <2>1, AfterTheWait DEF Before
<1> QED
  BY <1>3, <1>4, <1>5, <1>6

LEMMA LoginStep == LoginInv /\ Login!Next => LoginInv'
<1> SUFFICES ASSUME LoginInv, Login!Next PROVE LoginInv'
  OBVIOUS
<1>1. CASE Login!Command
  BY <1>1, EarlySteps, OpenStep, ReceiveStep, ExchangeStep, KeepingSteps DEF Login!Command
<1>2. CASE Login!Loopback
  BY <1>2, AcceptStep, ServeStep, ReadExpiresStep, GiveUpStep DEF Login!Loopback
<1>3. CASE Login!Outside
  <2>1. CASE Login!Consent
    BY <2>1, Aside DEF Login!Consent, Login!threads
  <2>2. CASE Login!PasteEnds
    BY <2>2, Aside DEF Login!PasteEnds
  <2>3. ASSUME NEW line, Login!Connect(line) PROVE LoginInv'
    BY <2>3, Aside DEF Login!Connect
  <2> QED
    BY <1>3, <2>1, <2>2, <2>3, DribbleStep, PasteStep DEF Login!Outside
<1>4. CASE Login!Tick
  BY <1>4, TickStep
<1> QED
  BY <1>1, <1>2, <1>3, <1>4 DEF Login!Next

-----------------------------------------------------------------------------
(* The calls: what is concluded from an answer. *)

LEMMA AnswerFields ==
    ASSUME NEW st, NEW body
    PROVE  LET answer == Calls!Answer(st, body) IN
           /\ answer.status = st
           /\ answer.json <=> body \in {"own", "strange", "long"}
           /\ answer.html <=> body = "page"
           /\ answer.empty <=> body = "empty"
           /\ answer.truncated <=> body = "long"
           /\ answer.own <=> body = "own"
           /\ ~answer.access /\ ~answer.mitigated /\ ~answer.code
  BY DEF Calls!Answer

LEMMA NoAnswerIsNone == Calls!NoAnswer.status = 0
  BY AnswerFields DEF Calls!NoAnswer

(* An answer of the Worker's own. *)
LEMMA OwnOutcome ==
    ASSUME NEW cmd, NEW st \in {200, 204, 404, 409, 412}, st = 204 => ~cmd.document,
           NEW answer, answer = Calls!Answer(st, IF st = 204 THEN "empty" ELSE "own")
    PROVE  /\ answer # Calls!NoAnswer
           /\ st < 300 => Calls!Outcome(cmd, answer) = "ok"
           /\ Calls!Outcome(cmd, answer) = "ok" => st < 300
<1>1. /\ answer.status = st /\ (answer.json <=> st # 204) /\ ~answer.html
      /\ (answer.empty <=> st = 204) /\ ~answer.truncated /\ (answer.own <=> st # 204)
      /\ ~answer.mitigated /\ ~answer.code
  <2>1. CASE st = 204
    BY <2>1, AnswerFields
  <2>2. CASE st # 204
    BY <2>2, AnswerFields
  <2> QED
    BY <2>1, <2>2
<1>2. answer # Calls!NoAnswer
  BY <1>1, NoAnswerIsNone
<1>3. CASE st < 300
  <2>1. st \in {200, 204}
    BY <1>3
  <2>2. st = 200 => Calls!ResponseKind(answer) = "none"
    BY <1>1 DEF Calls!ResponseKind, Calls!Classify
  <2>3. Calls!Outcome(cmd, answer) = "ok"
    BY <1>1, <2>1, <2>2 DEF Calls!Outcome, Calls!Decode, Calls!RequestOk
  <2> QED
    BY <1>2, <1>3, <2>3
<1>4. CASE ~(st < 300)
  <2>1. st \in {404, 409, 412}
    BY <1>4
  <2>2. Calls!Classify(answer) = "none"
    BY <1>1, <2>1 DEF Calls!Classify
  <2>3. Calls!ResponseKind(answer) \in {"NotFound", "Conflict", "PreconditionFailed"}
    BY <1>1, <2>1, <2>2 DEF Calls!ResponseKind, Calls!FromStatus
  <2>4. Calls!Outcome(cmd, answer) # "ok"
    BY <1>1, <2>1, <2>3 DEF Calls!Outcome, Calls!Decode, Calls!RequestOk
  <2> QED
    BY <1>2, <1>4, <2>4
<1> QED
  BY <1>3, <1>4

(* Work that is done and not answered for says nothing definite. *)
LEMMA LateOutcome ==
    ASSUME NEW cmd, NEW answer \in Calls!LateAnswers
    PROVE  /\ answer # Calls!NoAnswer
           /\ Calls!Outcome(cmd, answer) \notin Calls!Definite \cup {"ok"}
<1>1. CASE answer = Calls!Answer(502, "page")
  <2>1. /\ answer.status = 502 /\ ~answer.json /\ ~answer.empty
        /\ ~answer.mitigated /\ ~answer.code
    BY <1>1, AnswerFields
  <2>2. Calls!Classify(answer) = "ServerError"
    BY <2>1 DEF Calls!Classify, Calls!FromStatus
  <2> QED
    BY <2>1, <2>2, NoAnswerIsNone
    DEF Calls!Outcome, Calls!Decode, Calls!RequestOk, Calls!ResponseKind, Calls!Definite
<1>2. CASE answer = [Calls!Answer(500, "page") EXCEPT !.code = TRUE]
  <2>1. answer.status = 500 /\ answer.code
    BY <1>2 DEF Calls!Answer
  <2>2. ~answer.mitigated
    BY <1>2 DEF Calls!Answer
  <2>3. Calls!Classify(answer) = "Unreachable"
    BY <2>1, <2>2 DEF Calls!Classify
  <2> QED
    BY <2>1, <2>3, NoAnswerIsNone
    DEF Calls!Outcome, Calls!Decode, Calls!RequestOk, Calls!ResponseKind, Calls!Definite
<1>3. CASE answer = Calls!Answer(200, "long")
  <2>1. /\ answer.status = 200 /\ answer.json /\ ~answer.empty /\ answer.truncated
        /\ ~answer.mitigated /\ ~answer.code
    BY <1>3, AnswerFields
  <2>2. Calls!Classify(answer) = "ResponseTooLarge"
    BY <2>1 DEF Calls!Classify
  <2> QED
    BY <2>1, <2>2, NoAnswerIsNone
    DEF Calls!Outcome, Calls!Decode, Calls!RequestOk, Calls!ResponseKind, Calls!Definite
<1> QED
  BY <1>1, <1>2, <1>3 DEF Calls!LateAnswers

(* A page, or nothing, from the edge concludes a try.                        *)
Concluded(answer) ==
    /\ answer.status \in {200, 302, 401, 403, 429, 530}
    /\ ~answer.own
    /\ answer.status = 200 => ~answer.empty
    /\ ~answer.json => Calls!Classify(answer) # "none"

LEMMA EdgeConcludes == \A answer \in Calls!EdgeAnswers : Concluded(answer)
<1> SUFFICES ASSUME NEW answer \in Calls!EdgeAnswers PROVE Concluded(answer)
  OBVIOUS
<1>1. CASE answer \in {Calls!Answer(302, "page"), Calls!Answer(403, "page"),
                       Calls!Answer(429, "page"), Calls!Answer(200, "page")}
  <2>1. PICK st \in {302, 403, 429, 200} : answer = Calls!Answer(st, "page")
    BY <1>1
  <2>2. answer.status = st /\ ~answer.json /\ ~answer.own /\ ~answer.empty /\ ~answer.access
        /\ ~answer.mitigated /\ ~answer.code /\ answer.html
    BY <2>1, AnswerFields
  <2>3. Calls!Classify(answer) # "none"
    BY <2>2 DEF Calls!Classify, Calls!FromStatus
  <2> QED
    BY <2>2, <2>3 DEF Concluded
<1>2. CASE answer = [Calls!Answer(302, "page") EXCEPT !.access = TRUE]
  <2>1. answer.status = 302 /\ answer.access /\ ~answer.own
    BY <1>2 DEF Calls!Answer
  <2>2. Calls!Classify(answer) # "none"
    BY <2>1 DEF Calls!Classify
  <2> QED
    BY <2>1, <2>2 DEF Concluded
<1>3. CASE answer = [Calls!Answer(403, "page") EXCEPT !.mitigated = TRUE]
  <2>1. /\ answer.status = 403 /\ answer.mitigated
        /\ answer.own = Calls!Answer(403, "page").own
    BY <1>3 DEF Calls!Answer
  <2>3. ~answer.own
    BY <2>1, AnswerFields
  <2>2. Calls!Classify(answer) # "none"
    BY <2>1 DEF Calls!Classify
  <2> QED
    BY <2>1, <2>2, <2>3 DEF Concluded
<1>4. CASE answer = [Calls!Answer(530, "page") EXCEPT !.code = TRUE]
  <2>1. /\ answer.status = 530 /\ answer.code
        /\ answer.own = Calls!Answer(530, "page").own
    BY <1>4 DEF Calls!Answer
  <2>4. ~answer.own
    BY <2>1, AnswerFields
  <2>2. ~answer.mitigated
    BY <1>4 DEF Calls!Answer
  <2>3. Calls!Classify(answer) # "none"
    BY <2>1, <2>2 DEF Calls!Classify
  <2> QED
    BY <2>1, <2>3, <2>4 DEF Concluded
<1>5. CASE answer = Calls!Answer(401, "empty")
  <2>1. answer.status = 401 /\ ~answer.mitigated /\ ~answer.code /\ ~answer.own
    BY <1>5, AnswerFields
  <2>2. Calls!Classify(answer) # "none"
    BY <2>1 DEF Calls!Classify
  <2> QED
    BY <2>1, <2>2 DEF Concluded
<1>6. CASE answer = Calls!Answer(200, "strange")
  <2>1. answer.status = 200 /\ answer.json /\ ~answer.empty /\ ~answer.own
    BY <1>6, AnswerFields
  <2> QED
    BY <2>1 DEF Concluded
<1> QED
  BY <1>1, <1>2, <1>3, <1>4, <1>5, <1>6 DEF Calls!EdgeAnswers

(* What answers in the Worker's place is never taken for one of its          *)
(* documents; where none is expected, any JSON will do.                      *)
LEMMA EdgeOutcome ==
    ASSUME NEW cmd, NEW answer \in Calls!EdgeAnswers
    PROVE  /\ answer # Calls!NoAnswer
           /\ Calls!Outcome(cmd, answer) = "ok" =>
                 ~cmd.document /\ answer.json /\ ~answer.own
<1>1. Concluded(answer)
  BY EdgeConcludes
<1>2. Calls!ResponseKind(answer) # "ok"
  BY <1>1 DEF Concluded, Calls!ResponseKind, Calls!Classify, Calls!FromStatus
<1>3. ~answer.json => Calls!ResponseKind(answer) # "none"
  BY <1>1 DEF Concluded, Calls!ResponseKind
<1>4. answer.status \in 200 .. 299 => ~answer.empty
  BY <1>1 DEF Concluded
<1> QED
  BY <1>1, <1>2, <1>3, <1>4, NoAnswerIsNone
  DEF Concluded, Calls!Outcome, Calls!Decode, Calls!RequestOk

-----------------------------------------------------------------------------
(* The calls: their requests. *)

CallRecord(k) ==
    /\ DOMAIN k = {"cmd", "busy", "number", "try", "seen", "outcome", "foreign"}
    /\ k.cmd \in Calls!Commands /\ k.busy \in BOOLEAN /\ k.number \in 0 .. MaxCalls
    /\ k.try \in Nat /\ k.seen \in Nat /\ k.foreign \in BOOLEAN

RequestRecord ==
    [client : Client, number : 1 .. MaxCalls, try : Nat,
     effect : {"read", "create", "remove", "set", "guarded", "mint"}, seen : Nat]

AppliedTo(r) == applied[r.client][r.number]

(* Requests of one command are tries of the same; one that mints has been    *)
(* sent once, and not been applied; and one that names a revision, once      *)
(* applied, names one that has passed.                                       *)
RequestsInv ==
    /\ flight \subseteq RequestRecord
    /\ rev \in Nat
    /\ DOMAIN applied = Client
    /\ \A c \in Client : applied[c] \in [1 .. MaxCalls -> Nat]
    /\ \A r, q \in flight : r.client = q.client /\ r.number = q.number =>
          r.effect = q.effect /\ r.seen = q.seen
    /\ \A r \in flight : r.effect = "mint" => r.try = 0 /\ AppliedTo(r) = 0
    /\ \A r \in flight : r.effect = "guarded" /\ AppliedTo(r) > 0 => rev > r.seen

Mine(c, r) == r.client = c /\ r.number = call[c].number

Left(c) == {r \in flight : Mine(c, r)}
Times(c) == applied[c][call[c].number]

(* What may be concluded from an outcome, of a command that has been applied *)
(* so many times and has these requests left.                                *)
Warranted(k, times, left, outcome) ==
    /\ outcome = "ok" /\ Calls!Writes(k.cmd) /\ (k.cmd.document \/ ~k.foreign) => times > 0
    /\ k.try = 0 /\ outcome \in Calls!Definite => times = 0 /\ left = {}

Believed(c, outcome) == Warranted(call[c], Times(c), Left(c), outcome)

CallInv(c) ==
    /\ CallRecord(call[c])
    /\ call[c].cmd.once => call[c].try = 0
    /\ call[c].busy => call[c].number > 0
    /\ \A n \in 1 .. MaxCalls : n > call[c].number => applied[c][n] = 0
    /\ \A r \in flight : r.client = c => r.number <= call[c].number
    /\ \A r \in flight : Mine(c, r) =>
          /\ r.try <= call[c].try
          /\ r.effect = call[c].cmd.effect
          /\ r.seen = call[c].seen
    /\ Calls!Waiting(c) /\ call[c].try = 0 => applied[c][call[c].number] = 0
    /\ reply[c] # Calls!NoAnswer =>
          call[c].busy /\ Believed(c, Calls!Outcome(call[c].cmd, reply[c]))
    /\ ~call[c].busy /\ call[c].number > 0 => Believed(c, call[c].outcome)
    /\ call[c].number > 0 /\ call[c].cmd.effect = "guarded"
          /\ applied[c][call[c].number] > 0 => rev > call[c].seen

CallsInv ==
    /\ DOMAIN call = Client /\ DOMAIN reply = Client
    /\ RequestsInv
    /\ \A c \in Client : CallInv(c)

LEMMA CommandFacts ==
    ASSUME NEW cmd \in Calls!Commands
    PROVE  /\ cmd.effect \in {"read", "create", "remove", "set", "guarded", "mint"}
           /\ cmd.effect = "mint" => cmd.once
           /\ cmd.effect = "remove" => ~cmd.document
<1>1. \/ \E e \in {"read", "create", "set", "guarded"} :
             cmd = [effect |-> e, document |-> TRUE, once |-> FALSE]
      \/ cmd = [effect |-> "remove", document |-> FALSE, once |-> FALSE]
      \/ cmd = [effect |-> "mint", document |-> TRUE, once |-> TRUE]
  BY DEF Calls!Commands, Calls!ProjectCommands, Calls!EnvironmentCommands, Calls!SecretReads,
         Calls!SecretWrites, Calls!AccessCommands, Calls!KeyringCommands, Calls!TokenCommands,
         Calls!Get, Calls!Post, Calls!PostOnce, Calls!Delete
<1> QED
  BY <1>1

LEMMA CallsAnswer ==
    CallsInv => Calls!SuccessIsTheServers /\ Calls!DefiniteFailuresChangeNothing
<1> SUFFICES ASSUME CallsInv, NEW c \in Client, Calls!Ended(c)
             PROVE  Believed(c, call[c].outcome)
  BY DEF Calls!SuccessIsTheServers, Calls!DefiniteFailuresChangeNothing, Believed, Warranted,
         Calls!AppliedBy, Times
<1> QED
  BY DEF CallsInv, CallInv, Calls!Ended

LEMMA CallsInit == Calls!Init => CallsInv
<1> SUFFICES ASSUME Calls!Init PROVE CallsInv
  OBVIOUS
<1>1. /\ rev = 0 /\ flight = {} /\ DOMAIN applied = Client
      /\ DOMAIN call = Client /\ DOMAIN reply = Client
  BY DEF Calls!Init
<1>2. RequestsInv
  BY <1>1, BoundsAssumption DEF Calls!Init, RequestsInv
<1>3. ASSUME NEW c \in Client PROVE CallInv(c)
  <2>1. /\ reply[c] = Calls!NoAnswer
        /\ applied[c] = [n \in 1 .. MaxCalls |-> 0]
        /\ call[c] = [cmd |-> Calls!Get("read"), busy |-> FALSE, number |-> 0, try |-> 0,
                      seen |-> 0, outcome |-> "ok", foreign |-> FALSE]
    BY DEF Calls!Init, Calls!Idle
  <2>2. Calls!Get("read") \in Calls!Commands
    BY DEF Calls!Commands, Calls!ProjectCommands
  <2>3. CallRecord(call[c])
    <3> HIDE DEF Calls!Get
    <3> QED
      BY <2>1, <2>2, BoundsAssumption DEF CallRecord
  <2>4. ~call[c].busy /\ call[c].number = 0 /\ call[c].try = 0
    BY <2>1
  <2> QED
    BY <1>1, <2>1, <2>3, <2>4 DEF CallInv, Calls!Waiting
<1> QED
  BY <1>1, <1>2, <1>3 DEF CallsInv

(* A client is none the worse for what goes on without it. *)
LEMMA Bystander ==
    ASSUME NEW c \in Client, RequestsInv, CallInv(c), rev' \in Nat, rev' >= rev,
           call'[c] = call[c], reply'[c] = reply[c], applied'[c] = applied[c],
           \A r \in flight' : r.client = c => r \in flight
    PROVE  CallInv(c)'
<1>1. Calls!Waiting(c)' <=> Calls!Waiting(c)
  BY DEF Calls!Waiting, Calls!NoAnswer, Calls!Answer
<1>2. \A r \in flight' : Mine(c, r)' => r \in flight /\ Mine(c, r)
  BY DEF Mine
<1>3. Times(c)' = Times(c) /\ (Left(c) = {} => Left(c)' = {})
  BY <1>2 DEF Times, Left
<1>4. call[c].seen \in Nat /\ rev \in Nat
  BY DEF CallInv, CallRecord, RequestsInv
<1>5. reply[c] # Calls!NoAnswer =>
          call[c].busy /\ Believed(c, Calls!Outcome(call[c].cmd, reply[c]))'
  BY <1>3 DEF CallInv, Believed, Warranted
<1>6. ~call[c].busy /\ call[c].number > 0 => Believed(c, call[c].outcome)'
  BY <1>3 DEF CallInv, Believed, Warranted
<1>7. (reply[c] # Calls!NoAnswer =>
          call[c].busy /\ Believed(c, Calls!Outcome(call[c].cmd, reply[c])))'
  BY <1>5 DEF Calls!NoAnswer, Calls!Answer
<1>8. (~call[c].busy /\ call[c].number > 0 => Believed(c, call[c].outcome))'
  BY <1>6
<1>9. CallRecord(call[c])' /\ (call[c].cmd.once => call[c].try = 0)'
  BY DEF CallInv, CallRecord
<1> QED
  BY <1>1, <1>2, <1>4, <1>7, <1>8, <1>9 DEF CallInv

LEMMA OneMore ==
    ASSUME NEW S, NEW f \in [S -> Nat], NEW n \in S, NEW g, g = [f EXCEPT ![n] = @ + 1]
    PROVE  g \in [S -> Nat] /\ g[n] = f[n] + 1 /\ \A m \in S : m # n => g[m] = f[m]
  OBVIOUS

(* What the Worker does with a request. *)
LEMMA EffectFacts ==
    ASSUME RequestsInv, NEW r \in flight, Calls!Effect(r)
    PROVE  /\ flight' = flight \ {r}
           /\ rev' \in Nat /\ rev' >= rev
           /\ DOMAIN applied' = Client
           /\ \A c \in Client : applied'[c] \in [1 .. MaxCalls -> Nat]
           /\ \A c \in Client, n \in 1 .. MaxCalls :
                 c # r.client \/ n # r.number => applied'[c][n] = applied[c][n]
           /\ \A c \in Client : c # r.client => applied'[c] = applied[c]
           /\ AppliedTo(r)' = IF Calls!Changes(r) THEN AppliedTo(r) + 1 ELSE AppliedTo(r)
           /\ Calls!Changes(r) /\ r.effect = "guarded" => rev = r.seen /\ rev' = rev + 1
<1>1. r.client \in Client /\ r.number \in 1 .. MaxCalls /\ rev \in Nat
  BY DEF RequestsInv, RequestRecord
<1>2. flight' = flight \ {r}
  BY DEF Calls!Effect
<1>3. CASE ~Calls!Changes(r)
  <2>1. rev' = rev /\ applied' = applied
    BY <1>3 DEF Calls!Effect, Calls!server
  <2> QED
    BY <1>1, <1>2, <1>3, <2>1 DEF RequestsInv, AppliedTo
<1>4. CASE Calls!Changes(r)
  <2>1. /\ applied' = [applied EXCEPT ![r.client][r.number] = @ + 1]
        /\ rev' = IF r.effect \in {"set", "guarded"} THEN rev + 1 ELSE rev
    BY <1>4 DEF Calls!Effect
  <2>2. r.effect = "guarded" => rev = r.seen
    BY <1>4 DEF Calls!Changes, Calls!Status
  <2>3. applied'[r.client] = [applied[r.client] EXCEPT ![r.number] = @ + 1]
    BY <1>1, <2>1 DEF RequestsInv
  <2>4. \A c \in Client : c # r.client => applied'[c] = applied[c]
    BY <1>1, <2>1 DEF RequestsInv
  <2>5. applied[r.client] \in [1 .. MaxCalls -> Nat] /\ DOMAIN applied' = Client
    BY <1>1, <2>1 DEF RequestsInv
  <2>6. /\ applied'[r.client] \in [1 .. MaxCalls -> Nat]
        /\ applied'[r.client][r.number] = applied[r.client][r.number] + 1
        /\ \A n \in 1 .. MaxCalls : n # r.number => applied'[r.client][n] = applied[r.client][n]
    <3> DEFINE S == 1 .. MaxCalls
               f == applied[r.client]
               g == applied'[r.client]
               m == r.number
    <3>1. f \in [S -> Nat] /\ m \in S /\ g = [f EXCEPT ![m] = @ + 1]
      BY <1>1, <2>3, <2>5
    <3> HIDE DEF S, f, g, m
    <3>2. g \in [S -> Nat] /\ g[m] = f[m] + 1 /\ \A n \in S : n # m => g[n] = f[n]
      BY <3>1, OneMore
    <3> QED
      BY <3>2 DEF S, f, g, m
  <2>7. AppliedTo(r)' = AppliedTo(r) + 1
    BY <2>6 DEF AppliedTo
  <2>8. rev' \in Nat /\ rev' >= rev /\ (r.effect = "guarded" => rev' = rev + 1)
    BY <1>1, <2>1
  <2>9. \A c \in Client, n \in 1 .. MaxCalls :
           c # r.client \/ n # r.number => applied'[c][n] = applied[c][n]
    BY <2>4, <2>6
  <2>10. \A c \in Client : applied'[c] \in [1 .. MaxCalls -> Nat]
    BY <2>4, <2>6 DEF RequestsInv
  <2> QED
    BY <1>2, <1>4, <2>2, <2>4, <2>5, <2>7, <2>8, <2>9, <2>10
<1> QED
  BY <1>3, <1>4

LEMMA SameRequest ==
    ASSUME NEW r \in RequestRecord, NEW q \in RequestRecord,
           r.client = q.client, r.number = q.number, r.try = q.try, r.effect = q.effect,
           r.seen = q.seen
    PROVE  r = q
  BY DEF RequestRecord

LEMMA EffectRequests ==
    ASSUME RequestsInv, NEW r \in flight, Calls!Effect(r)
    PROVE  RequestsInv'
<1>1. flight' = flight \ {r} /\ rev' \in Nat /\ rev' >= rev /\ rev \in Nat
  BY EffectFacts DEF RequestsInv
<1>2. flight \subseteq RequestRecord
  BY DEF RequestsInv
<1>3. ASSUME NEW q \in flight', q.effect = "mint"
      PROVE  q.try = 0 /\ AppliedTo(q)' = 0
  <2>1. q \in flight /\ q # r /\ q.client \in Client /\ q.number \in 1 .. MaxCalls
    BY <1>1, <1>2 DEF RequestRecord
  <2>2. q.try = 0 /\ AppliedTo(q) = 0
    BY <1>3, <2>1 DEF RequestsInv
  <2>3. CASE q.client = r.client /\ q.number = r.number
    <3>1. r.effect = "mint" /\ q.seen = r.seen /\ r.try = 0
      BY <1>3, <2>1, <2>3 DEF RequestsInv
    <3> QED
      BY <1>2, <1>3, <2>1, <2>2, <2>3, <3>1, SameRequest
  <2>4. CASE ~(q.client = r.client /\ q.number = r.number)
    BY <2>1, <2>2, <2>4, EffectFacts DEF AppliedTo
  <2> QED
    BY <2>3, <2>4
<1>4. ASSUME NEW q \in flight', q.effect = "guarded", AppliedTo(q)' > 0
      PROVE  rev' > q.seen
  <2>1. q \in flight /\ q.client \in Client /\ q.number \in 1 .. MaxCalls /\ q.seen \in Nat
    BY <1>1, <1>2 DEF RequestRecord
  <2>2. AppliedTo(q) > 0 => rev > q.seen
    BY <1>4, <2>1 DEF RequestsInv
  <2>3. CASE q.client = r.client /\ q.number = r.number /\ Calls!Changes(r)
    <3>1. r.effect = "guarded" /\ q.seen = r.seen
      BY <1>4, <2>1, <2>3 DEF RequestsInv
    <3> QED
      BY <1>1, <2>1, <2>3, <3>1, EffectFacts
  <2>4. CASE ~(q.client = r.client /\ q.number = r.number /\ Calls!Changes(r))
    <3>1. AppliedTo(q)' = AppliedTo(q)
      BY <2>1, <2>4, EffectFacts DEF AppliedTo
    <3> QED
      BY <1>1, <1>4, <2>1, <2>2, <3>1
  <2> QED
    BY <2>3, <2>4
<1>5. \A q, p \in flight' : q.client = p.client /\ q.number = p.number =>
         q.effect = p.effect /\ q.seen = p.seen
  BY <1>1 DEF RequestsInv
<1> QED
  BY <1>1, <1>2, <1>3, <1>4, <1>5, EffectFacts DEF RequestsInv

(* A request leaves the flight, and changes nothing. *)
LEMMA GoneRequests ==
    ASSUME RequestsInv, flight' \subseteq flight, UNCHANGED <<rev, applied>>
    PROVE  RequestsInv'
  BY DEF RequestsInv, AppliedTo

(* A request is sent for a command whose other requests are like it. *)
LEMMA SentRequests ==
    ASSUME RequestsInv, NEW r \in RequestRecord, flight' \subseteq flight \cup {r},
           UNCHANGED <<rev, applied>>,
           \A q \in flight : q.client = r.client /\ q.number = r.number =>
              q.effect = r.effect /\ q.seen = r.seen,
           r.effect = "mint" => r.try = 0 /\ AppliedTo(r) = 0,
           r.effect = "guarded" /\ AppliedTo(r) > 0 => rev > r.seen
    PROVE  RequestsInv'
  BY DEF RequestsInv, AppliedTo

(* The request that a client awaits is the one of its try. *)
LEMMA OnlyTry ==
    ASSUME CallsInv, NEW r \in flight, NEW c \in Client, Mine(c, r), call[c].try = 0
    PROVE  r = Calls!Request(c, call[c])
<1>1. r \in RequestRecord /\ CallInv(c)
  BY DEF CallsInv, RequestsInv
<1>2. r.try \in Nat /\ r.try <= 0 /\ r.effect = call[c].cmd.effect /\ r.seen = call[c].seen
  BY <1>1 DEF CallInv, RequestRecord
<1>3. r.try = 0
  BY <1>2
<1> QED
  BY <1>1, <1>2, <1>3 DEF RequestRecord, Mine, Calls!Request

(* A client that is not answered, or was before, is none the worse for what  *)
(* becomes of a request of another one, or of an earlier command.            *)
LEMMA Bystanders ==
    ASSUME CallsInv, NEW r \in flight, Calls!Effect(r), NEW c \in Client, c # r.client,
           call'[c] = call[c], reply'[c] = reply[c]
    PROVE  CallInv(c)'
<1>1. RequestsInv /\ CallInv(c)
  BY DEF CallsInv
<1>2. rev' \in Nat /\ rev' >= rev /\ applied'[c] = applied[c] /\ flight' = flight \ {r}
  BY <1>1, EffectFacts
<1> QED
  BY <1>1, <1>2, Bystander

(* The Worker has done its work for a client that awaits it, and something   *)
(* is answered that warrants its outcome.                                    *)
LEMMA Answered ==
    ASSUME CallsInv, NEW r \in flight, Calls!Awaited(r), Calls!Effect(r),
           NEW answer, reply' = [reply EXCEPT ![r.client] = answer], UNCHANGED call,
           answer # Calls!NoAnswer,
           Calls!Outcome(call[r.client].cmd, answer) = "ok"
              /\ Calls!Writes(call[r.client].cmd) => Calls!Changes(r),
           Calls!Outcome(call[r.client].cmd, answer) \in Calls!Definite => ~Calls!Changes(r)
    PROVE  CallsInv'
<1> DEFINE c == r.client
           k == call[c]
           times == Times(c)
<1>1. /\ RequestsInv /\ DOMAIN call = Client /\ DOMAIN reply = Client
      /\ c \in Client /\ CallInv(c) /\ r \in RequestRecord
  BY DEF CallsInv, RequestsInv, RequestRecord
<1>2. Calls!Waiting(c) /\ r = Calls!Request(c, k)
  BY DEF Calls!Awaited
<1>3. /\ k.number = r.number /\ k.cmd.effect = r.effect /\ k.seen = r.seen
      /\ k.try = r.try /\ k.number \in 1 .. MaxCalls /\ k.busy /\ k.number > 0
  <2>1. /\ k.number = r.number /\ k.cmd.effect = r.effect /\ k.seen = r.seen /\ k.try = r.try
    BY <1>2 DEF Calls!Request
  <2> QED
    BY <1>1, <1>2, <2>1 DEF RequestRecord, Calls!Waiting
<1>4. /\ flight' = flight \ {r} /\ rev' \in Nat /\ rev' >= rev /\ rev \in Nat
      /\ \A n \in 1 .. MaxCalls : n # k.number => applied'[c][n] = applied[c][n]
      /\ Times(c)' = IF Calls!Changes(r) THEN times + 1 ELSE times
      /\ times \in Nat
      /\ Calls!Changes(r) /\ r.effect = "guarded" => rev = r.seen /\ rev' = rev + 1
  <2>1. /\ flight' = flight \ {r} /\ rev' \in Nat /\ rev' >= rev
        /\ \A n \in 1 .. MaxCalls : n # r.number => applied'[c][n] = applied[c][n]
        /\ AppliedTo(r)' = IF Calls!Changes(r) THEN AppliedTo(r) + 1 ELSE AppliedTo(r)
        /\ Calls!Changes(r) /\ r.effect = "guarded" => rev = r.seen /\ rev' = rev + 1
    BY <1>1, EffectFacts
  <2>2. times = AppliedTo(r) /\ Times(c)' = AppliedTo(r)'
    BY <1>3 DEF Times, AppliedTo
  <2>3. rev \in Nat /\ times \in Nat
    BY <1>1, <1>3 DEF RequestsInv, Times
  <2> HIDE DEF k, times
  <2> QED
    BY <1>3, <2>1, <2>2, <2>3
<1>5. reply'[c] = answer /\ call'[c] = k
  BY <1>1
<1>6. k.try = 0 => times = 0 /\ Left(c)' = {}
  <2> SUFFICES ASSUME k.try = 0 PROVE times = 0 /\ Left(c)' = {}
    OBVIOUS
  <2>1. times = 0
    BY <1>1, <1>2 DEF CallInv, Times
  <2>2. ASSUME NEW q \in flight', Mine(c, q)' PROVE FALSE
    <3>1. q \in flight /\ q # r /\ Mine(c, q)
      BY <1>4, <1>5, <2>2 DEF Mine
    <3>2. q = Calls!Request(c, k)
      BY <1>1, <3>1, OnlyTry
    <3> QED
      BY <1>2, <3>1, <3>2
  <2> QED
    BY <2>1, <2>2 DEF Left
<1> DEFINE o == Calls!Outcome(k.cmd, answer)
<1>7. Warranted(k, Times(c)', Left(c)', o)
  BY <1>4, <1>6 DEF Warranted
<1>8. CallInv(c)'
  <2>1. CallRecord(k) /\ (k.cmd.once => k.try = 0)
    BY <1>1 DEF CallInv
  <2>2. \A n \in 1 .. MaxCalls : n > k.number => applied'[c][n] = 0
    BY <1>1, <1>3, <1>4 DEF CallInv
  <2>3. \A q \in flight' : /\ q.client = c => q.number <= k.number
                           /\ Mine(c, q)' => /\ q.try <= k.try
                                             /\ q.effect = k.cmd.effect /\ q.seen = k.seen
    BY <1>1, <1>4, <1>5 DEF CallInv, Mine
  <2>4. k.cmd.effect = "guarded" /\ Times(c)' > 0 => rev' > k.seen
    <3>1. k.seen \in Nat
      BY <1>1 DEF CallInv, CallRecord
    <3>2. k.cmd.effect = "guarded" /\ times > 0 => rev > k.seen
      BY <1>1, <1>3 DEF CallInv, Times
    <3> QED
      BY <1>3, <1>4, <3>1, <3>2
  <2>5. (reply[c] # Calls!NoAnswer)' /\ ~Calls!Waiting(c)'
    BY <1>5 DEF Calls!NoAnswer, Calls!Answer, Calls!Waiting
  <2>6. Believed(c, Calls!Outcome(call[c].cmd, reply[c]))'
    BY <1>5, <1>7 DEF Believed
  <2> HIDE DEF k, times, o
  <2>7. Times(c)' = applied'[c][k.number]
    BY <1>5 DEF Times
  <2> QED
    BY <1>3, <1>5, <2>1, <2>2, <2>3, <2>4, <2>5, <2>6, <2>7 DEF CallInv
<1>9. ASSUME NEW d \in Client, d # c PROVE CallInv(d)'
  BY <1>9, Bystanders
<1>10. RequestsInv'
  BY <1>1, EffectRequests
<1> QED
  BY <1>1, <1>8, <1>9, <1>10 DEF CallsInv

LEMMA WorkerStep ==
    ASSUME CallsInv, NEW r \in flight, Calls!Serve(r) \/ Calls!ServeInVain(r)
    PROVE  CallsInv'
<1>1. /\ RequestsInv /\ r \in RequestRecord /\ r.client \in Client /\ CallInv(r.client)
      /\ Calls!Awaited(r) /\ Calls!Effect(r) /\ UNCHANGED call
  BY DEF CallsInv, RequestsInv, RequestRecord, Calls!Serve, Calls!ServeInVain
<1> DEFINE cmd == call[r.client].cmd
<1>2. cmd \in Calls!Commands /\ r.effect = cmd.effect
  BY <1>1 DEF CallInv, CallRecord, Calls!Awaited, Calls!Request
<1>3. (Calls!Changes(r) <=> Calls!Status(r) < 300 /\ r.effect # "read")
      /\ (Calls!Writes(cmd) <=> r.effect # "read")
  BY <1>2 DEF Calls!Changes, Calls!Writes
<1>4. CASE Calls!Serve(r)
  <2> DEFINE st == Calls!Status(r)
             answer == Calls!Answer(st, IF st = 204 THEN "empty" ELSE "own")
  <2>1. st \in {200, 204, 404, 409, 412} /\ (st = 204 => r.effect = "remove")
    BY DEF Calls!Status
  <2>2. st = 204 => ~cmd.document
    BY <1>2, <2>1, CommandFacts
  <2>3. reply' = [reply EXCEPT ![r.client] = answer]
    BY <1>4 DEF Calls!Serve
  <2>4. st = Calls!Status(r)
    OBVIOUS
  <2>5. answer = Calls!Answer(st, IF st = 204 THEN "empty" ELSE "own")
    OBVIOUS
  <2> HIDE DEF st, answer, cmd
  <2>6. /\ answer # Calls!NoAnswer
        /\ st < 300 => Calls!Outcome(cmd, answer) = "ok"
        /\ Calls!Outcome(cmd, answer) = "ok" => st < 300
    BY <2>1, <2>2, <2>5, OwnOutcome
  <2>7. Calls!Outcome(cmd, answer) = "ok" /\ Calls!Writes(cmd) => Calls!Changes(r)
    BY <1>3, <2>4, <2>6
  <2>8. "ok" \notin Calls!Definite
    BY DEF Calls!Definite
  <2>9. Calls!Outcome(cmd, answer) \in Calls!Definite => ~Calls!Changes(r)
    BY <1>3, <2>4, <2>6, <2>8
  <2> QED
    BY <1>1, <2>3, <2>6, <2>7, <2>9, Answered DEF cmd
<1>5. CASE Calls!ServeInVain(r)
  <2>1. PICK answer \in Calls!LateAnswers : reply' = [reply EXCEPT ![r.client] = answer]
    BY <1>5 DEF Calls!ServeInVain
  <2> HIDE DEF cmd
  <2>2. answer # Calls!NoAnswer /\ Calls!Outcome(cmd, answer) \notin Calls!Definite \cup {"ok"}
    BY LateOutcome
  <2> QED
    BY <1>1, <2>1, <2>2, Answered DEF cmd
<1> QED
  BY <1>4, <1>5

(* A request that nobody awaits is of an earlier command, or of an earlier   *)
(* try: then its client has tried again, or has concluded nothing definite.  *)
LEMMA ServeLateStep ==
    ASSUME CallsInv, NEW r \in flight, Calls!ServeLate(r)
    PROVE  CallsInv'
<1> DEFINE c == r.client
           k == call[c]
<1>1. /\ RequestsInv /\ r \in RequestRecord /\ c \in Client /\ CallInv(c)
      /\ DOMAIN call = Client /\ DOMAIN reply = Client
      /\ r.number \in 1 .. MaxCalls /\ r.number <= k.number
  BY DEF CallsInv, RequestsInv, RequestRecord, CallInv
<1>2. ~Calls!Awaited(r) /\ Calls!Effect(r) /\ UNCHANGED <<call, reply>>
  BY DEF Calls!ServeLate
<1>3. RequestsInv' /\ \A d \in Client : d # c => CallInv(d)'
  BY <1>1, <1>2, EffectRequests, Bystanders
<1>4. /\ flight' = flight \ {r} /\ rev' \in Nat /\ rev' >= rev /\ rev \in Nat
      /\ \A n \in 1 .. MaxCalls : n # r.number => applied'[c][n] = applied[c][n]
      /\ applied[c] \in [1 .. MaxCalls -> Nat]
      /\ AppliedTo(r)' = IF Calls!Changes(r) THEN AppliedTo(r) + 1 ELSE AppliedTo(r)
      /\ Calls!Changes(r) /\ r.effect = "guarded" => rev = r.seen /\ rev' = rev + 1
  BY <1>1, <1>2, EffectFacts DEF RequestsInv
<1>5. k.number \in 0 .. MaxCalls /\ k.seen \in Nat /\ k.try \in Nat
  BY <1>1 DEF CallInv, CallRecord
<1>6. k.number \in 1 .. MaxCalls /\ k.number > 0
  BY <1>1, <1>5
<1>7. r.number = k.number => Mine(c, r) /\ r \in Left(c) /\ Times(c) = AppliedTo(r)
  BY <1>1 DEF Mine, Left, Times, AppliedTo
<1>8. /\ Times(c) \in Nat /\ Times(c)' \in Nat /\ Times(c)' >= Times(c)
      /\ r.number # k.number => Times(c)' = Times(c)
      /\ Times(c)' # Times(c) /\ r.effect = "guarded" => rev' > r.seen
  <2>1. Times(c) \in Nat /\ Times(c)' = applied'[c][k.number]
    BY <1>2, <1>4, <1>6 DEF Times
  <2>2. CASE r.number # k.number
    BY <1>4, <1>6, <2>1, <2>2 DEF Times
  <2>3. CASE r.number = k.number
    <3>1. Times(c)' = AppliedTo(r)'
      BY <1>2, <2>1, <2>3 DEF AppliedTo
    <3>2. r.effect = "guarded" => r.seen \in Nat
      BY <1>1 DEF RequestRecord
    <3> HIDE DEF k
    <3> QED
      BY <1>4, <1>7, <2>1, <2>3, <3>1, <3>2
  <2> QED
    BY <2>2, <2>3
<1>9. Left(c)' \subseteq Left(c)
  BY <1>2, <1>4 DEF Left, Mine
<1>10. \A o : Believed(c, o) => Warranted(k, Times(c)', Left(c)', o)
  <2> SUFFICES ASSUME NEW o, Believed(c, o) PROVE Warranted(k, Times(c)', Left(c)', o)
    OBVIOUS
  <2>1. o = "ok" /\ Calls!Writes(k.cmd) /\ (k.cmd.document \/ ~k.foreign) => Times(c)' > 0
    BY <1>8 DEF Believed, Warranted
  <2>2. k.try = 0 /\ o \in Calls!Definite => Times(c)' = 0 /\ Left(c)' = {}
    BY <1>7, <1>8, <1>9 DEF Believed, Warranted
  <2> QED
    BY <2>1, <2>2 DEF Warranted
<1>11. CallInv(c)'
  <2>1. CallRecord(k) /\ (k.cmd.once => k.try = 0) /\ (k.busy => k.number > 0)
    BY <1>1 DEF CallInv
  <2>2. \A n \in 1 .. MaxCalls : n > k.number => applied'[c][n] = 0
    BY <1>1, <1>4, <1>5 DEF CallInv
  <2>3. \A q \in flight' : /\ q.client = c => q.number <= k.number
                           /\ Mine(c, q)' => /\ q.try <= k.try
                                             /\ q.effect = k.cmd.effect /\ q.seen = k.seen
    BY <1>1, <1>2, <1>4 DEF CallInv, Mine
  <2>4. Calls!Waiting(c) /\ k.try = 0 => Times(c)' = 0
    <3>1. Calls!Waiting(c) /\ k.try = 0 => Times(c) = 0
      BY <1>1 DEF CallInv, Times
    <3>2. r.number = k.number /\ k.try = 0 => r = Calls!Request(c, k)
      BY <1>1, <1>7, OnlyTry
    <3>3. Calls!Waiting(c) /\ k.try = 0 => r.number # k.number
      BY <1>2, <3>2 DEF Calls!Awaited
    <3> QED
      BY <1>8, <3>1, <3>3
  <2>5. k.number > 0 /\ k.cmd.effect = "guarded" /\ Times(c)' > 0 => rev' > k.seen
    <3>1. k.cmd.effect = "guarded" /\ Times(c) > 0 => rev > k.seen
      BY <1>1, <1>6 DEF CallInv, Times
    <3>2. r.number = k.number => r.effect = k.cmd.effect /\ r.seen = k.seen
      BY <1>1, <1>7 DEF CallInv
    <3> HIDE DEF k, c
    <3> QED
      BY <1>4, <1>5, <1>8, <3>1, <3>2
  <2>6. reply[c] # Calls!NoAnswer =>
           k.busy /\ Warranted(k, Times(c)', Left(c)', Calls!Outcome(k.cmd, reply[c]))
    BY <1>1, <1>10 DEF CallInv
  <2>7. ~k.busy /\ k.number > 0 => Warranted(k, Times(c)', Left(c)', k.outcome)
    BY <1>1, <1>10 DEF CallInv
  <2>8. /\ call'[c] = k /\ reply'[c] = reply[c]
        /\ Times(c)' = applied'[c][k.number]
        /\ Calls!Waiting(c)' <=> Calls!Waiting(c)
        /\ (reply[c] # Calls!NoAnswer)' <=> reply[c] # Calls!NoAnswer
    BY <1>2 DEF Times, Calls!Waiting, Calls!NoAnswer, Calls!Answer
  <2>9. /\ (reply[c] # Calls!NoAnswer =>
              call[c].busy /\ Believed(c, Calls!Outcome(call[c].cmd, reply[c])))'
        /\ (~call[c].busy /\ call[c].number > 0 => Believed(c, call[c].outcome))'
    BY <1>2, <2>6, <2>7, <2>8 DEF Believed
  <2> HIDE DEF k, c
  <2> QED
    BY <2>1, <2>2, <2>3, <2>4, <2>5, <2>8, <2>9 DEF CallInv
<1> QED
  BY <1>1, <1>2, <1>3, <1>11 DEF CallsInv

(* The other clients, when only what c has in flight changes.                *)
LEMMA Others ==
    ASSUME CallsInv, NEW c \in Client, NEW d \in Client, d # c, UNCHANGED Calls!server,
           call'[d] = call[d], reply'[d] = reply[d],
           \A r \in flight' : r.client = d => r \in flight
    PROVE  CallInv(d)'
<1>1. RequestsInv /\ CallInv(d) /\ rev \in Nat /\ rev' = rev /\ applied' = applied
  BY DEF CallsInv, RequestsInv, Calls!server
<1> QED
  BY <1>1, Bystander

LEMMA VanishStep ==
    ASSUME CallsInv, NEW r \in flight, Calls!Vanish(r)
    PROVE  CallsInv'
<1>1. /\ flight' = flight \ {r} /\ UNCHANGED Calls!server /\ rev' = rev /\ applied' = applied
      /\ call' = call /\ reply' = reply
  BY DEF Calls!Vanish, Calls!server
<1>2. RequestsInv /\ rev \in Nat /\ \A c \in Client : CallInv(c)
  BY DEF CallsInv, RequestsInv
<1>3. RequestsInv'
  BY <1>1, <1>2, GoneRequests
<1>4. \A c \in Client : CallInv(c)'
  BY <1>1, <1>2, Bystander
<1> QED
  BY <1>1, <1>3, <1>4 DEF CallsInv

(* What the edge answers is not the document of a command, and the Worker    *)
(* has not seen the request.                                                 *)
LEMMA InterceptStep ==
    ASSUME CallsInv, NEW r \in flight, Calls!Intercept(r)
    PROVE  CallsInv'
<1> DEFINE c == r.client
           k == call[c]
<1>1. /\ RequestsInv /\ r \in RequestRecord /\ c \in Client /\ CallInv(c)
      /\ DOMAIN call = Client /\ DOMAIN reply = Client
  BY DEF CallsInv, RequestsInv, RequestRecord
<1>2. /\ Calls!Waiting(c) /\ r = Calls!Request(c, k) /\ k.busy
      /\ flight' = flight \ {r} /\ UNCHANGED Calls!server /\ rev' = rev /\ applied' = applied
  BY DEF Calls!Intercept, Calls!Awaited, Calls!server, Calls!Waiting
<1>3. PICK answer \in Calls!EdgeAnswers :
         /\ reply' = [reply EXCEPT ![c] = answer]
         /\ call' = [call EXCEPT ![c].foreign = (answer.json /\ ~answer.own)]
  BY DEF Calls!Intercept
<1> DEFINE strange == answer.json /\ ~answer.own
           new == [k EXCEPT !.foreign = strange]
<1>4. /\ call'[c] = new /\ reply'[c] = answer
      /\ \A d \in Client : d # c => call'[d] = call[d] /\ reply'[d] = reply[d]
      /\ DOMAIN call' = Client /\ DOMAIN reply' = Client
  BY <1>1, <1>3
<1>5. CallRecord(k)
  BY <1>1 DEF CallInv
<1>6. /\ new.cmd = k.cmd /\ new.busy = k.busy /\ new.number = k.number /\ new.try = k.try
      /\ new.seen = k.seen /\ new.outcome = k.outcome
      /\ (new.foreign <=> answer.json /\ ~answer.own) /\ CallRecord(new)
  <2>1. /\ new.cmd = k.cmd /\ new.busy = k.busy /\ new.number = k.number
        /\ new.try = k.try /\ new.seen = k.seen /\ new.outcome = k.outcome
        /\ new.foreign = strange /\ DOMAIN new = DOMAIN k
    <3>1. "foreign" \in DOMAIN k
      BY <1>5 DEF CallRecord
    <3> HIDE DEF k, strange
    <3> QED
      BY <3>1
  <2>2. strange \in BOOLEAN
    OBVIOUS
  <2>3. strange <=> answer.json /\ ~answer.own
    OBVIOUS
  <2> HIDE DEF strange, new, k
  <2> QED
    BY <1>5, <2>1, <2>2, <2>3 DEF CallRecord
<1>7. Times(c)' = Times(c) /\ Left(c)' \subseteq Left(c) /\ r \notin Left(c)'
  BY <1>2, <1>4, <1>6 DEF Times, Left, Mine
<1>8. k.try = 0 => Times(c) = 0 /\ Left(c)' = {}
  <2> SUFFICES ASSUME k.try = 0 PROVE Times(c) = 0 /\ Left(c)' = {}
    OBVIOUS
  <2>1. Times(c) = 0
    BY <1>1, <1>2 DEF CallInv, Times
  <2>2. \A q \in Left(c) : q = r
    BY <1>1, <1>2, OnlyTry DEF Left
  <2> QED
    BY <1>7, <2>1, <2>2
<1> DEFINE o == Calls!Outcome(k.cmd, answer)
<1>9. answer # Calls!NoAnswer /\ (o = "ok" => ~k.cmd.document /\ answer.json /\ ~answer.own)
  BY EdgeOutcome
<1>10. Warranted(new, Times(c)', Left(c)', o)
  <2> HIDE DEF o, new
  <2> QED
    BY <1>6, <1>7, <1>8, <1>9 DEF Warranted
<1> HIDE DEF new, k
<1>11. CallInv(c)'
  <2>1. /\ k.cmd.once => k.try = 0
        /\ k.number > 0
        /\ \A n \in 1 .. MaxCalls : n > k.number => applied[c][n] = 0
        /\ \A q \in flight : q.client = c => q.number <= k.number
        /\ \A q \in flight : Mine(c, q) =>
              q.try <= k.try /\ q.effect = k.cmd.effect /\ q.seen = k.seen
        /\ k.cmd.effect = "guarded" /\ Times(c) > 0 => rev > k.seen
    BY <1>1, <1>2 DEF CallInv, k, Times
  <2>2. \A q \in flight' : q \in flight /\ (Mine(c, q)' <=> Mine(c, q))
    BY <1>2, <1>4, <1>6 DEF Mine, k
  <2>3. (reply[c] # Calls!NoAnswer)' /\ ~Calls!Waiting(c)'
    BY <1>4, <1>9 DEF Calls!NoAnswer, Calls!Answer, Calls!Waiting
  <2>4. Believed(c, Calls!Outcome(call[c].cmd, reply[c]))'
    BY <1>4, <1>6, <1>10 DEF Believed
  <2>5. Times(c)' = applied'[c][new.number]
    BY <1>4 DEF Times
  <2> HIDE DEF o, c
  <2> QED
    BY <1>2, <1>4, <1>6, <1>7, <2>1, <2>2, <2>3, <2>4, <2>5 DEF CallInv
<1>12. RequestsInv'
  BY <1>1, <1>2, GoneRequests
<1>13. ASSUME NEW d \in Client, d # c PROVE CallInv(d)'
  BY <1>1, <1>2, <1>4, <1>13, Others
<1> QED
  BY <1>4, <1>11, <1>12, <1>13 DEF CallsInv

(* A client starts a command: its number is new, and so is all about it.     *)
LEMMA BeginStep ==
    ASSUME CallsInv, NEW c \in Client, NEW cmd \in Calls!Commands, Calls!Begin(c, cmd)
    PROVE  CallsInv'
<1> DEFINE k == call[c]
<1>1. /\ RequestsInv /\ CallInv(c) /\ DOMAIN call = Client /\ DOMAIN reply = Client
      /\ CallRecord(k) /\ ~k.busy /\ k.number \in 0 .. MaxCalls /\ k.number < MaxCalls
      /\ rev \in Nat /\ reply[c] = Calls!NoAnswer
      /\ UNCHANGED <<Calls!server, reply>> /\ rev' = rev /\ applied' = applied
  BY DEF CallsInv, RequestsInv, CallInv, CallRecord, Calls!Begin, Calls!server
<1>2. PICK seen \in IF cmd.effect = "guarded" THEN 0 .. rev ELSE {0} :
         Calls!Send(c, [call[c] EXCEPT !.cmd = cmd, !.busy = TRUE, !.number = @ + 1,
                                       !.try = 0, !.seen = seen, !.foreign = FALSE])
  BY DEF Calls!Begin
<1> DEFINE new == [call[c] EXCEPT !.cmd = cmd, !.busy = TRUE, !.number = @ + 1,
                                  !.try = 0, !.seen = seen, !.foreign = FALSE]
           r == Calls!Request(c, new)
<1>3. /\ seen \in Nat /\ DOMAIN new = DOMAIN k /\ new.cmd = cmd /\ new.busy
      /\ new.number = k.number + 1 /\ new.try = 0 /\ new.seen = seen /\ ~new.foreign
  BY <1>1, <1>2 DEF CallRecord
<1>4. call' = [call EXCEPT ![c] = new] /\ flight' = flight \cup {r}
  BY <1>2 DEF Calls!Send
<1>5. /\ call'[c] = new /\ reply'[c] = Calls!NoAnswer
      /\ \A d \in Client : d # c => call'[d] = call[d] /\ reply'[d] = reply[d]
      /\ DOMAIN call' = Client /\ DOMAIN reply' = Client
  BY <1>1, <1>4
<1>6. CallRecord(new) /\ new.number \in 1 .. MaxCalls /\ new.number > k.number
  BY <1>1, <1>3, BoundsAssumption DEF CallRecord
<1>7. /\ r.client = c /\ r.number = new.number /\ r.try = 0 /\ r.effect = cmd.effect
      /\ r.seen = seen
  BY DEF Calls!Request
<1>8. r \in RequestRecord
  BY <1>3, <1>6, CommandFacts DEF RequestRecord, Calls!Request
<1>9. AppliedTo(r) = 0 /\ \A n \in 1 .. MaxCalls : n > k.number => applied[c][n] = 0
  BY <1>1, <1>6, <1>7 DEF CallInv, AppliedTo
<1>10. \A q \in flight : q.client = c => q.number # new.number /\ q.number <= new.number
  <2> SUFFICES ASSUME NEW q \in flight, q.client = c
               PROVE  q.number # new.number /\ q.number <= new.number
    OBVIOUS
  <2>1. q.number \in 1 .. MaxCalls /\ q.number <= k.number
    BY <1>1 DEF CallInv, RequestsInv, RequestRecord
  <2> QED
    BY <1>1, <2>1
<1> HIDE DEF r
<1>11. RequestsInv'
  BY <1>1, <1>4, <1>7, <1>8, <1>9, <1>10, SentRequests DEF Calls!server
<1>12. CallInv(c)'
  <2>1. \A q \in flight' : Mine(c, q)' <=> q = r
    BY <1>4, <1>5, <1>7, <1>10 DEF Mine
  <2>2. applied'[c][new.number] = 0 /\ \A n \in 1 .. MaxCalls : n > new.number => applied'[c][n] = 0
    BY <1>1, <1>6, <1>9
  <2>3. (reply[c] = Calls!NoAnswer)'
    BY <1>5 DEF Calls!NoAnswer, Calls!Answer
  <2>4. new.busy /\ new.try = 0 /\ new.seen = seen /\ new.cmd = cmd
    OBVIOUS
  <2>5. \A q \in flight' : q.client = c => q.number <= new.number
    BY <1>4, <1>6, <1>7, <1>10
  <2> HIDE DEF new
  <2> QED
    BY <1>5, <1>6, <1>7, <2>1, <2>2, <2>3, <2>4, <2>5 DEF CallInv
<1>13. ASSUME NEW d \in Client, d # c PROVE CallInv(d)'
  BY <1>1, <1>4, <1>5, <1>7, <1>13, Others
<1> QED
  BY <1>5, <1>11, <1>12, <1>13 DEF CallsInv

(* A client tries again.                                                     *)
LEMMA AgainStep ==
    ASSUME CallsInv, NEW c \in Client, call[c].busy, ~call[c].cmd.once,
           UNCHANGED Calls!server, reply' = [reply EXCEPT ![c] = Calls!NoAnswer],
           call' = [call EXCEPT ![c] = [call[c] EXCEPT !.try = @ + 1]],
           flight' \subseteq
               flight \cup {Calls!Request(c, [call[c] EXCEPT !.try = @ + 1])}
    PROVE  CallsInv'
<1> DEFINE k == call[c]
           new == [call[c] EXCEPT !.try = @ + 1]
           r == Calls!Request(c, new)
<1>1. /\ RequestsInv /\ CallInv(c) /\ DOMAIN call = Client /\ DOMAIN reply = Client
      /\ CallRecord(k) /\ k.number \in 0 .. MaxCalls /\ k.number > 0 /\ k.try \in Nat
      /\ k.seen \in Nat /\ rev \in Nat /\ rev' = rev /\ applied' = applied
  BY DEF CallsInv, RequestsInv, CallInv, CallRecord, Calls!server
<1>2. /\ DOMAIN new = DOMAIN k /\ new.cmd = k.cmd /\ new.busy = k.busy
      /\ new.number = k.number /\ new.try = k.try + 1 /\ new.seen = k.seen
      /\ new.foreign = k.foreign
  BY <1>1 DEF CallRecord
<1> HIDE DEF new
<1>3. CallRecord(new) /\ new.busy /\ new.number \in 1 .. MaxCalls /\ new.try > 0
  <2>1. new.number \in 1 .. MaxCalls /\ new.try \in Nat /\ new.try > 0 /\ k.busy
    BY <1>1, <1>2
  <2> HIDE DEF k
  <2> QED
    BY <1>1, <1>2, <2>1 DEF CallRecord
<1>4. /\ call'[c] = new /\ reply'[c] = Calls!NoAnswer
      /\ \A d \in Client : d # c => call'[d] = call[d] /\ reply'[d] = reply[d]
      /\ DOMAIN call' = Client /\ DOMAIN reply' = Client
  BY <1>1 DEF new
<1>5. /\ r.client = c /\ r.number = k.number /\ r.try = k.try + 1
      /\ r.effect = k.cmd.effect /\ r.seen = k.seen
  BY <1>2 DEF Calls!Request
<1>6. r \in RequestRecord /\ r.effect # "mint"
  <2>1. k.cmd \in Calls!Commands
    BY <1>1 DEF CallRecord
  <2>2. k.cmd.effect # "mint"
        /\ k.cmd.effect \in {"read", "create", "remove", "set", "guarded", "mint"}
    BY <2>1, CommandFacts
  <2> QED
    BY <1>1, <1>2, <1>3, <2>2 DEF RequestRecord, Calls!Request
<1>7. flight' \subseteq flight \cup {r}
  BY DEF new
<1>8. \A q \in flight : Mine(c, q) =>
         q.try \in Nat /\ q.try <= k.try /\ q.effect = k.cmd.effect /\ q.seen = k.seen
  BY <1>1 DEF CallInv, RequestsInv, RequestRecord
<1>9. r.effect = "guarded" /\ AppliedTo(r) > 0 => rev > r.seen
  BY <1>1, <1>5 DEF CallInv, AppliedTo
<1> HIDE DEF r
<1>10. RequestsInv'
  BY <1>1, <1>5, <1>6, <1>7, <1>8, <1>9, SentRequests DEF Mine
<1>11. CallInv(c)'
  <2>1. /\ \A n \in 1 .. MaxCalls : n > k.number => applied[c][n] = 0
        /\ \A q \in flight : q.client = c => q.number <= k.number
        /\ k.cmd.effect = "guarded" /\ applied[c][k.number] > 0 => rev > k.seen
    BY <1>1 DEF CallInv
  <2>2. \A q \in flight' : /\ q.client = c => q.number <= k.number
                           /\ Mine(c, q)' => q.try <= new.try /\ q.effect = k.cmd.effect
                                             /\ q.seen = k.seen
    <3> SUFFICES ASSUME NEW q \in flight', q.client = c
                 PROVE  /\ q.number <= k.number
                        /\ Mine(c, q)' => q.try <= new.try /\ q.effect = k.cmd.effect
                                          /\ q.seen = k.seen
      BY DEF Mine
    <3>1. CASE q = r
      BY <1>1, <1>2, <1>5, <3>1
    <3>2. CASE q \in flight
      <4>1. Mine(c, q)' => Mine(c, q)
        BY <1>2, <1>4 DEF Mine
      <4> QED
        BY <1>1, <1>2, <1>8, <2>1, <3>2, <4>1
    <3> QED
      BY <1>7, <3>1, <3>2
  <2>3. (reply[c] = Calls!NoAnswer)'
    BY <1>4 DEF Calls!NoAnswer, Calls!Answer
  <2>4. ~new.cmd.once /\ new.try # 0 /\ new.number > 0 /\ rev' = rev /\ applied' = applied
    BY <1>1, <1>2, <1>3
  <2> HIDE DEF k
  <2>5. /\ \A n \in 1 .. MaxCalls : n > new.number => applied'[c][n] = 0
        /\ \A q \in flight' : q.client = c => q.number <= new.number
        /\ \A q \in flight' : Mine(c, q)' =>
              q.try <= new.try /\ q.effect = new.cmd.effect /\ q.seen = new.seen
        /\ new.cmd.effect = "guarded" /\ applied'[c][new.number] > 0 => rev' > new.seen
    BY <1>2, <2>1, <2>2, <2>4
  <2> QED
    BY <1>3, <1>4, <2>3, <2>4, <2>5 DEF CallInv, Calls!Waiting
<1>12. ASSUME NEW d \in Client, d # c PROVE CallInv(d)'
  BY <1>1, <1>4, <1>5, <1>7, <1>12, Others
<1> QED
  BY <1>4, <1>10, <1>11, <1>12 DEF CallsInv

(* A client ends its command, with an outcome that is warranted.             *)
LEMMA EndStep ==
    ASSUME CallsInv, NEW c \in Client, call[c].busy, NEW outcome,
           UNCHANGED Calls!server, reply' = [reply EXCEPT ![c] = Calls!NoAnswer],
           call' = [call EXCEPT ![c].busy = FALSE, ![c].outcome = outcome],
           flight' \subseteq flight,
           Warranted(call[c], Times(c), {r \in flight' : Mine(c, r)}, outcome)
    PROVE  CallsInv'
<1> DEFINE k == call[c]
           new == [call[c] EXCEPT !.busy = FALSE, !.outcome = outcome]
<1>1. /\ RequestsInv /\ CallInv(c) /\ DOMAIN call = Client /\ DOMAIN reply = Client
      /\ CallRecord(k) /\ rev' = rev /\ applied' = applied
  BY DEF CallsInv, CallInv, Calls!server
<1>2. /\ DOMAIN new = DOMAIN k /\ new.cmd = k.cmd /\ ~new.busy
      /\ new.number = k.number /\ new.try = k.try /\ new.seen = k.seen
      /\ new.foreign = k.foreign /\ new.outcome = outcome
  BY <1>1 DEF CallRecord
<1>3. CallRecord(new)
  BY <1>1, <1>2 DEF CallRecord
<1>4. /\ call'[c] = new /\ reply'[c] = Calls!NoAnswer
      /\ \A d \in Client : d # c => call'[d] = call[d] /\ reply'[d] = reply[d]
      /\ DOMAIN call' = Client /\ DOMAIN reply' = Client
  BY <1>1
<1> HIDE DEF new
<1>5. RequestsInv'
  BY <1>1, GoneRequests
<1>6. CallInv(c)'
  <2>1. /\ k.cmd.once => k.try = 0
        /\ \A n \in 1 .. MaxCalls : n > k.number => applied[c][n] = 0
        /\ \A q \in flight : q.client = c => q.number <= k.number
        /\ \A q \in flight : Mine(c, q) =>
              q.try <= k.try /\ q.effect = k.cmd.effect /\ q.seen = k.seen
        /\ k.number > 0 /\ k.cmd.effect = "guarded" /\ applied[c][k.number] > 0 =>
              rev > k.seen
    BY <1>1 DEF CallInv
  <2>2. \A q \in flight' : q \in flight /\ (Mine(c, q)' <=> Mine(c, q))
    BY <1>2, <1>4 DEF Mine
  <2>3. (reply[c] = Calls!NoAnswer)'
    BY <1>4 DEF Calls!NoAnswer, Calls!Answer
  <2>4. Believed(c, call[c].outcome)'
    <3>1. Times(c)' = Times(c) /\ Left(c)' = {r \in flight' : Mine(c, r)}
      BY <1>1, <1>2, <1>4, <2>2 DEF Times, Left
    <3>2. Warranted(new, Times(c)', Left(c)', outcome)
      BY <1>2, <3>1 DEF Warranted
    <3> QED
      BY <1>2, <1>4, <3>2 DEF Believed
  <2> HIDE DEF k
  <2> QED
    BY <1>1, <1>2, <1>3, <1>4, <2>1, <2>2, <2>3, <2>4 DEF CallInv, Calls!Waiting
<1>7. ASSUME NEW d \in Client, d # c PROVE CallInv(d)'
  BY <1>1, <1>4, <1>7, Others
<1> QED
  BY <1>4, <1>5, <1>6, <1>7 DEF CallsInv

(* A client learns what a try came to.                                       *)
LEMMA ConcludeStep ==
    ASSUME CallsInv, NEW c \in Client, call[c].busy, NEW kind, NEW outcome,
           Calls!Conclude(c, kind, outcome), UNCHANGED Calls!server, Believed(c, outcome)
    PROVE  CallsInv'
<1>1. CASE kind \in Calls!Retryable /\ ~call[c].cmd.once /\ call[c].try < MaxRetries
  BY <1>1, AgainStep DEF Calls!Conclude, Calls!Send
<1>2. CASE ~(kind \in Calls!Retryable /\ ~call[c].cmd.once /\ call[c].try < MaxRetries)
  <2>1. Warranted(call[c], Times(c), {r \in flight' : Mine(c, r)}, outcome)
    BY <1>2 DEF Calls!Conclude, Believed, Left
  <2> QED
    BY <1>2, <2>1, EndStep DEF Calls!Conclude
<1> QED
  BY <1>1, <1>2

LEMMA ReceiveCallStep ==
    ASSUME CallsInv, NEW c \in Client,
           Calls!Receive(c) \/ Calls!Expire(c) \/ Calls!Break(c)
    PROVE  CallsInv'
<1>1. CASE Calls!Receive(c)
  <2>1. call[c].busy /\ reply[c] # Calls!NoAnswer
    BY <1>1 DEF Calls!Receive, Calls!Waiting
  <2>2. Believed(c, Calls!Outcome(call[c].cmd, reply[c]))
    BY <2>1 DEF CallsInv, CallInv
  <2> QED
    BY <1>1, <2>1, <2>2, ConcludeStep DEF Calls!Receive, Calls!server
<1>2. Believed(c, "Timeout") /\ Believed(c, "Unreachable")
  BY DEF Believed, Warranted, Calls!Definite
<1>3. CASE Calls!Expire(c)
  BY <1>2, <1>3, ConcludeStep DEF Calls!Expire, Calls!Waiting, Calls!server
<1>4. CASE Calls!Break(c)
  BY <1>2, <1>4, ConcludeStep DEF Calls!Break, Calls!Waiting, Calls!server
<1> QED
  BY <1>1, <1>3, <1>4

(* The request has not left: nothing is in flight of a first try.            *)
LEMMA RefuseStep ==
    ASSUME CallsInv, NEW c \in Client, Calls!Refuse(c)
    PROVE  CallsInv'
<1>1. /\ CallInv(c) /\ Calls!Waiting(c) /\ call[c].busy /\ UNCHANGED Calls!server
      /\ Calls!Request(c, call[c]) \in flight
  BY DEF CallsInv, Calls!Refuse, Calls!Waiting
<1>2. PICK kind \in {"Unreachable", "TlsFailure"} :
         /\ reply' = [reply EXCEPT ![c] = Calls!NoAnswer]
         /\ IF kind \in Calls!Retryable /\ ~call[c].cmd.once /\ call[c].try < MaxRetries
            THEN LET again == [call[c] EXCEPT !.try = @ + 1] IN
                 /\ call' = [call EXCEPT ![c] = again]
                 /\ flight' = (flight \ {Calls!Request(c, call[c])})
                              \cup {Calls!Request(c, again)}
            ELSE /\ call' = [call EXCEPT ![c].busy = FALSE, ![c].outcome = kind]
                 /\ flight' = flight \ {Calls!Request(c, call[c])}
  BY DEF Calls!Refuse
<1>3. CASE kind \in Calls!Retryable /\ ~call[c].cmd.once /\ call[c].try < MaxRetries
  BY <1>1, <1>2, <1>3, AgainStep
<1>4. CASE ~(kind \in Calls!Retryable /\ ~call[c].cmd.once /\ call[c].try < MaxRetries)
  <2>1. call[c].try = 0 => Times(c) = 0
    BY <1>1 DEF CallInv, Times
  <2>2. call[c].try = 0 => {r \in flight' : Mine(c, r)} = {}
    BY <1>2, <1>4, OnlyTry
  <2>3. Warranted(call[c], Times(c), {r \in flight' : Mine(c, r)}, kind)
    BY <2>1, <2>2 DEF Warranted
  <2> QED
    BY <1>1, <1>2, <1>4, <2>3, EndStep
<1> QED
  BY <1>3, <1>4

LEMMA CallsStep == CallsInv /\ Calls!Next => CallsInv'
<1> SUFFICES ASSUME CallsInv, Calls!Next PROVE CallsInv'
  OBVIOUS
<1>1. ASSUME NEW c \in Client,
             \/ \E cmd \in Calls!Commands : Calls!Begin(c, cmd)
             \/ Calls!Receive(c) \/ Calls!Expire(c) \/ Calls!Break(c) \/ Calls!Refuse(c)
      PROVE  CallsInv'
  BY <1>1, BeginStep, ReceiveCallStep, RefuseStep
<1>2. ASSUME NEW r \in flight,
             Calls!Serve(r) \/ Calls!ServeInVain(r) \/ Calls!ServeLate(r)
                \/ Calls!Intercept(r) \/ Calls!Vanish(r)
      PROVE  CallsInv'
  BY <1>2, WorkerStep, ServeLateStep, InterceptStep, VanishStep
<1> QED
  BY <1>1, <1>2 DEF Calls!Next

(* Only the effect of a request changes what is applied; and it changes the  *)
(* server for one that mints if it has not before, and for one that names a  *)
(* revision if that is the last.                                             *)
LEMMA AppliedStep ==
    ASSUME CallsInv, Calls!Next, NEW r \in flight, r.effect \in {"mint", "guarded"},
           applied'[r.client][r.number] # applied[r.client][r.number]
    PROVE  applied[r.client][r.number] = 0
<1>1. RequestsInv /\ r \in RequestRecord /\ r.client \in Client /\ r.number \in 1 .. MaxCalls
  BY DEF CallsInv, RequestsInv, RequestRecord
<1>2. PICK q \in flight : Calls!Effect(q)
  <2>1. applied' # applied
    OBVIOUS
  <2>2. ASSUME NEW c \in Client,
               \/ \E cmd \in Calls!Commands : Calls!Begin(c, cmd)
               \/ Calls!Receive(c) \/ Calls!Expire(c) \/ Calls!Break(c) \/ Calls!Refuse(c)
        PROVE  FALSE
    BY <2>1, <2>2 DEF Calls!Begin, Calls!Receive, Calls!Expire, Calls!Break, Calls!Refuse,
                      Calls!server
  <2>3. ASSUME NEW q \in flight,
               Calls!Serve(q) \/ Calls!ServeInVain(q) \/ Calls!ServeLate(q)
                  \/ Calls!Intercept(q) \/ Calls!Vanish(q)
        PROVE  Calls!Effect(q)
    BY <2>1, <2>3 DEF Calls!Serve, Calls!ServeInVain, Calls!ServeLate, Calls!Intercept,
                      Calls!Vanish, Calls!server
  <2> QED
    BY <2>2, <2>3 DEF Calls!Next
<1>3. r.client = q.client /\ r.number = q.number
  BY <1>1, <1>2, EffectFacts
<1>4. r.effect = q.effect /\ r.seen = q.seen /\ AppliedTo(r) = AppliedTo(q)
  BY <1>1, <1>3 DEF RequestsInv, AppliedTo
<1>5. CASE r.effect = "mint"
  BY <1>1, <1>5 DEF RequestsInv, AppliedTo
<1>6. CASE r.effect = "guarded"
  <2>1. Calls!Changes(q)
    BY <1>1, <1>2, <1>3, EffectFacts DEF AppliedTo
  <2>2. rev = q.seen /\ q.seen \in Nat
    BY <1>1, <1>2, <1>4, <1>6, <2>1, EffectFacts DEF RequestRecord
  <2>3. ~(AppliedTo(r) > 0)
    BY <1>1, <1>4, <1>6, <2>2 DEF RequestsInv
  <2>4. AppliedTo(r) \in Nat
    BY <1>1 DEF RequestsInv, AppliedTo
  <2> QED
    BY <2>3, <2>4 DEF AppliedTo
<1> QED
  BY <1>5, <1>6

-----------------------------------------------------------------------------
(* The argument of a batch file: reading it, one character after another.    *)

(* Induction over the naturals, for a set of them. *)
LEMMA SetInduction ==
    ASSUME NEW S \in SUBSET Nat, 0 \in S, \A n \in S : n + 1 \in S
    PROVE  S = Nat
<1> SUFFICES ASSUME S # Nat PROVE FALSE
  OBVIOUS
<1> DEFINE T == Nat \ S
           R == OpToRel(<, Nat)
<1>1. T \subseteq Nat /\ T # {}
  OBVIOUS
<1>2. IsWellFoundedOn(R, Nat)
  BY NatLessThanWellFounded
<1> HIDE DEF T, R
<1>3. PICK x \in T : \A y \in T : ~ (<<y, x>> \in R)
  BY <1>1, <1>2, WFMin
<1>4. x \in Nat /\ x \notin S /\ x # 0
  BY DEF T
<1>5. x - 1 \in Nat /\ x - 1 \notin S
  BY <1>4
<1>6. x - 1 \in T
  BY <1>5 DEF T
<1>7. <<x - 1, x>> \in R
  BY <1>4, <1>5 DEF R, OpToRel
<1> QED
  BY <1>3, <1>6, <1>7

(* What reads: prk escapes, cmd.exe expands, and the program splits.          *)
Start(kind) ==
    CASE kind = "escape" -> [out |-> <<>>, slashes |-> 0]
      [] kind = "expand" -> [name |-> <<>>, out |-> <<>>]
      [] kind = "split" -> [out |-> <<>>, slashes |-> 0, inside |-> FALSE, closing |-> FALSE]

Read(kind, state, c) ==
    CASE kind = "escape" -> Line!Escape(state, c)
      [] kind = "expand" -> Line!Expand(state, c)
      [] kind = "split" -> Line!Split(state, c)

Escaped(seq) == Line!FoldLeft(Line!Escape, [out |-> <<>>, slashes |-> 0], seq)
Expansion(seq) == Line!FoldLeft(Line!Expand, [name |-> <<>>, out |-> <<>>], seq)
Splitting(seq) ==
    Line!FoldLeft(Line!Split, [out |-> <<>>, slashes |-> 0, inside |-> FALSE,
                               closing |-> FALSE], seq)

After(kind, seq) ==
    CASE kind = "escape" -> Escaped(seq)
      [] kind = "expand" -> Expansion(seq)
      [] kind = "split" -> Splitting(seq)

Kinds == {"escape", "expand", "split"}

(* The function a fold is an application of, over the first n places.        *)
Folds(kind, g, seq, n) ==
    g = [s \in SUBSET (1..n) |->
            IF s = {} THEN Start(kind)
            ELSE Read(kind, g[s \ {Line!Max(s)}], seq[Line!Max(s)])]

LEMMA MaxOfPlaces ==
    ASSUME NEW n \in Nat, NEW s \in SUBSET (1..(n + 1)), n + 1 \in s
    PROVE  Line!Max(s) = n + 1
<1>1. \A x \in s : n + 1 >= x
  OBVIOUS
<1>2. \A x \in s : (\A y \in s : x >= y) => x = n + 1
  BY <1>1
<1> QED
  BY <1>1, <1>2 DEF Line!Max

LEMMA FoldExists ==
    ASSUME NEW kind, NEW seq
    PROVE  \A n \in Nat : \E g : Folds(kind, g, seq, n)
<1> DEFINE S == {n \in Nat : \E g : Folds(kind, g, seq, n)}
<1>1. 0 \in S
  <2> DEFINE g == [s \in SUBSET (1..0) |-> Start(kind)]
  <2>1. 1..0 = {}
    OBVIOUS
  <2>2. g = [s \in SUBSET (1..0) |->
               IF s = {} THEN Start(kind)
               ELSE Read(kind, g[s \ {Line!Max(s)}], seq[Line!Max(s)])]
    BY <2>1
  <2> HIDE DEF g
  <2> QED
    BY <2>2 DEF Folds
<1>2. ASSUME NEW n \in S
      PROVE  n + 1 \in S
  <2>1. PICK g : Folds(kind, g, seq, n)
    OBVIOUS
  <2>2. n \in Nat
    OBVIOUS
  <2> HIDE DEF S
  <2> DEFINE h == [s \in SUBSET (1..(n + 1)) |->
                     IF n + 1 \in s THEN Read(kind, g[s \ {n + 1}], seq[n + 1])
                     ELSE g[s]]
             Unroll(f, s) == IF s = {} THEN Start(kind)
                           ELSE Read(kind, f[s \ {Line!Max(s)}], seq[Line!Max(s)])
  <2>3. ASSUME NEW s \in SUBSET (1..(n + 1))
        PROVE  h[s] = Unroll(h, s)
    <3>1. CASE n + 1 \in s
      <4>1. Line!Max(s) = n + 1
        BY <2>2, <3>1, MaxOfPlaces
      <4>2. s \ {n + 1} \in SUBSET (1..(n + 1)) /\ n + 1 \notin s \ {n + 1}
        OBVIOUS
      <4>3. h[s \ {n + 1}] = g[s \ {n + 1}]
        BY <4>2
      <4> QED
        BY <3>1, <4>1, <4>3
    <3>2. CASE n + 1 \notin s
      <4>1. s \in SUBSET (1..n)
        BY <2>2, <3>2
      <4>2. h[s] = g[s]
        BY <3>2
      <4>3. g[s] = Unroll(g, s)
        BY <2>1, <4>1 DEF Folds
      <4>4. CASE s = {}
        BY <4>2, <4>3, <4>4
      <4>5. CASE s # {}
        <5>1. s \ {Line!Max(s)} \in SUBSET (1..(n + 1)) /\ n + 1 \notin s \ {Line!Max(s)}
          BY <3>2
        <5>2. h[s \ {Line!Max(s)}] = g[s \ {Line!Max(s)}]
          BY <5>1
        <5> QED
          BY <4>2, <4>3, <4>5, <5>2
      <4> QED
        BY <4>4, <4>5
    <3> QED
      BY <3>1, <3>2
  <2>4. h = [s \in SUBSET (1..(n + 1)) |-> Unroll(h, s)]
    BY <2>3
  <2>5. Folds(kind, h, seq, n + 1)
    <3> HIDE DEF h
    <3> QED
      BY <2>4 DEF Folds
  <2> QED
    BY <2>2, <2>5 DEF S
<1> HIDE DEF S
<1>3. S \in SUBSET Nat
  BY DEF S
<1>4. S = Nat
  BY <1>1, <1>2, <1>3, SetInduction
<1> QED
  BY <1>4 DEF S

LEMMA FoldIsUnique ==
    ASSUME NEW kind, NEW seq, NEW sequel, NEW n \in Nat, NEW m \in Nat, NEW g, NEW h,
           Folds(kind, g, seq, n), Folds(kind, h, sequel, m), n <= m,
           \A i \in 1..n : seq[i] = sequel[i]
    PROVE  g[1..n] = h[1..n]
<1> DEFINE S == {i \in Nat : i <= n => \A s \in SUBSET (1..i) : g[s] = h[s]}
<1>1. 0 \in S
  <2>1. 1..0 = {} /\ {} \in SUBSET (1..n) /\ {} \in SUBSET (1..m)
    OBVIOUS
  <2>2. g[{}] = Start(kind) /\ h[{}] = Start(kind)
    BY <2>1 DEF Folds
  <2> QED
    BY <2>1, <2>2
<1>2. ASSUME NEW i \in S
      PROVE  i + 1 \in S
  <2> SUFFICES ASSUME i + 1 <= n, NEW s \in SUBSET (1..(i + 1))
               PROVE  g[s] = h[s]
    OBVIOUS
  <2>1. i \in Nat /\ \A t \in SUBSET (1..i) : g[t] = h[t]
    OBVIOUS
  <2> HIDE DEF S
  <2>2. CASE i + 1 \notin s
    <3>1. s \in SUBSET (1..i)
      BY <2>1, <2>2
    <3> QED
      BY <2>1, <3>1
  <2>3. CASE i + 1 \in s
    <3>1. Line!Max(s) = i + 1
      BY <2>1, <2>3, MaxOfPlaces
    <3>2. s \in SUBSET (1..n) /\ s \in SUBSET (1..m) /\ s # {} /\ i + 1 \in 1..n
      BY <2>1, <2>3
    <3>3. s \ {i + 1} \in SUBSET (1..i)
      BY <2>1
    <3>4. g[s] = Read(kind, g[s \ {i + 1}], seq[i + 1])
      BY <3>1, <3>2 DEF Folds
    <3>5. h[s] = Read(kind, h[s \ {i + 1}], sequel[i + 1])
      BY <3>1, <3>2 DEF Folds
    <3> QED
      BY <2>1, <3>2, <3>3, <3>4, <3>5
  <2> QED
    BY <2>2, <2>3
<1> HIDE DEF S
<1>3. S \in SUBSET Nat
  BY DEF S
<1>4. S = Nat
  BY <1>1, <1>2, <1>3, SetInduction
<1>5. n \in S /\ 1..n \in SUBSET (1..n)
  BY <1>4
<1> QED
  BY <1>5 DEF S

LEMMA EscapeUnfolds ==
    ASSUME NEW seq, NEW n \in Nat, DOMAIN seq = 1..n
    PROVE  \E g : Folds("escape", g, seq, n) /\ After("escape", seq) = g[1..n]
<1> DEFINE Own(g) == g = [s \in SUBSET (1..n) |->
                            IF s = {} THEN [out |-> <<>>, slashes |-> 0]
                            ELSE Line!Escape(g[s \ {Line!Max(s)}], seq[Line!Max(s)])]
<1>1. \A g : Own(g) <=> Folds("escape", g, seq, n)
  BY DEF Folds, Read, Start
<1>2. Escaped(seq) = (CHOOSE g : Own(g))[1..n]
  BY DEF Escaped, Line!FoldLeft, Line!MapThenFoldSet
<1>3. \E g : Own(g)
  BY <1>1, FoldExists
<1> HIDE DEF Own
<1>4. Own(CHOOSE g : Own(g))
  BY <1>3
<1> QED
  BY <1>1, <1>2, <1>4 DEF After

LEMMA ExpandUnfolds ==
    ASSUME NEW seq, NEW n \in Nat, DOMAIN seq = 1..n
    PROVE  \E g : Folds("expand", g, seq, n) /\ After("expand", seq) = g[1..n]
<1> DEFINE Own(g) == g = [s \in SUBSET (1..n) |->
                            IF s = {} THEN [name |-> <<>>, out |-> <<>>]
                            ELSE Line!Expand(g[s \ {Line!Max(s)}], seq[Line!Max(s)])]
<1>1. \A g : Own(g) <=> Folds("expand", g, seq, n)
  BY DEF Folds, Read, Start
<1>2. Expansion(seq) = (CHOOSE g : Own(g))[1..n]
  BY DEF Expansion, Line!FoldLeft, Line!MapThenFoldSet
<1>3. \E g : Own(g)
  BY <1>1, FoldExists
<1> HIDE DEF Own
<1>4. Own(CHOOSE g : Own(g))
  BY <1>3
<1> QED
  BY <1>1, <1>2, <1>4 DEF After

LEMMA SplitUnfolds ==
    ASSUME NEW seq, NEW n \in Nat, DOMAIN seq = 1..n
    PROVE  \E g : Folds("split", g, seq, n) /\ After("split", seq) = g[1..n]
<1> DEFINE Own(g) == g = [s \in SUBSET (1..n) |->
                            IF s = {} THEN [out |-> <<>>, slashes |-> 0, inside |-> FALSE,
                                              closing |-> FALSE]
                            ELSE Line!Split(g[s \ {Line!Max(s)}], seq[Line!Max(s)])]
<1>1. \A g : Own(g) <=> Folds("split", g, seq, n)
  BY DEF Folds, Read, Start
<1>2. Splitting(seq) = (CHOOSE g : Own(g))[1..n]
  BY DEF Splitting, Line!FoldLeft, Line!MapThenFoldSet
<1>3. \E g : Own(g)
  BY <1>1, FoldExists
<1> HIDE DEF Own
<1>4. Own(CHOOSE g : Own(g))
  BY <1>3
<1> QED
  BY <1>1, <1>2, <1>4 DEF After

LEMMA Appended ==
    ASSUME NEW kind \in Kinds, NEW S, NEW seq \in Seq(S), NEW c \in S
    PROVE  After(kind, Append(seq, c)) = Read(kind, After(kind, seq), c)
<1> DEFINE n == Len(seq)
           new == Append(seq, c)
<1>1. n \in Nat /\ DOMAIN seq = 1..n /\ DOMAIN new = 1..(n + 1) /\ new[n + 1] = c
      /\ \A i \in 1..n : seq[i] = new[i]
  OBVIOUS
<1>2. n + 1 \in Nat
  BY <1>1
<1> HIDE DEF n, new
<1>3. PICK g : Folds(kind, g, seq, n) /\ After(kind, seq) = g[1..n]
  BY <1>1, EscapeUnfolds, ExpandUnfolds, SplitUnfolds DEF Kinds
<1>4. PICK h : Folds(kind, h, new, n + 1) /\ After(kind, new) = h[1..(n + 1)]
  BY <1>1, <1>2, EscapeUnfolds, ExpandUnfolds, SplitUnfolds DEF Kinds
<1>5. g[1..n] = h[1..n]
  BY <1>1, <1>2, <1>3, <1>4, FoldIsUnique
<1>6. Line!Max(1..(n + 1)) = n + 1
  BY <1>1, MaxOfPlaces
<1>7. 1..(n + 1) # {} /\ (1..(n + 1)) \ {n + 1} = 1..n
  <2>1. \A k \in Nat : 1..(k + 1) # {} /\ (1..(k + 1)) \ {k + 1} = 1..k
    <3> TAKE k \in Nat
    <3>1. 1 \in 1..(k + 1)
      OBVIOUS
    <3>2. \A i : i \in (1..(k + 1)) \ {k + 1} <=> i \in 1..k
      OBVIOUS
    <3> QED
      BY <3>1, <3>2
  <2> QED
    BY <1>1, <2>1
<1>8. h[1..(n + 1)] = Read(kind, h[1..n], c)
  BY <1>1, <1>4, <1>6, <1>7 DEF Folds
<1> QED
  BY <1>3, <1>4, <1>5, <1>8 DEF new

LEMMA AfterNothing ==
    ASSUME NEW kind \in Kinds
    PROVE  After(kind, <<>>) = Start(kind)
<1>1. DOMAIN <<>> = 1..0
  OBVIOUS
<1>2. PICK g : Folds(kind, g, <<>>, 0) /\ After(kind, <<>>) = g[1..0]
  BY <1>1, EscapeUnfolds, ExpandUnfolds, SplitUnfolds DEF Kinds
<1>3. 1..0 = {} /\ {} \in SUBSET (1..0)
  OBVIOUS
<1> QED
  BY <1>2, <1>3 DEF Folds

-----------------------------------------------------------------------------
(* What a line comes to.                                                     *)

Token == Line!Char \cup {"cd:~,", "next", "a value"}
Slashes(k) == Line!Repeat("\\", k)

(* Nothing outside quotes is there to act upon, and the quotes are open, or  *)
(* closed, at the end.                                                       *)
Sheltered(line, inside) ==
    /\ line \in Seq(Token)
    /\ \A i \in 1 .. Len(line) : line[i] = "&" => Line!QuotesBefore(line, i) % 2 = 1
    /\ Line!QuotesBefore(line, Len(line) + 1) % 2 = IF inside THEN 1 ELSE 0

(* The program behind cmd.exe, having read a line: what it has of the        *)
(* argument, the backslashes it has not counted yet, and where it stands.    *)
Reads(line, o, k, inside, closing) ==
    /\ Sheltered(line, inside)
    /\ o \in Seq(Token) /\ k \in Nat /\ inside \in BOOLEAN /\ closing \in BOOLEAN
    /\ \E x \in Seq(Token) :
          /\ After("expand", line) = [name |-> <<>>, out |-> x]
          /\ After("split", x) = [out |-> o, slashes |-> k,
                                  inside |-> inside, closing |-> closing]

LEMMA SlashesAre ==
    ASSUME NEW k \in Nat
    PROVE  /\ Slashes(k) \in Seq(Token)
           /\ Slashes(0) = <<>>
           /\ Slashes(k + 1) = Append(Slashes(k), "\\")
<1>1. \A n \in Nat : Slashes(n) \in Seq(Token) /\ Len(Slashes(n)) = n
                     /\ \A i \in 1 .. n : Slashes(n)[i] = "\\"
  BY DEF Slashes, Line!Repeat, Token, Line!Char
<1>2. "\\" \in Token
  BY DEF Token, Line!Char
<1> HIDE DEF Slashes
<1>3. Slashes(0) = <<>>
  BY <1>1
<1>4. /\ Append(Slashes(k), "\\") \in Seq(Token) /\ Len(Append(Slashes(k), "\\")) = k + 1
      /\ \A i \in 1 .. k + 1 : Append(Slashes(k), "\\")[i] = "\\"
  BY <1>1, <1>2
<1>5. k + 1 \in Nat
  OBVIOUS
<1>6. Slashes(k + 1) = Append(Slashes(k), "\\")
  BY <1>1, <1>4, <1>5, SeqEqual
<1> QED
  BY <1>1, <1>3, <1>6

LEMMA CountedQuotes ==
    ASSUME NEW line \in Seq(Token), NEW c \in Token
    PROVE  LET new == Append(line, c) IN
           /\ \A i \in 1 .. Len(line) + 1 : Line!QuotesBefore(new, i) = Line!QuotesBefore(line, i)
           /\ Line!QuotesBefore(line, Len(line) + 1) \in Nat
           /\ Line!QuotesBefore(new, Len(new) + 1)
                 = Line!QuotesBefore(line, Len(line) + 1) + IF c = "quote" THEN 1 ELSE 0
<1> DEFINE new == Append(line, c)
           n == Len(line)
           QuotesUpTo(seq, i) == {j \in 1 .. i - 1 : seq[j] = "quote"}
<1>1. n \in Nat /\ Len(new) = n + 1 /\ new[n + 1] = c /\ \A i \in 1 .. n : new[i] = line[i]
  OBVIOUS
<1>2. \A seq, i : Line!QuotesBefore(seq, i) = Cardinality(QuotesUpTo(seq, i))
  BY DEF Line!QuotesBefore, Line!Cardinality, Cardinality
<1> HIDE DEF new, n
<1>3. \A i \in 1 .. n + 1 : QuotesUpTo(new, i) = QuotesUpTo(line, i)
  <2> SUFFICES ASSUME NEW i \in 1 .. n + 1 PROVE QuotesUpTo(new, i) = QuotesUpTo(line, i)
    OBVIOUS
  <2>1. 1 .. i - 1 \subseteq 1 .. n
    BY <1>1
  <2> QED
    BY <1>1, <2>1
<1>4. IsFiniteSet(QuotesUpTo(line, n + 1))
  <2>1. IsFiniteSet(1 .. n) /\ QuotesUpTo(line, n + 1) \in SUBSET (1 .. n)
    BY <1>1, FS_Interval
  <2> QED
    BY <2>1, FS_Subset
<1>5. QuotesUpTo(new, n + 2) = IF c = "quote" THEN QuotesUpTo(line, n + 1) \cup {n + 1}
                           ELSE QuotesUpTo(line, n + 1)
  <2>1. \A j : j \in 1 .. n + 1 <=> j \in 1 .. n \/ j = n + 1
    BY <1>1
  <2>2. (n + 2) - 1 = n + 1 /\ (n + 1) - 1 = n /\ n + 1 \notin 1 .. n
    BY <1>1
  <2> QED
    BY <1>1, <2>1, <2>2
<1>6. n + 1 \notin QuotesUpTo(line, n + 1)
  BY <1>1
<1> HIDE DEF QuotesUpTo
<1>7. Cardinality(QuotesUpTo(line, n + 1)) \in Nat
  BY <1>4, FS_CardinalityType
<1>8. Cardinality(QuotesUpTo(new, n + 2))
         = Cardinality(QuotesUpTo(line, n + 1)) + IF c = "quote" THEN 1 ELSE 0
  <2>1. Cardinality(QuotesUpTo(line, n + 1) \cup {n + 1}) = Cardinality(QuotesUpTo(line, n + 1)) + 1
    BY <1>4, <1>6, FS_AddElement
  <2> QED
    BY <1>5, <1>7, <2>1
<1>9. Len(new) + 1 = n + 2
  BY <1>1
<1> QED
  BY <1>2, <1>3, <1>7, <1>8, <1>9 DEF new, n

(* A quote opens or closes; and nothing to act upon is let stand outside.    *)
LEMMA ShelterStep ==
    ASSUME NEW line, NEW inside \in BOOLEAN, Sheltered(line, inside), NEW c \in Token,
           c = "&" => inside
    PROVE  /\ c # "quote" => Sheltered(Append(line, c), inside)
           /\ c = "quote" => Sheltered(Append(line, c), ~inside)
<1> DEFINE new == Append(line, c)
           n == Len(line)
           q == Line!QuotesBefore(line, n + 1)
           p == Line!QuotesBefore(new, n + 2)
<1>1. line \in Seq(Token)
  BY DEF Sheltered
<1>2. n \in Nat /\ Len(new) = n + 1 /\ new[n + 1] = c /\ new \in Seq(Token)
      /\ \A i \in 1 .. n : new[i] = line[i]
  BY <1>1
<1>3. /\ \A i \in 1 .. n + 1 : Line!QuotesBefore(new, i) = Line!QuotesBefore(line, i)
      /\ q \in Nat /\ Line!QuotesBefore(new, Len(new) + 1) = q + IF c = "quote" THEN 1 ELSE 0
  BY <1>1, CountedQuotes
<1>4. q % 2 = IF inside THEN 1 ELSE 0
  BY DEF Sheltered
<1>5. \A i \in 1 .. n : line[i] = "&" => Line!QuotesBefore(line, i) % 2 = 1
  BY DEF Sheltered
<1> HIDE DEF n, q, new, p
<1>6. \A i \in 1 .. n + 1 : new[i] = "&" => Line!QuotesBefore(new, i) % 2 = 1
  <2> SUFFICES ASSUME NEW i \in 1 .. n + 1, new[i] = "&"
               PROVE  Line!QuotesBefore(line, i) % 2 = 1
    BY <1>3
  <2>1. CASE i = n + 1
    BY <1>2, <1>4, <2>1 DEF q
  <2>2. CASE i # n + 1
    <3>1. i \in 1 .. n
      BY <1>2, <2>2
    <3> QED
      BY <1>2, <1>5, <3>1
  <2> QED
    BY <2>1, <2>2
<1>7. (q + 1) % 2 = IF inside THEN 0 ELSE 1
  BY <1>3, <1>4
<1>8. q + 0 = q
  BY <1>3
<1>9. Line!QuotesBefore(new, Len(new) + 1) % 2
         = IF c = "quote" THEN (IF inside THEN 0 ELSE 1) ELSE IF inside THEN 1 ELSE 0
  BY <1>3, <1>4, <1>7, <1>8
<1> QED
  BY <1>2, <1>6, <1>9 DEF Sheltered, new

LEMMA ReadingOn ==
    ASSUME NEW x \in Seq(Token), NEW c \in Token
    PROVE  /\ After("escape", Append(x, c)) = Line!Escape(After("escape", x), c)
           /\ After("expand", Append(x, c)) = Line!Expand(After("expand", x), c)
           /\ After("split", Append(x, c)) = Line!Split(After("split", x), c)
<1>1. "escape" \in Kinds /\ "expand" \in Kinds /\ "split" \in Kinds
  BY DEF Kinds
<1>2. /\ After("escape", Append(x, c)) = Read("escape", After("escape", x), c)
      /\ After("expand", Append(x, c)) = Read("expand", After("expand", x), c)
      /\ After("split", Append(x, c)) = Read("split", After("split", x), c)
  BY <1>1, Appended
<1> QED
  BY <1>2 DEF Read

LEMMA Joined ==
    ASSUME NEW o \in Seq(Token), NEW k \in Nat, NEW c \in Token
    PROVE  /\ o \o Slashes(k + 1) = Append(o \o Slashes(k), "\\")
           /\ o \o Slashes(0) = o
           /\ o \o Slashes(k) \in Seq(Token)
           /\ (o \o Slashes(k)) \o <<c>> = Append(o \o Slashes(k), c)
<1>1. Slashes(k) \in Seq(Token) /\ Slashes(0) = <<>> /\ Slashes(k + 1) = Append(Slashes(k), "\\")
  BY SlashesAre
<1>2. "\\" \in Token
  BY DEF Token, Line!Char
<1>3. Slashes(k + 1) = Slashes(k) \o <<"\\">>
  BY <1>1, <1>2, AppendIsConcat
<1>4. o \o Slashes(k) \in Seq(Token)
  BY <1>1, ConcatProperties
<1>5. (o \o Slashes(k)) \o <<"\\">> = Append(o \o Slashes(k), "\\")
  BY <1>2, <1>4, AppendIsConcat
<1>7. <<"\\">> \in Seq(Token)
  <2>1. \A d \in Token : <<d>> \in Seq(Token)
    OBVIOUS
  <2> HIDE DEF Token
  <2> QED
    BY <1>2, <2>1
<1>8. o \o (Slashes(k) \o <<"\\">>) = (o \o Slashes(k)) \o <<"\\">>
  BY <1>1, <1>7, ConcatAssociative
<1>9. o \o <<>> = o
  BY ConcatEmptySeq
<1>6. (o \o Slashes(k)) \o <<c>> = Append(o \o Slashes(k), c)
  BY <1>4, AppendIsConcat
<1> QED
  BY <1>1, <1>3, <1>4, <1>5, <1>6, <1>8, <1>9

(* A character both readers take for itself.                                 *)
LEMMA PlainStep ==
    ASSUME NEW line, NEW o, NEW k, NEW inside, NEW closing,
           Reads(line, o, k, inside, closing),
           NEW c \in {"a", "space", "&", "line break"}, c \in {"space", "&"} => inside
    PROVE  Reads(Append(line, c), Append(o \o Slashes(k), c), 0, inside, FALSE)
<1>1. /\ Sheltered(line, inside) /\ o \in Seq(Token) /\ k \in Nat /\ inside \in BOOLEAN
      /\ c \in Token /\ line \in Seq(Token)
  BY DEF Reads, Sheltered, Token, Line!Char
<1>2. PICK x \in Seq(Token) :
         /\ After("expand", line) = [name |-> <<>>, out |-> x]
         /\ After("split", x) = [out |-> o, slashes |-> k, inside |-> inside,
                                 closing |-> closing]
  BY DEF Reads
<1>3. After("expand", Append(line, c)) = [name |-> <<>>, out |-> Append(x, c)]
  <2>1. After("expand", Append(line, c)) = Line!Expand([name |-> <<>>, out |-> x], c)
    BY <1>1, <1>2, ReadingOn
  <2> QED
    BY <2>1 DEF Line!Expand
<1>4. After("split", Append(x, c))
         = [out |-> Append(o \o Slashes(k), c), slashes |-> 0, inside |-> inside,
            closing |-> FALSE]
  <2> DEFINE state == [out |-> o, slashes |-> k, inside |-> inside, closing |-> closing]
  <2>1. After("split", Append(x, c)) = Line!Split(state, c)
    BY <1>1, <1>2, ReadingOn
  <2>2. Line!Split(state, c)
           = [state EXCEPT !.out = o \o Slashes(k) \o <<c>>, !.slashes = 0, !.closing = FALSE]
    BY DEF Line!Split, Slashes
  <2>3. o \o Slashes(k) \o <<c>> = Append(o \o Slashes(k), c)
    BY <1>1, Joined
  <2> QED
    BY <2>1, <2>2, <2>3
<1>5. Append(o \o Slashes(k), c) \in Seq(Token) /\ Append(x, c) \in Seq(Token)
  <2>1. o \o Slashes(k) \in Seq(Token)
    BY <1>1, Joined
  <2> QED
    BY <1>1, <2>1, AppendProperties
<1>6. Sheltered(Append(line, c), inside)
  BY <1>1, ShelterStep
<1> QED
  BY <1>1, <1>3, <1>4, <1>5, <1>6 DEF Reads

LEMMA SlashStep ==
    ASSUME NEW line, NEW o, NEW k, NEW inside, NEW closing,
           Reads(line, o, k, inside, closing)
    PROVE  Reads(Append(line, "\\"), o, k + 1, inside, FALSE)
<1>1. /\ Sheltered(line, inside) /\ o \in Seq(Token) /\ k \in Nat /\ inside \in BOOLEAN
      /\ "\\" \in Token /\ line \in Seq(Token)
  BY DEF Reads, Sheltered, Token, Line!Char
<1>2. PICK x \in Seq(Token) :
         /\ After("expand", line) = [name |-> <<>>, out |-> x]
         /\ After("split", x) = [out |-> o, slashes |-> k, inside |-> inside,
                                 closing |-> closing]
  BY DEF Reads
<1>3. After("expand", Append(line, "\\")) = [name |-> <<>>, out |-> Append(x, "\\")]
  <2>1. After("expand", Append(line, "\\")) = Line!Expand([name |-> <<>>, out |-> x], "\\")
    BY <1>1, <1>2, ReadingOn
  <2> QED
    BY <2>1 DEF Line!Expand
<1>4. After("split", Append(x, "\\"))
         = [out |-> o, slashes |-> k + 1, inside |-> inside, closing |-> FALSE]
  <2> DEFINE state == [out |-> o, slashes |-> k, inside |-> inside, closing |-> closing]
  <2>1. After("split", Append(x, "\\")) = Line!Split(state, "\\")
    BY <1>1, <1>2, ReadingOn
  <2>2. Line!Split(state, "\\") = [state EXCEPT !.slashes = @ + 1, !.closing = FALSE]
    BY DEF Line!Split
  <2> QED
    BY <2>1, <2>2
<1>5. Sheltered(Append(line, "\\"), inside) /\ Append(x, "\\") \in Seq(Token) /\ k + 1 \in Nat
  BY <1>1, ShelterStep, AppendProperties
<1> QED
  BY <1>1, <1>3, <1>4, <1>5 DEF Reads

(* A quote that closes what is open, or opens it.                            *)
LEMMA QuoteStep ==
    ASSUME NEW line, NEW o, NEW k \in Nat, NEW inside,
           Reads(line, o, 2 * k, inside, FALSE)
    PROVE  Reads(Append(line, "quote"), o \o Slashes(k), 0, ~inside, inside)
<1>1. /\ Sheltered(line, inside) /\ o \in Seq(Token) /\ inside \in BOOLEAN
      /\ "quote" \in Token /\ line \in Seq(Token)
  BY DEF Reads, Sheltered, Token, Line!Char
<1>2. PICK x \in Seq(Token) :
         /\ After("expand", line) = [name |-> <<>>, out |-> x]
         /\ After("split", x) = [out |-> o, slashes |-> 2 * k, inside |-> inside,
                                 closing |-> FALSE]
  BY DEF Reads
<1>3. After("expand", Append(line, "quote")) = [name |-> <<>>, out |-> Append(x, "quote")]
  <2>1. After("expand", Append(line, "quote")) = Line!Expand([name |-> <<>>, out |-> x], "quote")
    BY <1>1, <1>2, ReadingOn
  <2> QED
    BY <2>1 DEF Line!Expand
<1>4. After("split", Append(x, "quote"))
         = [out |-> o \o Slashes(k), slashes |-> 0, inside |-> ~inside, closing |-> inside]
  <2> DEFINE state == [out |-> o, slashes |-> 2 * k, inside |-> inside, closing |-> FALSE]
             half == Line!Repeat("\\", (2 * k) \div 2)
             literal == (2 * k) % 2 = 1
  <2>1. After("split", Append(x, "quote")) = Line!Split(state, "quote")
    BY <1>1, <1>2, ReadingOn
  <2>2. (2 * k) \div 2 = k /\ ~literal
    BY SMT
  <2>3. Line!Split(state, "quote")
           = [state EXCEPT !.out = @ \o half \o (IF literal THEN <<"quote">> ELSE <<>>),
                           !.slashes = 0,
                           !.inside = IF literal THEN @ ELSE ~@,
                           !.closing = ~literal /\ state.inside]
    BY DEF Line!Split
  <2>4. half = Slashes(k)
    BY <2>2 DEF Slashes
  <2> HIDE DEF half, literal
  <2>5. o \o half \o <<>> = o \o Slashes(k)
    <3>1. o \o Slashes(k) \in Seq(Token)
      BY <1>1, Joined
    <3> QED
      BY <2>4, <3>1, ConcatEmptySeq
  <2>6. Line!Split(state, "quote").out = o \o Slashes(k)
    BY <2>2, <2>3, <2>5
  <2>7. /\ Line!Split(state, "quote").slashes = 0
        /\ Line!Split(state, "quote").inside = ~inside
        /\ Line!Split(state, "quote").closing = inside
    BY <1>1, <2>2, <2>3
  <2>8. Line!Split(state, "quote")
           = [out |-> Line!Split(state, "quote").out,
              slashes |-> Line!Split(state, "quote").slashes,
              inside |-> Line!Split(state, "quote").inside,
              closing |-> Line!Split(state, "quote").closing]
    BY <2>3
  <2> QED
    BY <2>1, <2>6, <2>7, <2>8
<1>5. o \o Slashes(k) \in Seq(Token) /\ Append(x, "quote") \in Seq(Token)
  BY <1>1, Joined, AppendProperties
<1>6. Sheltered(Append(line, "quote"), ~inside)
  BY <1>1, ShelterStep
<1> QED
  BY <1>1, <1>3, <1>4, <1>5, <1>6 DEF Reads

(* A second quote, right after one that closes, is the character.            *)
LEMMA SecondQuoteStep ==
    ASSUME NEW line, NEW o, NEW k, Reads(line, o, k, FALSE, TRUE)
    PROVE  Reads(Append(line, "quote"), Append(o, "quote"), k, TRUE, FALSE)
<1>1. /\ Sheltered(line, FALSE) /\ o \in Seq(Token) /\ k \in Nat
      /\ "quote" \in Token /\ line \in Seq(Token)
  BY DEF Reads, Sheltered, Token, Line!Char
<1>2. PICK x \in Seq(Token) :
         /\ After("expand", line) = [name |-> <<>>, out |-> x]
         /\ After("split", x) = [out |-> o, slashes |-> k, inside |-> FALSE, closing |-> TRUE]
  BY DEF Reads
<1>3. After("expand", Append(line, "quote")) = [name |-> <<>>, out |-> Append(x, "quote")]
  <2>1. After("expand", Append(line, "quote")) = Line!Expand([name |-> <<>>, out |-> x], "quote")
    BY <1>1, <1>2, ReadingOn
  <2> QED
    BY <2>1 DEF Line!Expand
<1>4. After("split", Append(x, "quote"))
         = [out |-> Append(o, "quote"), slashes |-> k, inside |-> TRUE, closing |-> FALSE]
  <2> DEFINE state == [out |-> o, slashes |-> k, inside |-> FALSE, closing |-> TRUE]
  <2>1. After("split", Append(x, "quote")) = Line!Split(state, "quote")
    BY <1>1, <1>2, ReadingOn
  <2>2. Line!Split(state, "quote")
           = [state EXCEPT !.out = Append(@, "quote"), !.inside = TRUE, !.closing = FALSE]
    BY DEF Line!Split
  <2> QED
    BY <2>1, <2>2
<1>5. Append(o, "quote") \in Seq(Token) /\ Append(x, "quote") \in Seq(Token)
  BY <1>1
<1>6. Sheltered(Append(line, "quote"), ~FALSE)
  BY <1>1, ShelterStep
<1> QED
  BY <1>1, <1>3, <1>4, <1>5, <1>6 DEF Reads

(* What cmd.exe makes of a percent.                                          *)
LEMMA PercentOpens ==
    ASSUME NEW state, state.name = <<>>
    PROVE  Line!Expand(state, "%") = [state EXCEPT !.name = <<"%">>]
  BY DEF Line!Expand

LEMMA PercentDoubles ==
    ASSUME NEW state, state.name = <<"%">>
    PROVE  Line!Expand(state, "%") = [state EXCEPT !.out = Append(@, "%")]
<1>1. <<"%">> # <<>> /\ Len(<<"%">>) = 1 /\ <<"%">> # <<"%", "cd:~,">>
  OBVIOUS
<1> QED
  BY <1>1 DEF Line!Expand

LEMMA Pair ==
    ASSUME NEW S, NEW a \in S, NEW b \in S
    PROVE  Append(<<a>>, b) = <<a, b>>
<1>1. <<a>> \in Seq(S) /\ Len(<<a>>) = 1 /\ <<a>>[1] = a
  OBVIOUS
<1>2. /\ Append(<<a>>, b) \in Seq(S) /\ Len(Append(<<a>>, b)) = 2
      /\ Append(<<a>>, b)[1] = a /\ Append(<<a>>, b)[2] = b
  BY <1>1, AppendProperties
<1>3. <<a, b>> \in Seq(S) /\ Len(<<a, b>>) = 2 /\ <<a, b>>[1] = a /\ <<a, b>>[2] = b
  OBVIOUS
<1>4. \A i \in 1 .. 2 : Append(<<a>>, b)[i] = <<a, b>>[i]
  BY <1>2, <1>3
<1> QED
  BY <1>2, <1>3, <1>4, SeqEqual

LEMMA Triple ==
    ASSUME NEW S, NEW a \in S, NEW b \in S, NEW c \in S
    PROVE  Append(<<a, b>>, c) = <<a, b, c>>
<1>1. <<a, b>> \in Seq(S) /\ Len(<<a, b>>) = 2 /\ <<a, b>>[1] = a /\ <<a, b>>[2] = b
  OBVIOUS
<1>2. /\ Append(<<a, b>>, c) \in Seq(S) /\ Len(Append(<<a, b>>, c)) = 3
      /\ Append(<<a, b>>, c)[1] = a /\ Append(<<a, b>>, c)[2] = b
      /\ Append(<<a, b>>, c)[3] = c
  BY <1>1, AppendProperties
<1>3. /\ <<a, b, c>> \in Seq(S) /\ Len(<<a, b, c>>) = 3
      /\ <<a, b, c>>[1] = a /\ <<a, b, c>>[2] = b /\ <<a, b, c>>[3] = c
  OBVIOUS
<1>4. \A i \in 1 .. 3 : Append(<<a, b>>, c)[i] = <<a, b, c>>[i]
  BY <1>2, <1>3
<1> QED
  BY <1>2, <1>3, <1>4, SeqEqual

(* The guard of a percent vanishes, and the percent stands.                  *)
LEMMA PercentStep ==
    ASSUME NEW line, NEW o, NEW k, NEW inside, NEW closing,
           Reads(line, o, k, inside, closing)
    PROVE  Reads(Append(Append(Append(Append(line, "%"), "%"), "cd:~,"), "%"),
                 Append(o \o Slashes(k), "%"), 0, inside, FALSE)
<1> DEFINE l1 == Append(line, "%")
           l2 == Append(l1, "%")
           l3 == Append(l2, "cd:~,")
           l4 == Append(l3, "%")
<1>1. /\ Sheltered(line, inside) /\ o \in Seq(Token) /\ k \in Nat /\ inside \in BOOLEAN
      /\ "%" \in Token /\ "cd:~," \in Token /\ line \in Seq(Token)
  BY DEF Reads, Sheltered, Token, Line!Char
<1>2. PICK x \in Seq(Token) :
         /\ After("expand", line) = [name |-> <<>>, out |-> x]
         /\ After("split", x) = [out |-> o, slashes |-> k, inside |-> inside,
                                 closing |-> closing]
  BY DEF Reads
<1>3. Sheltered(l1, inside) /\ l1 \in Seq(Token)
  BY <1>1, ShelterStep, AppendProperties
<1>4. Sheltered(l2, inside) /\ l2 \in Seq(Token)
  <2> HIDE DEF l1
  <2> QED
    BY <1>1, <1>3, ShelterStep, AppendProperties
<1>5. Sheltered(l3, inside) /\ l3 \in Seq(Token)
  <2> HIDE DEF l2
  <2> QED
    BY <1>1, <1>4, ShelterStep, AppendProperties
<1>6. Sheltered(l4, inside)
  <2> HIDE DEF l3
  <2> QED
    BY <1>1, <1>5, ShelterStep
<1>7. After("expand", l1) = [name |-> <<"%">>, out |-> x]
  <2>1. After("expand", l1) = Line!Expand([name |-> <<>>, out |-> x], "%")
    BY <1>1, <1>2, ReadingOn
  <2>2. \A n, m : [[name |-> n, out |-> x] EXCEPT !.name = m] = [name |-> m, out |-> x]
    OBVIOUS
  <2>3. Line!Expand([name |-> <<>>, out |-> x], "%")
           = [[name |-> <<>>, out |-> x] EXCEPT !.name = <<"%">>]
    BY PercentOpens
  <2> QED
    BY <2>1, <2>2, <2>3
<1>8. After("expand", l2) = [name |-> <<"%">>, out |-> Append(x, "%")]
  <2> HIDE DEF l1
  <2>1. After("expand", l2) = Line!Expand([name |-> <<"%">>, out |-> x], "%")
    BY <1>1, <1>3, <1>7, ReadingOn
  <2>2. \A n, y, z : [[name |-> n, out |-> y] EXCEPT !.out = z] = [name |-> n, out |-> z]
    OBVIOUS
  <2>4. Line!Expand([name |-> <<"%">>, out |-> x], "%")
           = [[name |-> <<"%">>, out |-> x] EXCEPT !.out = Append(x, "%")]
    BY PercentDoubles
  <2> QED
    BY <2>1, <2>2, <2>4
<1>9. After("expand", l3) = [name |-> <<"%", "cd:~,">>, out |-> Append(x, "%")]
  <2> HIDE DEF l2
  <2>1. After("expand", l3) = Line!Expand([name |-> <<"%">>, out |-> Append(x, "%")], "cd:~,")
    BY <1>1, <1>4, <1>8, ReadingOn
  <2>2. Append(<<"%">>, "cd:~,") = <<"%", "cd:~,">>
    BY <1>1, Pair
  <2> QED
    BY <2>1, <2>2 DEF Line!Expand
<1>10. After("expand", l4) = [name |-> <<>>, out |-> Append(x, "%")]
  <2> HIDE DEF l3
  <2>1. After("expand", l4)
           = Line!Expand([name |-> <<"%", "cd:~,">>, out |-> Append(x, "%")], "%")
    BY <1>1, <1>5, <1>9, ReadingOn
  <2> QED
    BY <2>1 DEF Line!Expand
<1>11. After("split", Append(x, "%"))
         = [out |-> Append(o \o Slashes(k), "%"), slashes |-> 0, inside |-> inside,
            closing |-> FALSE]
  <2> DEFINE state == [out |-> o, slashes |-> k, inside |-> inside, closing |-> closing]
  <2>1. After("split", Append(x, "%")) = Line!Split(state, "%")
    BY <1>1, <1>2, ReadingOn
  <2>2. Line!Split(state, "%")
           = [state EXCEPT !.out = o \o Slashes(k) \o <<"%">>, !.slashes = 0, !.closing = FALSE]
    BY DEF Line!Split, Slashes
  <2>3. o \o Slashes(k) \o <<"%">> = Append(o \o Slashes(k), "%")
    BY <1>1, Joined
  <2> QED
    BY <2>1, <2>2, <2>3
<1>12. Append(o \o Slashes(k), "%") \in Seq(Token) /\ Append(x, "%") \in Seq(Token)
  BY <1>1, Joined, AppendProperties
<1> HIDE DEF l4
<1>13. Reads(l4, Append(o \o Slashes(k), "%"), 0, inside, FALSE)
  BY <1>1, <1>6, <1>10, <1>11, <1>12 DEF Reads
<1> QED
  BY <1>13 DEF l4

LEMMA SlashesStep ==
    ASSUME NEW line, NEW o, NEW k, NEW inside, Reads(line, o, k, inside, FALSE), NEW m \in Nat
    PROVE  Reads(line \o Slashes(m), o, k + m, inside, FALSE)
<1> DEFINE S == {n \in Nat : Reads(line \o Slashes(n), o, k + n, inside, FALSE)}
<1>1. line \in Seq(Token) /\ k \in Nat /\ "\\" \in Token
  BY DEF Reads, Sheltered, Token, Line!Char
<1>2. 0 \in S
  <2> HIDE DEF S
  <2>1. line \o Slashes(0) = line
    BY <1>1, SlashesAre, ConcatEmptySeq
  <2>2. k + 0 = k
    BY <1>1
  <2> QED
    BY <2>1, <2>2 DEF S
<1>3. ASSUME NEW n \in S PROVE n + 1 \in S
  <2>1. n \in Nat /\ Reads(line \o Slashes(n), o, k + n, inside, FALSE)
    OBVIOUS
  <2>2. Reads(Append(line \o Slashes(n), "\\"), o, (k + n) + 1, inside, FALSE)
    BY <2>1, SlashStep
  <2>3. line \o Slashes(n + 1) = Append(line \o Slashes(n), "\\")
    BY <1>1, <2>1, Joined
  <2>4. (k + n) + 1 = k + (n + 1) /\ n + 1 \in Nat
    BY <1>1, <2>1
  <2> QED
    BY <2>2, <2>3, <2>4
<1>4. S \in SUBSET Nat
  OBVIOUS
<1> HIDE DEF S
<1>5. m \in S
  BY <1>2, <1>3, <1>4, SetInduction
<1> QED
  BY <1>5 DEF S

LEMMA OneOn ==
    ASSUME NEW s \in Seq(Token), NEW t \in Seq(Token), NEW c \in Token
    PROVE  /\ s \o Append(t, c) = Append(s \o t, c)
           /\ Append(t, c) \in Seq(Token)
           /\ t \o <<c>> = Append(t, c)
<1>1. Append(t, c) = t \o <<c>> /\ Append(s \o t, c) = (s \o t) \o <<c>>
  BY ConcatProperties, AppendIsConcat
<1>2. <<c>> \in Seq(Token)
  OBVIOUS
<1> QED
  BY <1>1, <1>2, ConcatAssociative, AppendProperties

LEMMA Short ==
    ASSUME NEW a \in Token, NEW b \in Token, NEW c \in Token
    PROVE  <<a>> \in Seq(Token) /\ <<a, b>> \in Seq(Token) /\ <<a, b, c>> \in Seq(Token)
  OBVIOUS

(* An argument so far, in quotes or out of them, is read as it is.           *)
Open(inside) == IF inside THEN <<"quote">> ELSE <<>>

Passes(inside, text) ==
    \E out \in Seq(Token), o \in Seq(Token), k \in Nat :
       /\ After("escape", text) = [out |-> out, slashes |-> k]
       /\ Reads(Open(inside) \o out, o, k, inside, FALSE)
       /\ o \o Slashes(k) = text

LEMMA PassesNothing == Passes(TRUE, <<>>) /\ Passes(FALSE, <<>>)
<1>1. After("escape", <<>>) = [out |-> <<>>, slashes |-> 0]
  BY AfterNothing DEF Kinds, Start
<1>2. <<>> \in Seq(Token) /\ "quote" \in Token /\ Slashes(0) = <<>>
  BY SlashesAre DEF Token, Line!Char
<1>3. Reads(<<>>, <<>>, 0, FALSE, FALSE)
  <2>1. /\ After("expand", <<>>) = [name |-> <<>>, out |-> <<>>]
        /\ After("split", <<>>) = [out |-> <<>>, slashes |-> 0, inside |-> FALSE,
                                   closing |-> FALSE]
    BY AfterNothing DEF Kinds, Start
  <2>2. Line!QuotesBefore(<<>>, Len(<<>>) + 1) = 0
    <3>1. Line!QuotesBefore(<<>>, Len(<<>>) + 1)
             = Cardinality({j \in 1 .. (Len(<<>>) + 1) - 1 : <<>>[j] = "quote"})
      BY DEF Line!QuotesBefore, Line!Cardinality, Cardinality
    <3>2. {j \in 1 .. (Len(<<>>) + 1) - 1 : <<>>[j] = "quote"} = {}
      OBVIOUS
    <3> QED
      BY <3>1, <3>2, FS_EmptySet
  <2>3. Sheltered(<<>>, FALSE)
    BY <1>2, <2>2 DEF Sheltered
  <2> QED
    BY <1>2, <2>1, <2>3 DEF Reads
<1>4. Reads(Append(<<>>, "quote"), <<>> \o Slashes(0), 0, TRUE, FALSE)
  <2>1. 2 * 0 = 0
    OBVIOUS
  <2>2. Reads(<<>>, <<>>, 2 * 0, FALSE, FALSE)
    BY <1>3, <2>1, Zenon
  <2>3. ~FALSE <=> TRUE
    OBVIOUS
  <2> QED
    BY <2>2, <2>3, QuoteStep
<1>5. Append(<<>>, "quote") = <<"quote">> \o <<>> /\ <<>> \o Slashes(0) = <<>>
      /\ <<>> \o <<>> = <<>>
  BY <1>2
<1> QED
  BY <1>1, <1>2, <1>3, <1>4, <1>5 DEF Passes, Open

LEMMA AnyLines ==
    /\ \A s, t, u \in Seq(Token) : (s \o t) \o u = s \o (t \o u)
    /\ \A s, t \in Seq(Token), d \in Token : s \o Append(t, d) = Append(s \o t, d)
    /\ \A t \in Seq(Token), d \in Token : Append(t, d) \in Seq(Token) /\ t \o <<d>> = Append(t, d)
    /\ \A k \in Nat : k + 1 \in Nat
<1>1. ASSUME NEW s \in Seq(Token), NEW t \in Seq(Token), NEW u \in Seq(Token)
      PROVE  (s \o t) \o u = s \o (t \o u)
  BY ConcatAssociative
<1>2. ASSUME NEW s \in Seq(Token), NEW t \in Seq(Token), NEW d \in Token
      PROVE  s \o Append(t, d) = Append(s \o t, d)
  BY OneOn
<1>3. ASSUME NEW t \in Seq(Token), NEW d \in Token
      PROVE  Append(t, d) \in Seq(Token) /\ t \o <<d>> = Append(t, d)
  BY OneOn
<1> QED
  BY <1>1, <1>2, <1>3

LEMMA QuotesOn ==
    ASSUME NEW s \in Seq(Token), NEW t \in Seq(Token), NEW k \in Nat, NEW c \in Token
    PROVE  Append(Append((s \o t) \o Slashes(k), c), c)
              = s \o Append(Append(t \o Slashes(k), c), c)
<1> DEFINE mid == t \o Slashes(k)
<1>1. Slashes(k) \in Seq(Token)
  BY SlashesAre
<1>2. mid \in Seq(Token)
  BY <1>1, ConcatProperties
<1>3. (s \o t) \o Slashes(k) = s \o mid
  BY <1>1, ConcatAssociative
<1> HIDE DEF mid
<1>4. s \o Append(mid, c) = Append(s \o mid, c) /\ Append(mid, c) \in Seq(Token)
  BY <1>2, OneOn
<1>5. s \o Append(Append(mid, c), c) = Append(s \o Append(mid, c), c)
  BY <1>4, OneOn
<1> QED
  BY <1>3, <1>4, <1>5 DEF mid

LEMMA GuardedPercent ==
    ASSUME NEW t \in Seq(Token)
    PROVE  t \o <<"%", "%", "cd:~,">> \o <<"%">>
              = Append(Append(Append(Append(t, "%"), "%"), "cd:~,"), "%")
<1> DEFINE n1 == Append(t, "%")
           n2 == Append(n1, "%")
           n3 == Append(n2, "cd:~,")
<1>1. "%" \in Token /\ "cd:~," \in Token
  BY DEF Token, Line!Char
<1>2. <<"%">> \in Seq(Token) /\ <<"%", "%">> \in Seq(Token)
  BY <1>1, Short
<1>3. n1 \in Seq(Token) /\ t \o <<"%">> = n1
  BY <1>1, OneOn
<1>4. n2 \in Seq(Token) /\ t \o <<"%", "%">> = n2
  <2>1. t \o Append(<<"%">>, "%") = Append(t \o <<"%">>, "%")
    BY <1>1, <1>2, OneOn
  <2>2. Append(<<"%">>, "%") = <<"%", "%">>
    BY <1>1, Pair
  <2> HIDE DEF n1
  <2>3. n2 \in Seq(Token)
    BY <1>1, <1>3, OneOn
  <2> QED
    BY <1>3, <2>1, <2>2, <2>3
<1>5. n3 \in Seq(Token) /\ t \o <<"%", "%", "cd:~,">> = n3
  <2>1. t \o Append(<<"%", "%">>, "cd:~,") = Append(t \o <<"%", "%">>, "cd:~,")
    BY <1>1, <1>2, OneOn
  <2>2. Append(<<"%", "%">>, "cd:~,") = <<"%", "%", "cd:~,">>
    BY <1>1, Triple
  <2> HIDE DEF n2
  <2>3. n3 \in Seq(Token)
    BY <1>1, <1>4, OneOn
  <2> QED
    BY <1>4, <2>1, <2>2, <2>3
<1> HIDE DEF n3
<1>6. n3 \o <<"%">> = Append(n3, "%")
  BY <1>1, <1>5, OneOn
<1> QED
  BY <1>5, <1>6 DEF n3

LEMMA PassesStep ==
    ASSUME NEW inside \in BOOLEAN, NEW text \in Seq(Line!Char), Passes(inside, text),
           NEW c \in Line!Char, ~inside => c \in {"a", "\\", "line break"}
    PROVE  Passes(inside, Append(text, c))
<1>1. PICK out \in Seq(Token), o \in Seq(Token), k \in Nat :
         /\ After("escape", text) = [out |-> out, slashes |-> k]
         /\ Reads(Open(inside) \o out, o, k, inside, FALSE)
         /\ o \o Slashes(k) = text
  BY DEF Passes
<1> DEFINE line == Open(inside) \o out
<1>2. /\ text \in Seq(Token) /\ c \in Token /\ line \in Seq(Token)
      /\ Open(inside) \in Seq(Token)
  <2>1. Line!Char \subseteq Token /\ "quote" \in Token
    BY DEF Token, Line!Char
  <2>2. text \in Seq(Token) /\ c \in Token
    BY <2>1, SeqMonotonic
  <2>3. Open(inside) \in Seq(Token)
    BY <2>1, EmptySeq, Short DEF Open
  <2> QED
    BY <2>2, <2>3, ConcatProperties
<1>3. After("escape", Append(text, c)) = Line!Escape([out |-> out, slashes |-> k], c)
  BY <1>1, <1>2, ReadingOn
<1>4. \A t \in Seq(Token), d \in Token :
         Append(t, d) \in Seq(Token) /\ Open(inside) \o Append(t, d) = Append(Open(inside) \o t, d)
  <2>1. Open(inside) \in Seq(Token)
    BY <1>2
  <2> HIDE DEF line
  <2>2. \A t \in Seq(Token), d \in Token : Append(t, d) \in Seq(Token)
    BY AnyLines, Zenon
  <2>3. \A s \in Seq(Token) : \A t \in Seq(Token), d \in Token :
           s \o Append(t, d) = Append(s \o t, d)
    BY AnyLines, Zenon
  <2>4. \A t \in Seq(Token), d \in Token :
           Open(inside) \o Append(t, d) = Append(Open(inside) \o t, d)
    BY <2>1, <2>3, Zenon
  <2> QED
    BY <2>2, <2>4, Zenon
<1>5. \A t \in Seq(Token) : t \o Slashes(0) = t
  BY SlashesAre, ConcatEmptySeq
<1>6. CASE c \in {"a", "space", "&", "line break"}
  <2>1. After("escape", Append(text, c)) = [out |-> Append(out, c), slashes |-> 0]
    <3>1. Line!Escape([out |-> out, slashes |-> k], c) = [out |-> out \o <<>> \o <<c>>, slashes |-> 0]
      BY <1>6 DEF Line!Escape
    <3>2. out \o <<>> \o <<c>> = Append(out, c)
      BY <1>2, ConcatEmptySeq, OneOn
    <3> QED
      BY <1>3, <3>1, <3>2
  <2>2. Reads(Append(line, c), Append(o \o Slashes(k), c), 0, inside, FALSE)
    BY <1>1, <1>6, PlainStep
  <2>3. Append(o \o Slashes(k), c) \o Slashes(0) = Append(text, c)
    BY <1>1, <1>2, <1>4, <1>5
  <2>4. Reads(Open(inside) \o Append(out, c), Append(text, c), 0, inside, FALSE)
    BY <1>1, <1>2, <1>4, <2>2
  <2>5. Append(out, c) \in Seq(Token) /\ Append(text, c) \in Seq(Token)
    BY <1>2, <1>4
  <2> QED
    BY <1>1, <2>1, <2>3, <2>4, <2>5 DEF Passes
<1>7. CASE c = "\\"
  <2>1. After("escape", Append(text, c)) = [out |-> Append(out, c), slashes |-> k + 1]
    <3>1. Line!Escape([out |-> out, slashes |-> k], c)
             = [out |-> out \o <<>> \o <<c>>, slashes |-> k + 1]
      BY <1>7 DEF Line!Escape
    <3>2. out \o <<>> \o <<c>> = Append(out, c)
      BY <1>2, ConcatEmptySeq, OneOn
    <3> QED
      BY <1>3, <3>1, <3>2
  <2>2. Reads(Open(inside) \o Append(out, c), o, k + 1, inside, FALSE)
    <3>1. Reads(Append(line, "\\"), o, k + 1, inside, FALSE)
      BY <1>1, SlashStep
    <3>2. Open(inside) \o Append(out, c) = Append(line, "\\")
      BY <1>4, <1>7, <1>2
    <3> HIDE DEF line
    <3> QED
      BY <3>1, <3>2
  <2>3. o \o Slashes(k + 1) = Append(text, c)
    BY <1>1, <1>2, <1>7, Joined
  <2>4. Append(out, c) \in Seq(Token)
    BY <1>2, <1>4
  <2>5. k + 1 \in Nat
    BY AnyLines, Zenon
  <2> QED
    BY <2>1, <2>2, <2>3, <2>4, <2>5 DEF Passes
<1>8. CASE c = "quote"
  <2> DEFINE mid == out \o Slashes(k)
             new == Append(Append(mid, c), c)
  <2>1. /\ inside /\ mid \in Seq(Token) /\ Append(mid, c) \in Seq(Token)
        /\ new \in Seq(Token) /\ Slashes(k) \in Seq(Token)
    BY <1>2, <1>4, <1>8, Joined, SlashesAre
  <2>2. After("escape", Append(text, c)) = [out |-> new, slashes |-> 0]
    <3>1. Line!Escape([out |-> out, slashes |-> k], c)
             = [out |-> out \o (Slashes(k) \o <<c>>) \o <<c>>, slashes |-> 0]
      BY <1>8 DEF Line!Escape, Slashes
    <3>2. out \o (Slashes(k) \o <<c>>) = Append(mid, c)
      BY <1>2, <2>1, OneOn
    <3>3. Append(mid, c) \o <<c>> = new
      BY <1>2, <2>1, OneOn
    <3> QED
      BY <1>3, <3>1, <3>2, <3>3
  <2>3. Reads(line \o Slashes(k), o, 2 * k, TRUE, FALSE)
    <3>1. Reads(line \o Slashes(k), o, k + k, inside, FALSE)
      BY <1>1, SlashesStep
    <3>2. k + k = 2 * k /\ inside = TRUE
      BY <2>1
    <3> QED
      BY <3>1, <3>2, Zenon
  <2>4. Reads(Append(line \o Slashes(k), c), text, 0, FALSE, TRUE)
    <3>1. Reads(Append(line \o Slashes(k), "quote"), o \o Slashes(k), 0, ~TRUE, TRUE)
      BY <2>3, QuoteStep
    <3>2. ~TRUE = FALSE
      OBVIOUS
    <3> QED
      BY <1>1, <1>8, <3>1, <3>2, Zenon
  <2>5. Reads(Append(Append(line \o Slashes(k), c), c), Append(text, c), 0, TRUE, FALSE)
    BY <1>8, <2>4, SecondQuoteStep
  <2>6. Append(Append(line \o Slashes(k), c), c) = Open(inside) \o new
    BY <1>2, QuotesOn
  <2>7. Append(text, c) \in Seq(Token) /\ Append(text, c) \o Slashes(0) = Append(text, c)
    BY <1>2, <1>4, <1>5
  <2>8. inside = TRUE
    BY <2>1
  <2>9. Reads(Open(inside) \o new, Append(text, c), 0, inside, FALSE)
    BY <2>5, <2>6, <2>8, Zenon
  <2> HIDE DEF new
  <2> QED
    BY <2>1, <2>2, <2>7, <2>9 DEF Passes
<1>9. CASE c = "%"
  <2> DEFINE n1 == Append(out, "%")
             n2 == Append(n1, "%")
             n3 == Append(n2, "cd:~,")
             n4 == Append(n3, "%")
  <2>1. "%" \in Token /\ "cd:~," \in Token
    BY DEF Token, Line!Char
  <2>2. n1 \in Seq(Token) /\ Open(inside) \o n1 = Append(line, "%")
    BY <1>4, <2>1
  <2>3. n2 \in Seq(Token) /\ Open(inside) \o n2 = Append(Append(line, "%"), "%")
    <3> HIDE DEF n1
    <3> QED
      BY <1>4, <2>1, <2>2
  <2>4. /\ n3 \in Seq(Token)
        /\ Open(inside) \o n3 = Append(Append(Append(line, "%"), "%"), "cd:~,")
    <3> HIDE DEF n2
    <3> QED
      BY <1>4, <2>1, <2>3
  <2>5. /\ n4 \in Seq(Token)
        /\ Open(inside) \o n4 = Append(Append(Append(Append(line, "%"), "%"), "cd:~,"), "%")
    <3> HIDE DEF n3
    <3> QED
      BY <1>4, <2>1, <2>4
  <2>6. After("escape", Append(text, c)) = [out |-> n4, slashes |-> 0]
    <3>1. Line!Escape([out |-> out, slashes |-> k], c)
             = [out |-> out \o <<"%", "%", "cd:~,">> \o <<"%">>, slashes |-> 0]
      BY <1>9 DEF Line!Escape, Line!PercentGuard
    <3>2. out \o <<"%", "%", "cd:~,">> \o <<"%">> = n4
      BY <1>1, GuardedPercent
    <3> HIDE DEF n4
    <3> QED
      BY <1>3, <1>9, <3>1, <3>2
  <2> HIDE DEF n4
  <2>7. Reads(Open(inside) \o n4, Append(o \o Slashes(k), "%"), 0, inside, FALSE)
    BY <1>1, <2>5, PercentStep
  <2>8. Append(text, c) \in Seq(Token) /\ Append(text, c) \o Slashes(0) = Append(text, c)
    BY <1>2, <1>4, <1>5
  <2> QED
    BY <1>1, <1>9, <2>5, <2>6, <2>7, <2>8 DEF Passes
<1> QED
  BY <1>6, <1>7, <1>8, <1>9 DEF Line!Char

(* Every argument is read as it is: in quotes, and out of them if nothing in *)
(* it needs any.                                                             *)
LineInv ==
    /\ arg \in Seq(Line!Char)
    /\ Passes(TRUE, arg)
    /\ (\A i \in DOMAIN arg : arg[i] \in {"a", "\\", "line break"}) => Passes(FALSE, arg)

LEMMA LineInit == Line!Init => LineInv
<1> SUFFICES ASSUME arg = <<>> PROVE LineInv
  BY DEF Line!Init
<1>1. arg \in Seq(Line!Char) /\ Passes(TRUE, arg) /\ Passes(FALSE, arg)
  <2>1. <<>> \in Seq(Line!Char)
    BY EmptySeq
  <2> QED
    BY <2>1, PassesNothing, Zenon
<1> QED
  BY <1>1 DEF LineInv

LEMMA LineStep == LineInv /\ Line!Next => LineInv'
<1> SUFFICES ASSUME LineInv, NEW c \in Line!Char, arg' = Append(arg, c) PROVE LineInv'
  BY DEF Line!Next
<1>1. arg \in Seq(Line!Char) /\ Passes(TRUE, arg)
  BY DEF LineInv
<1>2. arg' \in Seq(Line!Char)
  BY <1>1, AppendProperties
<1>3. Passes(TRUE, Append(arg, c))
  BY <1>1, PassesStep
<1>4. ASSUME \A i \in DOMAIN Append(arg, c) : Append(arg, c)[i] \in {"a", "\\", "line break"}
      PROVE  Passes(FALSE, Append(arg, c))
  <2>1. /\ DOMAIN arg = 1 .. Len(arg) /\ Len(arg) \in Nat
        /\ DOMAIN Append(arg, c) = 1 .. Len(arg) + 1
        /\ Append(arg, c)[Len(arg) + 1] = c
        /\ \A i \in 1 .. Len(arg) : Append(arg, c)[i] = arg[i]
    BY <1>1
  <2>2. \A i \in 1 .. Len(arg) : i \in 1 .. Len(arg) + 1
    BY <2>1
  <2>3. Len(arg) + 1 \in 1 .. Len(arg) + 1
    BY <2>1
  <2> DEFINE n == Len(arg)
             new == Append(arg, c)
             plain == {"a", "\\", "line break"}
  <2> HIDE DEF n, new, plain
  <2>5. c \in plain /\ \A i \in DOMAIN arg : arg[i] \in plain
    <3>1. /\ \A i \in DOMAIN new : new[i] \in plain
          /\ DOMAIN arg = 1 .. n /\ DOMAIN new = 1 .. n + 1 /\ new[n + 1] = c
          /\ \A i \in 1 .. n : new[i] = arg[i]
          /\ \A i \in 1 .. n : i \in 1 .. n + 1
          /\ n + 1 \in 1 .. n + 1
      BY <1>4, <2>1, <2>2, <2>3 DEF n, new, plain
    <3> QED
      BY <3>1
  <2>4. Passes(FALSE, arg)
    BY <2>5 DEF LineInv, plain
  <2> QED
    BY <1>1, <2>4, <2>5, PassesStep DEF plain
<1> QED
  BY <1>2, <1>3, <1>4 DEF LineInv, Passes

LEMMA LineAnswers == LineInv => Line!ArgumentsSurvive
<1> SUFFICES ASSUME LineInv PROVE Line!ArgumentsSurvive
  OBVIOUS
<1>1. ASSUME NEW line, NEW o, NEW k, NEW inside, NEW closing,
             Reads(line, o, k, inside, closing), ~inside
      PROVE  /\ Line!ReadBack(Line!Expanded(line)) = o \o Slashes(k)
             /\ ~Line!ActedUpon(line)
             /\ Line!QuotesBefore(line, Len(line) + 1) % 2 = 0
  <2>1. PICK x \in Seq(Token) :
           /\ After("expand", line) = [name |-> <<>>, out |-> x]
           /\ After("split", x) = [out |-> o, slashes |-> k, inside |-> inside,
                                   closing |-> closing]
    BY <1>1 DEF Reads
  <2>2. Line!Expanded(line) = x
    <3>1. Line!Expanded(line) = x \o <<>>
      <4>1. Expansion(line) = [name |-> <<>>, out |-> x]
        BY <2>1 DEF After
      <4>2. Line!Expanded(line) = Expansion(line).out \o Expansion(line).name
        BY DEF Line!Expanded, Expansion
      <4> QED
        BY <4>1, <4>2
    <3> QED
      BY <3>1, ConcatEmptySeq
  <2>3. Line!ReadBack(x) = o \o Slashes(k)
    <3>1. Splitting(x) = [out |-> o, slashes |-> k, inside |-> inside, closing |-> closing]
      BY <2>1 DEF After
    <3>2. Line!ReadBack(x) = Splitting(x).out \o Slashes(Splitting(x).slashes)
      BY DEF Line!ReadBack, Splitting, Slashes
    <3> QED
      BY <3>1, <3>2
  <2>4. DOMAIN line = 1 .. Len(line)
    BY <1>1 DEF Reads, Sheltered
  <2>5. ~Line!ActedUpon(line)
    BY <1>1, <2>4 DEF Reads, Sheltered, Line!ActedUpon
  <2> QED
    BY <1>1, <2>2, <2>3, <2>5 DEF Reads, Sheltered
<1> DEFINE line == Line!AppendArgument(arg)
<1>3. line = IF Line!NeedsQuoting(arg)
             THEN <<"quote">> \o Escaped(arg).out \o Slashes(Escaped(arg).slashes)
                  \o <<"quote">>
             ELSE Escaped(arg).out
  BY DEF Line!AppendArgument, Escaped, Slashes
<1>2. /\ Line!ReadBack(Line!Expanded(line)) = arg
      /\ ~Line!ActedUpon(line)
      /\ Line!QuotesBefore(line, Len(line) + 1) % 2 = 0
  <2>1. CASE Line!NeedsQuoting(arg)
    <3>1. PICK out \in Seq(Token), o \in Seq(Token), k \in Nat :
             /\ After("escape", arg) = [out |-> out, slashes |-> k]
             /\ Reads(Open(TRUE) \o out, o, k, TRUE, FALSE)
             /\ o \o Slashes(k) = arg
      BY DEF LineInv, Passes
    <3> DEFINE start == <<"quote">> \o out
    <3>2. line = <<"quote">> \o out \o Slashes(k) \o <<"quote">>
      <4>1. Escaped(arg) = [out |-> out, slashes |-> k]
        BY <3>1 DEF After
      <4> HIDE DEF line
      <4> QED
        BY <1>3, <2>1, <4>1
    <3>3. Reads(start \o Slashes(k), o, 2 * k, TRUE, FALSE)
      <4>1. Reads(start, o, k, TRUE, FALSE)
        BY <3>1 DEF Open
      <4>2. Reads(start \o Slashes(k), o, k + k, TRUE, FALSE)
        BY <4>1, SlashesStep
      <4>3. k + k = 2 * k
        OBVIOUS
      <4> QED
        BY <4>2, <4>3, Zenon
    <3>4. Reads(Append(start \o Slashes(k), "quote"), o \o Slashes(k), 0, ~TRUE, TRUE)
      BY <3>3, QuoteStep
    <3>5. line = Append(start \o Slashes(k), "quote")
      <4>1. start \o Slashes(k) \in Seq(Token) /\ "quote" \in Token
        BY <3>3 DEF Reads, Sheltered, Token, Line!Char
      <4> QED
        BY <3>2, <4>1, OneOn
    <3>6. (o \o Slashes(k)) \o Slashes(0) = arg
      <4>1. o \o Slashes(k) \in Seq(Token) /\ Slashes(0) = <<>>
        BY SlashesAre, ConcatProperties
      <4> QED
        BY <3>1, <4>1, ConcatEmptySeq
    <3> HIDE DEF line, start
    <3> QED
      BY <1>1, <3>4, <3>5, <3>6
  <2>2. CASE ~Line!NeedsQuoting(arg)
    <3>1. \A i \in DOMAIN arg : arg[i] \in {"a", "\\", "line break"}
      <4>1. \A i \in DOMAIN arg : arg[i] \in Line!Char
        <5>1. arg \in Seq(Line!Char)
          BY DEF LineInv
        <5> QED
          BY <5>1, LenProperties, ElementOfSeq
      <4> QED
        BY <2>2, <4>1 DEF Line!NeedsQuoting, Line!Char
    <3>2. PICK out \in Seq(Token), o \in Seq(Token), k \in Nat :
             /\ After("escape", arg) = [out |-> out, slashes |-> k]
             /\ Reads(Open(FALSE) \o out, o, k, FALSE, FALSE)
             /\ o \o Slashes(k) = arg
      BY <3>1 DEF LineInv, Passes
    <3>3. line = out
      <4>1. Escaped(arg) = [out |-> out, slashes |-> k]
        BY <3>2 DEF After
      <4> HIDE DEF line
      <4> QED
        BY <1>3, <2>2, <4>1
    <3>4. Open(FALSE) \o out = out
      BY <3>2, ConcatEmptySeq DEF Open
    <3>5. Reads(line, o, k, FALSE, FALSE)
      BY <3>2, <3>3, <3>4
    <3> HIDE DEF line
    <3> QED
      BY <1>1, <3>2, <3>5
  <2> QED
    BY <2>1, <2>2
<1> QED
  BY <1>2 DEF Line!ArgumentsSurvive

-----------------------------------------------------------------------------
(* The launcher. *)

(* How a program can end.                                                    *)
ProgramEnd == {Shim!Exit(n) : n \in EndCodes} \cup {Shim!Killed(s) : s \in Shim!Signals}

(* What the launcher holds is what it held when the program started; it has  *)
(* ended before the program only by a kill, and after it as it did, or by a  *)
(* signal that came too late.                                                *)
LaunchInv ==
    /\ shim = [at |-> shim.at, held |-> shim.held, end |-> shim.end]
    /\ binary = [at |-> binary.at, end |-> binary.end]
    /\ shim.at \in {"start", "spawn", "waits", "raise", "ended"}
    /\ binary.at \in {"none", "running", "ended"}
    /\ late \in BOOLEAN
    /\ shim.at \in {"start", "spawn"} => binary.at = "none"
    /\ shim.at \in {"spawn", "waits"} => shim.held = Shim!Held
    /\ shim.at = "raise" => binary.at = "ended"
    /\ binary.at = "ended" => binary.end \in ProgramEnd
    /\ Shim!EndsAsTheProgram

LEMMA LaunchInit == Shim!Init => LaunchInv
<1> SUFFICES ASSUME Shim!Init PROVE LaunchInv
  OBVIOUS
<1>1. /\ shim = [at |-> "start", held |-> {}, end |-> Shim!NotYet]
      /\ binary = [at |-> "none", end |-> Shim!NotYet]
      /\ late = FALSE
  BY DEF Shim!Init
<1>2. shim.at = "start" /\ binary.at = "none"
  BY <1>1
<1> QED
  BY <1>1, <1>2 DEF LaunchInv, Shim!EndsAsTheProgram

LEMMA LaunchStill == LaunchInv /\ UNCHANGED launch => LaunchInv'
  BY DEF launch, LaunchInv, Shim!EndsAsTheProgram

(* What a signal does to the two, whichever it reaches.                      *)
LEMMA SignalLaunch ==
    ASSUME LaunchInv, NEW s \in Shim!Signals, UNCHANGED machine,
           \/ Shim!ShimTakes(s) /\ Shim!ProgramTakes(s)
           \/ Shim!ShimTakes(s) /\ UNCHANGED binary
           \/ Shim!ProgramTakes(s) /\ UNCHANGED <<shim, late>>
    PROVE  LaunchInv'
<1> DEFINE dies == shim' = [shim EXCEPT !.at = "ended", !.end = Shim!Killed(s)]
                   /\ late' = (late \/ binary.at # "running")
                   /\ s \notin shim.held /\ s # "PIPE" /\ shim.at # "ended"
           ends == binary.at = "running" /\ \E end \in ProgramEnd : binary' = [at |-> "ended", end |-> end]
<1>1. dies \/ UNCHANGED <<shim, late>>
  BY DEF Shim!ShimTakes, Shim!Ends, Shim!IgnoredByNode
<1>2. ends \/ UNCHANGED binary
  BY DEF Shim!ProgramTakes, Shim!ProgramEnds, ProgramEnd
<1>3. CASE UNCHANGED <<shim, late>> /\ UNCHANGED binary
  BY <1>3 DEF LaunchInv, Shim!EndsAsTheProgram
<1>4. CASE UNCHANGED <<shim, late>> /\ ends
  BY <1>4 DEF LaunchInv, Shim!EndsAsTheProgram
<1>5. CASE dies /\ (ends \/ UNCHANGED binary)
  <2>1. /\ shim' = [at |-> "ended", held |-> shim.held, end |-> Shim!Killed(s)]
        /\ late' \in BOOLEAN
    BY <1>5 DEF LaunchInv
  <2>2. /\ binary' = [at |-> binary'.at, end |-> binary'.end]
        /\ binary'.at \in {"none", "running", "ended"}
        /\ binary'.at = "ended" => binary'.end \in ProgramEnd
        /\ binary'.at = "none" <=> binary.at = "none"
    BY <1>5 DEF LaunchInv
  <2>3. binary'.at # "none" /\ ~late' => s = "KILL"
    <3> SUFFICES ASSUME binary.at = "running" PROVE s = "KILL"
      BY <1>5, <2>2 DEF LaunchInv
    <3>1. shim.at \notin {"start", "spawn", "raise", "ended"}
      BY <1>5 DEF LaunchInv
    <3>2. shim.at = "waits"
      BY <3>1, <1>5 DEF LaunchInv
    <3> QED
      BY <3>2, <1>5 DEF LaunchInv, Shim!Held, Shim!Signals
  <2>4. Shim!EndsAsTheProgram'
    BY <2>1, <2>3 DEF Shim!EndsAsTheProgram
  <2> QED
    BY <2>1, <2>2, <2>4 DEF LaunchInv
<1> QED
  BY <1>1, <1>2, <1>3, <1>4, <1>5

LEMMA RaiseLaunch == LaunchInv /\ Shim!Raise => LaunchInv'
<1> SUFFICES ASSUME LaunchInv, Shim!Raise PROVE LaunchInv'
  OBVIOUS
<1>1. /\ shim.at = "raise" /\ binary.at = "ended" /\ binary.end \in ProgramEnd
      /\ shim' = [at |-> "ended", held |-> shim.held, end |-> Shim!Conclusion(binary.end)]
      /\ UNCHANGED <<binary, late>>
  BY DEF LaunchInv, Shim!Raise, Shim!Ends
<1>2. Shim!EndsAsTheProgram'
  <2>1. ASSUME NEW n \in EndCodes, binary.end = Shim!Exit(n)
        PROVE  shim'.end = binary.end /\ binary.end.signal \notin Shim!IgnoredByNode
    BY <1>1, <2>1 DEF Shim!Conclusion, Shim!Exit, Shim!IgnoredByNode
  <2>2. ASSUME NEW s \in Shim!Signals, binary.end = Shim!Killed(s)
        PROVE  IF s \in Shim!IgnoredByNode
               THEN shim'.end = Shim!Exit(128 + Shim!NumberOf(s)) /\ binary.end.signal = s
               ELSE shim'.end = binary.end /\ binary.end.signal = s
    BY <1>1, <2>2 DEF Shim!Conclusion, Shim!Killed
  <2> QED
    BY <1>1, <2>1, <2>2 DEF ProgramEnd, Shim!EndsAsTheProgram
<1> QED
  BY <1>1, <1>2 DEF LaunchInv

LEMMA LaunchStep == LaunchInv /\ Shim!Next => LaunchInv'
<1> SUFFICES ASSUME LaunchInv, Shim!Next PROVE LaunchInv'
  OBVIOUS
<1>1. CASE Shim!Main
  BY <1>1 DEF Shim!Main, Shim!Ends, LaunchInv, Shim!EndsAsTheProgram
<1>2. CASE Shim!Spawn
  BY <1>2 DEF Shim!Spawn, Shim!Ends, LaunchInv, Shim!EndsAsTheProgram
<1>3. CASE Shim!Finish
  BY <1>3 DEF Shim!Finish, Shim!ProgramEnds, ProgramEnd, LaunchInv, Shim!EndsAsTheProgram
<1>4. CASE Shim!Return
  BY <1>4 DEF Shim!Return, LaunchInv, Shim!EndsAsTheProgram
<1>5. CASE Shim!Raise
  BY <1>5, RaiseLaunch
<1>6. CASE Shim!Signal
  BY <1>6, SignalLaunch DEF Shim!Signal
<1> QED
  BY <1>1, <1>2, <1>3, <1>4, <1>5, <1>6 DEF Shim!Next

-----------------------------------------------------------------------------
(* Cutting a release. *)

Unique(set) == \A t, u \in set : t.n = u.n => t = u

(* No clone has two tags of one number either; and in a clone where nobody   *)
(* else cuts, the tag that is about to be pushed is one's own.               *)
CutInv ==
    /\ local = [k \in Clone |-> local[k]]
    /\ cut = [c \in Cut |-> cut[c]]
    /\ \A c \in Cut : cut[c] = [at |-> cut[c].at, attempt |-> cut[c].attempt,
                                plan |-> cut[c].plan, shown |-> cut[c].shown]
    /\ Unique(remote)
    /\ \A k \in Clone : Unique(local[k])
    /\ \A c \in Cut : cut[c].at = "push" /\ Cuts!Alone(c) =>
          \A t \in local[Home(c)] : t.n = cut[c].plan => t.by = c
    /\ \A c \in Cut : cut[c].at = "done" =>
          /\ \E t \in remote : t.n = cut[c].plan
          /\ Cuts!Alone(c) => \A t \in remote : t.n = cut[c].plan => t.by = c

LEMMA CutInit == Cuts!Init => CutInv
  BY DEF Cuts!Init, Cuts!Idle, CutInv, Unique

LEMMA CutStill == CutInv /\ UNCHANGED cuts => CutInv'
  BY DEF cuts, CutInv, Unique

(* What a push puts on the origin.                                           *)
LEMMA Pushed ==
    ASSUME CutInv, NEW c \in Cut, cut[c].at = "push", Cuts!CanPush(c),
           remote' = remote \cup Cuts!At(local[Home(c)], cut[c].plan)
    PROVE  /\ Unique(remote') /\ remote \subseteq remote'
           /\ \E t \in remote' : t.n = cut[c].plan
           /\ \A t \in remote' \ remote : t.n = cut[c].plan /\ ~\E u \in remote : u.n = t.n
           /\ Cuts!Alone(c) => \A t \in remote' : t.n = cut[c].plan => t.by = c
<1>1. \A t \in remote' : t \in remote \/ (t \in local[Home(c)] /\ t.n = cut[c].plan)
  BY DEF Cuts!At
<1>2. \A t \in remote' : t.n = cut[c].plan => t \in local[Home(c)]
  BY <1>1 DEF Cuts!CanPush, Cuts!At
<1>3. Unique(remote) /\ Unique(local[Home(c)])
  BY HomeAssumption DEF CutInv
<1>4. Unique(remote')
  BY <1>1, <1>2, <1>3 DEF Unique
<1>5. \E t \in remote' : t.n = cut[c].plan
  BY DEF Cuts!CanPush, Cuts!At
<1>6. \A t \in remote' \ remote : t.n = cut[c].plan /\ ~\E u \in remote : u.n = t.n
  BY <1>1, <1>4 DEF Unique
<1>7. Cuts!Alone(c) => \A t \in remote' : t.n = cut[c].plan => t.by = c
  BY <1>2, HomeAssumption DEF CutInv
<1> QED
  BY <1>4, <1>5, <1>6, <1>7

(* Nothing that was done is undone by a tag of another number.               *)
LEMMA DoneStays ==
    ASSUME CutInv, NEW d \in Cut, cut[d].at = "done", Unique(remote'), remote \subseteq remote'
    PROVE  /\ \E t \in remote' : t.n = cut[d].plan
           /\ Cuts!Alone(d) => \A t \in remote' : t.n = cut[d].plan => t.by = d
<1>1. PICK t \in remote : t.n = cut[d].plan
  BY DEF CutInv
<1>2. \A u \in remote' : u.n = cut[d].plan => u = t
  BY <1>1 DEF Unique
<1> QED
  BY <1>1, <1>2 DEF CutInv

(* A step of one cut: nobody else's clone changes, and the origin only gains. *)
LEMMA CutMoves ==
    ASSUME CutInv, NEW c \in Cut, Unique(remote'), remote \subseteq remote',
           cut' = [cut EXCEPT ![c] = cut'[c]],
           cut'[c] = [at |-> cut'[c].at, attempt |-> cut'[c].attempt,
                      plan |-> cut'[c].plan, shown |-> cut'[c].shown],
           cut'[c].at = "done" =>
              /\ \E t \in remote' : t.n = cut'[c].plan
              /\ Cuts!Alone(c) => \A t \in remote' : t.n = cut'[c].plan => t.by = c,
           \A k \in Clone : k # Home(c) => local'[k] = local[k],
           local' = [k \in Clone |-> local'[k]],
           Unique(local'[Home(c)]),
           cut'[c].at = "push" /\ Cuts!Alone(c) =>
              \A t \in local'[Home(c)] : t.n = cut'[c].plan => t.by = c
    PROVE  CutInv'
<1>1. \A d \in Cut : d # c => cut'[d] = cut[d]
  BY DEF CutInv
<1>2. cut' = [d \in Cut |-> cut'[d]]
  BY DEF CutInv
<1>3. \A d \in Cut : d # c /\ Cuts!Alone(d) => local'[Home(d)] = local[Home(d)]
  BY HomeAssumption DEF Cuts!Alone
<1>4. \A k \in Clone : Unique(local'[k])
  BY DEF CutInv
<1>5. ASSUME NEW d \in Cut, cut'[d].at = "push", Cuts!Alone(d)
      PROVE  \A t \in local'[Home(d)] : t.n = cut'[d].plan => t.by = d
  <2>1. CASE d = c
    BY <1>5, <2>1
  <2>2. CASE d # c
    <3>1. cut[d].at = "push" /\ cut'[d] = cut[d] /\ local'[Home(d)] = local[Home(d)]
      BY <1>1, <1>3, <1>5, <2>2
    <3>2. \A t \in local[Home(d)] : t.n = cut[d].plan => t.by = d
      BY <3>1, <1>5 DEF CutInv
    <3> QED
      BY <3>1, <3>2
  <2> QED
    BY <2>1, <2>2
<1>6. ASSUME NEW d \in Cut, cut'[d].at = "done"
      PROVE  /\ \E t \in remote' : t.n = cut'[d].plan
             /\ Cuts!Alone(d) => \A t \in remote' : t.n = cut'[d].plan => t.by = d
  <2>1. CASE d = c
    BY <1>6, <2>1
  <2>2. CASE d # c
    BY <1>1, <1>6, <2>2, DoneStays
  <2> QED
    BY <2>1, <2>2
<1>7. \A d \in Cut : cut'[d] = [at |-> cut'[d].at, attempt |-> cut'[d].attempt,
                                plan |-> cut'[d].plan, shown |-> cut'[d].shown]
  BY <1>1 DEF CutInv
<1>8. \A d \in Cut : Cuts!Alone(d)' <=> Cuts!Alone(d)
  BY DEF Cuts!Alone
<1> QED
  BY <1>2, <1>4, <1>5, <1>6, <1>7, <1>8 DEF CutInv, Unique

LEMMA RetryCut ==
    ASSUME CutInv, NEW c \in Cut, Cuts!Retry(c),
           cut[c].at \in {"create", "push"}
    PROVE  /\ cut' = [cut EXCEPT ![c] = cut'[c]]
           /\ cut'[c] = [at |-> cut'[c].at, attempt |-> cut'[c].attempt,
                         plan |-> cut'[c].plan, shown |-> cut'[c].shown]
           /\ cut'[c].at \in {"fetch", "gave up"}
           /\ \A k \in Clone : k # Home(c) => local'[k] = local[k]
           /\ local' = [k \in Clone |-> local'[k]]
           /\ Unique(local'[Home(c)])
<1>1. local' = [local EXCEPT ![Home(c)] = @ \ Cuts!At(@, cut[c].plan)]
  BY DEF Cuts!Retry
<1>2. local'[Home(c)] \subseteq local[Home(c)]
  BY <1>1, HomeAssumption DEF CutInv
<1>3. Unique(local'[Home(c)])
  BY <1>2, HomeAssumption DEF CutInv, Unique
<1>4. /\ \A k \in Clone : k # Home(c) => local'[k] = local[k]
      /\ local' = [k \in Clone |-> local'[k]]
  BY <1>1 DEF CutInv
<1>5. cut[c] = [at |-> cut[c].at, attempt |-> cut[c].attempt,
                plan |-> cut[c].plan, shown |-> cut[c].shown] /\ c \in DOMAIN cut
  BY DEF CutInv
<1>6. CASE cut' = [cut EXCEPT ![c].at = "fetch", ![c].attempt = @ + 1]
  <2>1. cut'[c] = [cut[c] EXCEPT !.at = "fetch", !.attempt = @ + 1]
    BY <1>5, <1>6
  <2> QED
    BY <1>3, <1>4, <1>5, <1>6, <2>1
<1>7. CASE cut' = [cut EXCEPT ![c].at = "gave up"]
  <2>1. cut'[c] = [cut[c] EXCEPT !.at = "gave up"]
    BY <1>5, <1>7
  <2> QED
    BY <1>3, <1>4, <1>5, <1>7, <2>1
<1> QED
  BY <1>6, <1>7 DEF Cuts!Retry, Cuts!Goes

(* What a step says of the cut that takes it.                                *)
LEMMA GoesOn ==
    ASSUME CutInv, NEW c \in Cut, NEW at, cut' = [cut EXCEPT ![c].at = at]
    PROVE  /\ cut' = [cut EXCEPT ![c] = cut'[c]]
           /\ cut'[c] = [at |-> cut'[c].at, attempt |-> cut'[c].attempt,
                         plan |-> cut'[c].plan, shown |-> cut'[c].shown]
           /\ cut'[c].at = at /\ cut'[c].plan = cut[c].plan
  BY DEF CutInv

LEMMA CutStays ==
    ASSUME CutInv, NEW c \in Cut, UNCHANGED <<remote, local>>,
           cut' = [cut EXCEPT ![c] = cut'[c]],
           cut'[c] = [at |-> cut'[c].at, attempt |-> cut'[c].attempt,
                      plan |-> cut'[c].plan, shown |-> cut'[c].shown],
           cut'[c].at \notin {"push", "done"}
    PROVE  CutInv'
  BY CutMoves, HomeAssumption DEF CutInv

LEMMA MainCut == ASSUME CutInv, NEW c \in Cut, Cuts!Main(c) PROVE CutInv'
<1>1. CASE cut' = [cut EXCEPT ![c].at = "refused"]
  BY <1>1, GoesOn, CutStays DEF Cuts!Main
<1>2. ASSUME NEW n, cut' = [cut EXCEPT ![c] = [Cuts!Idle EXCEPT !.at = "shown", !.shown = n]]
      PROVE  CutInv'
  <2>1. /\ cut'[c] = [at |-> cut'[c].at, attempt |-> cut'[c].attempt,
                      plan |-> cut'[c].plan, shown |-> cut'[c].shown]
        /\ cut' = [cut EXCEPT ![c] = cut'[c]]
        /\ cut'[c].at = "shown"
    BY <1>2 DEF CutInv, Cuts!Idle
  <2> QED
    BY <1>2, <2>1, CutStays DEF Cuts!Main
<1> QED
  BY <1>1, <1>2 DEF Cuts!Main, Cuts!Goes

LEMMA ConfirmCut == ASSUME CutInv, NEW c \in Cut, Cuts!Confirm(c) PROVE CutInv'
<1>1. CASE cut' = [cut EXCEPT ![c].at = "aborted"]
  BY <1>1, GoesOn, CutStays DEF Cuts!Confirm
<1>2. CASE cut' = [cut EXCEPT ![c] = [Cuts!Started EXCEPT !.shown = cut[c].shown]]
  <2>1. /\ cut'[c] = [at |-> cut'[c].at, attempt |-> cut'[c].attempt,
                      plan |-> cut'[c].plan, shown |-> cut'[c].shown]
        /\ cut' = [cut EXCEPT ![c] = cut'[c]]
        /\ cut'[c].at = "fetch"
    BY <1>2 DEF CutInv, Cuts!Started
  <2> QED
    BY <1>2, <2>1, CutStays DEF Cuts!Confirm
<1> QED
  BY <1>1, <1>2 DEF Cuts!Confirm, Cuts!Goes

(* A fetch leaves the clone one tag of each number.                          *)
LEMMA FetchCut == ASSUME CutInv, NEW c \in Cut, Cuts!Fetch(c) PROVE CutInv'
<1>1. local'[Home(c)] = remote \union {t \in local[Home(c)] : t.n \notin Cuts!Numbers(remote)}
  BY HomeAssumption DEF Cuts!Fetch, CutInv
<1>2. /\ \A k \in Clone : k # Home(c) => local'[k] = local[k]
      /\ local' = [k \in Clone |-> local'[k]]
  BY DEF Cuts!Fetch, CutInv
<1>3. Unique(local'[Home(c)])
  BY <1>1, HomeAssumption DEF CutInv, Unique, Cuts!Numbers
<1>4. cut' = [cut EXCEPT ![c].at = "plan"]
  BY DEF Cuts!Fetch, Cuts!Goes
<1>5. /\ cut' = [cut EXCEPT ![c] = cut'[c]]
      /\ cut'[c] = [at |-> cut'[c].at, attempt |-> cut'[c].attempt,
                    plan |-> cut'[c].plan, shown |-> cut'[c].shown]
      /\ cut'[c].at = "plan"
  BY <1>4, GoesOn
<1>6. Unique(remote') /\ remote \subseteq remote'
  BY DEF Cuts!Fetch, CutInv
<1> QED
  BY <1>2, <1>3, <1>5, <1>6, CutMoves

LEMMA PlanCut == ASSUME CutInv, NEW c \in Cut, Cuts!Plan(c) PROVE CutInv'
<1>1. CASE cut' = [cut EXCEPT ![c].at = "refused"]
  BY <1>1, GoesOn, CutStays DEF Cuts!Plan
<1>2. ASSUME NEW n, cut' = [cut EXCEPT ![c].at = "create", ![c].plan = n]
      PROVE  CutInv'
  <2>1. /\ cut[c] = [at |-> cut[c].at, attempt |-> cut[c].attempt,
                     plan |-> cut[c].plan, shown |-> cut[c].shown]
        /\ c \in DOMAIN cut
    BY DEF CutInv
  <2>2. cut'[c] = [cut[c] EXCEPT !.at = "create", !.plan = n]
    BY <1>2, <2>1
  <2>3. /\ cut'[c] = [at |-> cut'[c].at, attempt |-> cut'[c].attempt,
                      plan |-> cut'[c].plan, shown |-> cut'[c].shown]
        /\ cut' = [cut EXCEPT ![c] = cut'[c]]
        /\ cut'[c].at = "create"
    BY <1>2, <2>1, <2>2
  <2> QED
    BY <2>3, CutStays DEF Cuts!Plan
<1> QED
  BY <1>1, <1>2 DEF Cuts!Plan, Cuts!Goes

(* The tag that is made is the only one of its number in the clone.          *)
LEMMA CreateCut == ASSUME CutInv, NEW c \in Cut, Cuts!Create(c) PROVE CutInv'
<1>1. CASE Cuts!Retry(c)
  <2>1. cut[c].at = "create" /\ UNCHANGED remote
    BY DEF Cuts!Create
  <2> QED
    BY <1>1, <2>1, RetryCut, CutMoves DEF CutInv
<1>2. CASE /\ Cuts!At(local[Home(c)], cut[c].plan) = {}
           /\ local' = [local EXCEPT ![Home(c)] = @ \union {[n |-> cut[c].plan, by |-> c]}]
           /\ cut' = [cut EXCEPT ![c].at = "push"]
  <2>1. local'[Home(c)] = local[Home(c)] \union {[n |-> cut[c].plan, by |-> c]}
    BY <1>2, HomeAssumption DEF CutInv
  <2>2. \A t \in local[Home(c)] : t.n # cut[c].plan
    BY <1>2 DEF Cuts!At
  <2>3. \A t \in local'[Home(c)] :
           (t \in local[Home(c)] /\ t.n # cut[c].plan) \/ t = [n |-> cut[c].plan, by |-> c]
    BY <2>1, <2>2
  <2>5. Unique(local[Home(c)])
    BY HomeAssumption DEF CutInv
  <2>6. /\ Unique(local'[Home(c)])
        /\ \A t \in local'[Home(c)] : t.n = cut[c].plan => t.by = c
    BY <2>3, <2>5 DEF Unique
  <2>4. /\ \A k \in Clone : k # Home(c) => local'[k] = local[k]
        /\ local' = [k \in Clone |-> local'[k]]
    BY <1>2 DEF CutInv
  <2> QED
    <3>1. /\ cut' = [cut EXCEPT ![c] = cut'[c]]
          /\ cut'[c] = [at |-> cut'[c].at, attempt |-> cut'[c].attempt,
                        plan |-> cut'[c].plan, shown |-> cut'[c].shown]
          /\ cut'[c].at = "push" /\ cut'[c].plan = cut[c].plan
      BY <1>2, GoesOn
    <3>2. Unique(remote') /\ remote \subseteq remote'
      BY DEF Cuts!Create, CutInv
    <3> QED
      BY <2>4, <2>6, <3>1, <3>2, CutMoves
<1> QED
  BY <1>1, <1>2 DEF Cuts!Create, Cuts!Goes

LEMMA PushCut == ASSUME CutInv, NEW c \in Cut, Cuts!Push(c) PROVE CutInv'
<1>1. /\ cut[c].at = "push" /\ Cuts!CanPush(c) /\ UNCHANGED local
      /\ remote' = remote \union Cuts!At(local[Home(c)], cut[c].plan)
      /\ cut' = [cut EXCEPT ![c].at = "done"]
  BY DEF Cuts!Push, Cuts!Goes
<1>2. /\ cut' = [cut EXCEPT ![c] = cut'[c]]
      /\ cut'[c] = [at |-> cut'[c].at, attempt |-> cut'[c].attempt,
                    plan |-> cut'[c].plan, shown |-> cut'[c].shown]
      /\ cut'[c].at = "done" /\ cut'[c].plan = cut[c].plan
  BY <1>1, GoesOn
<1>3. /\ \A k \in Clone : local'[k] = local[k]
      /\ local' = [k \in Clone |-> local'[k]]
      /\ Unique(local'[Home(c)])
  BY <1>1, HomeAssumption DEF CutInv
<1>4. /\ Unique(remote') /\ remote \subseteq remote'
      /\ \E t \in remote' : t.n = cut[c].plan
      /\ Cuts!Alone(c) => \A t \in remote' : t.n = cut[c].plan => t.by = c
  BY <1>1, Pushed
<1> QED
  BY <1>2, <1>3, <1>4, CutMoves

LEMMA RejectedCut == ASSUME CutInv, NEW c \in Cut, Cuts!PushRejected(c) PROVE CutInv'
<1>1. cut[c].at = "push" /\ UNCHANGED remote /\ Cuts!Retry(c)
  BY DEF Cuts!PushRejected
<1> QED
  BY <1>1, RetryCut, CutMoves DEF CutInv

LEMMA LostCut == ASSUME CutInv, NEW c \in Cut, Cuts!PushLost(c) PROVE CutInv'
<1>1. cut[c].at = "push" /\ Cuts!Retry(c)
  BY DEF Cuts!PushLost
<1>2. Unique(remote') /\ remote \subseteq remote'
  <2>1. CASE /\ Cuts!CanPush(c)
             /\ remote' = remote \union Cuts!At(local[Home(c)], cut[c].plan)
    BY <1>1, <2>1, Pushed
  <2>2. CASE UNCHANGED remote
    BY <2>2 DEF CutInv
  <2> QED
    BY <2>1, <2>2 DEF Cuts!PushLost
<1> QED
  BY <1>1, <1>2, RetryCut, CutMoves

LEMMA KillCut == ASSUME CutInv, NEW c \in Cut, Cuts!Kill(c) PROVE CutInv'
<1>1. cut' = [cut EXCEPT ![c].at = "idle"] /\ UNCHANGED <<remote, local>>
  BY DEF Cuts!Kill, Cuts!Goes
<1> QED
  BY <1>1, GoesOn, CutStays

LEMMA CutStep == CutInv /\ Cuts!Next => CutInv'
  BY MainCut, ConfirmCut, FetchCut, PlanCut, CreateCut, PushCut, RejectedCut, LostCut, KillCut
  DEF Cuts!Next

LEMMA CutAnswers == CutInv => Cuts!NoNumberIsReused
  BY DEF CutInv, Unique, Cuts!NoNumberIsReused, Cuts!At

-----------------------------------------------------------------------------
(* Publishing a release. *)

Runs == workflow \union pending \union stopped

(* What a job past the build has: its version wherever it is ours.           *)
Stamped(r) ==
    /\ \A s \in Release!Ours : r.tree[s] = {r.v}
    /\ \A s \in Release!Theirs : r.tree[s] = {Release!Foreign}

Undrafted(v) == \E g \in github : g.v = v /\ ~g.draft

RunFields == {"event", "dry", "v", "at", "tree", "found", "out"}

Places == {"version", "build", "package", "platforms", "smoke", "mcp", "parent", "draft",
           "undraft", "scoop", "homebrew", "done"}

(* A run that waits, goes or has stopped: which jobs only a pushed tag gets  *)
(* to, and what is there for the others to read by then.                     *)
WorkflowInv(r) ==
    /\ DOMAIN r = RunFields
    /\ r.at \in Places
    /\ r.v \in Nat
    /\ r.event = "push" => r.v < tags
    /\ r.at \notin {"version", "build"} => Stamped(r)
    /\ r.at \notin {"version", "build", "package"} =>
          r.found = Platform /\ r.out = Release!Package
    /\ r.at \in {"platforms", "mcp", "parent", "draft", "undraft", "homebrew"} =>
          r.event = "push"
    /\ r.at \in {"mcp", "parent"} \/ (r.at = "smoke" /\ r.event = "push") =>
          \A p \in Platform : Release!On(p, r.v)
    /\ r.at \in {"draft", "undraft"} => Release!On("parent", r.v)
    /\ r.at = "undraft" => \E g \in github : g.v = r.v
    /\ r.at = "homebrew" \/ (r.at = "scoop" /\ r.event = "push") => Undrafted(r.v)

(* What is on npm, on GitHub and in the buckets.                             *)
ShopInv ==
    /\ tags \in Nat
    /\ readable \subseteq registry
    /\ \A p \in registry : p.v \in Nat /\ p.v < tags
    /\ \A p \in registry : p.name = "parent" => \A q \in Platform : Release!On(q, p.v)
    /\ \A g \in github : /\ DOMAIN g = {"v", "draft", "assets"}
                         /\ g.v \in Nat /\ g.v < tags /\ g.assets = Platform
                         /\ ~g.draft => Release!On("parent", g.v)
    /\ buckets = [scoop |-> buckets.scoop, homebrew |-> buckets.homebrew]
    /\ \A v \in buckets.scoop \union buckets.homebrew : Undrafted(v)

PublishInv == ShopInv /\ \A r \in Runs : WorkflowInv(r)

LEMMA PublishInit == Release!Init => PublishInv
  BY DEF Release!Init, PublishInv, ShopInv, Runs

LEMMA PublishStill == PublishInv /\ UNCHANGED release => PublishInv'
  BY DEF release, PublishInv, ShopInv, Runs, WorkflowInv, Undrafted, Release!On

(* Nothing is taken back.                                                    *)
Grows ==
    /\ tags \in Nat /\ tags' \in Nat /\ tags <= tags'
    /\ readable \subseteq readable'
    /\ \A g \in github : \E h \in github' : h.v = g.v /\ (~g.draft => ~h.draft)

LEMMA RunStays == ASSUME NEW r, WorkflowInv(r), Grows PROVE WorkflowInv(r)'
<1>1. r.v \in Nat /\ (r.event = "push" => r.v < tags')
  BY DEF WorkflowInv, Grows
<1>2. \A p : Release!On(p, r.v) => Release!On(p, r.v)'
  BY DEF Grows, Release!On
<1>3. Undrafted(r.v) => Undrafted(r.v)'
  BY DEF Grows, Undrafted
<1>4. (\E g \in github : g.v = r.v) => \E g \in github' : g.v = r.v
  BY DEF Grows
<1>5. Stamped(r)' = Stamped(r)
  BY DEF Stamped
<1> QED
  BY <1>1, <1>2, <1>3, <1>4, <1>5 DEF WorkflowInv

(* A step that grows the shops, and makes at most one run.                   *)
LEMMA RunsStay ==
    ASSUME PublishInv, Grows, ShopInv', NEW new,
           \A q \in Runs' : q \in Runs \/ q = new,
           new \in Runs' => WorkflowInv(new)'
    PROVE  PublishInv'
<1>1. ASSUME NEW q \in Runs' PROVE WorkflowInv(q)'
  <2>1. CASE q \in Runs
    BY <2>1, RunStays DEF PublishInv
  <2>2. CASE q = new
    BY <1>1, <2>2
  <2> QED
    BY <2>1, <2>2
<1> QED
  BY <1>1 DEF PublishInv

LEMMA ShopStays ==
    ASSUME ShopInv, UNCHANGED <<registry, readable, github, buckets>>,
           tags' \in Nat, tags <= tags'
    PROVE  ShopInv' /\ Grows
<1>1. Grows
  BY DEF ShopInv, Grows
<1>2. \A p \in registry' : p.v \in Nat /\ p.v < tags'
  BY DEF ShopInv
<1>3. \A g \in github' : /\ DOMAIN g = {"v", "draft", "assets"}
                         /\ g.v \in Nat /\ g.v < tags' /\ g.assets = Platform
                         /\ ~g.draft => Release!On("parent", g.v)'
  <2> SUFFICES ASSUME NEW g \in github
               PROVE  /\ DOMAIN g = {"v", "draft", "assets"}
                      /\ g.v \in Nat /\ g.v < tags' /\ g.assets = Platform
                      /\ ~g.draft => Release!On("parent", g.v)'
    OBVIOUS
  <2>1. /\ DOMAIN g = {"v", "draft", "assets"}
        /\ g.v \in Nat /\ g.v < tags /\ g.assets = Platform
        /\ ~g.draft => Release!On("parent", g.v)
    BY DEF ShopInv
  <2>2. g.v < tags'
    BY <2>1 DEF ShopInv
  <2>3. ~g.draft => Release!On("parent", g.v)'
    BY <2>1 DEF Release!On
  <2> QED
    BY <2>1, <2>2, <2>3
<1>4. \A p \in registry' : p.name = "parent" => \A q \in Platform : Release!On(q, p.v)'
  BY DEF ShopInv, Release!On
<1>5. \A v \in buckets'.scoop \union buckets'.homebrew : Undrafted(v)'
  BY DEF ShopInv, Undrafted
<1> QED
  BY <1>1, <1>2, <1>3, <1>4, <1>5 DEF ShopInv

(* The steps that start a run.                                               *)
LEMMA FreshRun ==
    ASSUME NEW event, NEW dry, NEW v \in Nat, event = "push" => v < tags'
    PROVE  WorkflowInv(Release!Fresh(event, dry, v))'
  BY DEF WorkflowInv, RunFields, Places, Release!Fresh

LEMMA EnqueueRuns ==
    ASSUME NEW r, Release!Enqueue(r), stopped' \subseteq stopped
    PROVE  \A q \in Runs' : q \in Runs \/ q = r
  BY DEF Release!Enqueue, Runs

LEMMA PushTagRun == PublishInv /\ Release!PushTag => PublishInv'
<1> SUFFICES ASSUME PublishInv, Release!PushTag PROVE PublishInv'
  OBVIOUS
<1>2. tags \in Nat /\ ShopInv
  BY DEF PublishInv, ShopInv
<1>5. PICK v \in Nat : v = tags
  BY <1>2
<1>1. /\ tags' = v + 1 /\ Release!Enqueue(Release!Fresh("push", FALSE, v))
      /\ UNCHANGED <<stopped, registry, readable, github, buckets>>
  BY <1>5 DEF Release!PushTag
<1>3. ShopInv' /\ Grows
  BY <1>1, <1>2, <1>5, ShopStays
<1>6. v < tags'
  BY <1>1
<1>4. WorkflowInv(Release!Fresh("push", FALSE, v))'
  BY <1>6, FreshRun
<1> QED
  BY <1>1, <1>3, <1>4, EnqueueRuns, RunsStay

LEMMA DispatchRun == PublishInv /\ Release!Dispatch => PublishInv'
<1> SUFFICES ASSUME PublishInv, Release!Dispatch PROVE PublishInv'
  OBVIOUS
<1>2. UNCHANGED <<tags, stopped, registry, readable, github, buckets>>
  BY DEF Release!Dispatch
<1>3. tags \in Nat /\ ShopInv
  BY DEF PublishInv, ShopInv
<1>6. PICK v \in Nat : v = tags
  BY <1>3
<1>1. PICK dry \in BOOLEAN : Release!Enqueue(Release!Fresh("dispatch", dry, v))
  BY <1>6 DEF Release!Dispatch
<1>4. ShopInv' /\ Grows
  BY <1>2, <1>3, ShopStays
<1>5. WorkflowInv(Release!Fresh("dispatch", dry, v))'
  BY FreshRun
<1> QED
  BY <1>1, <1>2, <1>4, <1>5, EnqueueRuns, RunsStay

LEMMA RerunRun == PublishInv /\ Release!Rerun => PublishInv'
<1> SUFFICES ASSUME PublishInv, Release!Rerun PROVE PublishInv'
  OBVIOUS
<1>1. PICK s \in stopped :
         /\ stopped' = stopped \ {s}
         /\ Release!Enqueue(s) \/ Release!Enqueue(Release!Fresh(s.event, s.dry, s.v))
  BY DEF Release!Rerun
<1>2. UNCHANGED <<tags, registry, readable, github, buckets>>
  BY DEF Release!Rerun
<1>3. tags \in Nat /\ ShopInv /\ WorkflowInv(s)
  BY DEF PublishInv, ShopInv, Runs
<1>4. ShopInv' /\ Grows
  BY <1>2, <1>3, ShopStays
<1>5. WorkflowInv(s)'
  BY <1>3, <1>4, RunStays
<1>6. WorkflowInv(Release!Fresh(s.event, s.dry, s.v))'
  BY <1>2, <1>3, FreshRun DEF WorkflowInv
<1>7. CASE Release!Enqueue(s)
  BY <1>1, <1>4, <1>5, <1>7, EnqueueRuns, RunsStay
<1>8. CASE Release!Enqueue(Release!Fresh(s.event, s.dry, s.v))
  BY <1>1, <1>4, <1>6, <1>8, EnqueueRuns, RunsStay
<1> QED
  BY <1>1, <1>7, <1>8

(* npm shows what was published.                                             *)
LEMMA AppearRun == PublishInv /\ Release!Appear => PublishInv'
<1> SUFFICES ASSUME PublishInv, Release!Appear PROVE PublishInv'
  OBVIOUS
<1>1. PICK p \in registry : readable' = readable \union {p}
  BY DEF Release!Appear
<1>2. UNCHANGED <<tags, workflow, pending, stopped, registry, github, buckets>>
  BY DEF Release!Appear
<1>3. ShopInv
  BY DEF PublishInv
<1>4. Grows
  BY <1>1, <1>2, <1>3 DEF Grows, ShopInv
<1>5. \A n, v : Release!On(n, v) => Release!On(n, v)'
  BY <1>1 DEF Release!On
<1>6. \A v : Undrafted(v)' <=> Undrafted(v)
  BY <1>2 DEF Undrafted
<1>7. ShopInv'
  BY <1>1, <1>2, <1>3, <1>5, <1>6 DEF ShopInv
<1>8. Runs' = Runs
  BY <1>2 DEF Runs
<1> QED
  BY <1>4, <1>7, <1>8, RunStays DEF PublishInv

(* A step of a run that writes nowhere others read.                          *)
LEMMA LocalRun ==
    ASSUME PublishInv, NEW r \in workflow, NEW new, workflow' = {new},
           UNCHANGED <<tags, pending, stopped>>,
           UNCHANGED <<registry, readable, github, buckets>>, WorkflowInv(r) => WorkflowInv(new)
    PROVE  PublishInv'
<1>1. ShopInv /\ tags \in Nat /\ WorkflowInv(r)
  BY DEF PublishInv, ShopInv, Runs
<1>2. ShopInv' /\ Grows
  BY <1>1, ShopStays
<1>3. WorkflowInv(new)'
  BY <1>1, <1>2, RunStays
<1>4. \A q \in Runs' : q \in Runs \/ q = new
  BY DEF Runs
<1> QED
  BY <1>2, <1>3, <1>4, RunsStay

(* A run that ends or fails.                                                 *)
LEMMA EndRun ==
    ASSUME PublishInv, NEW r \in workflow, NEW at, Release!Ends(r, at),
           WorkflowInv(r) => WorkflowInv([r EXCEPT !.at = at])
    PROVE  PublishInv'
<1> DEFINE new == [r EXCEPT !.at = at]
<1>1. ShopInv /\ tags \in Nat /\ WorkflowInv(r)
  BY DEF PublishInv, ShopInv, Runs
<1>2. ShopInv' /\ Grows
  BY <1>1, ShopStays DEF Release!Ends
<1>3. WorkflowInv(new)'
  BY <1>1, <1>2, RunStays
<1>4. \A q \in Runs' : q \in Runs \/ q = new
  BY DEF Runs, Release!Ends
<1> HIDE DEF new
<1> QED
  BY <1>2, <1>3, <1>4, RunsStay

LEMMA FailRun == ASSUME PublishInv, NEW r \in workflow, Release!Fail(r) PROVE PublishInv'
<1>1. WorkflowInv(r) => WorkflowInv([r EXCEPT !.at = Release!JobOf(r)])
  <2> SUFFICES ASSUME WorkflowInv(r) PROVE WorkflowInv([r EXCEPT !.at = Release!JobOf(r)])
    OBVIOUS
  <2> DEFINE new == [r EXCEPT !.at = Release!JobOf(r)]
  <2>1. /\ DOMAIN new = RunFields
        /\ new.event = r.event /\ new.dry = r.dry /\ new.v = r.v /\ new.tree = r.tree
        /\ new.found = r.found /\ new.out = r.out /\ new.at = Release!JobOf(r)
    BY DEF WorkflowInv, RunFields, Places
  <2>2. Stamped(new) <=> Stamped(r)
    BY <2>1 DEF Stamped
  <2>3. r.at # "done"
    BY DEF Release!Fail
  <2> HIDE DEF new
  <2>4. WorkflowInv(new)
    <3>1. CASE r.at \in {"version", "build", "package"}
      <4>1. new.at = r.at
        BY <2>1, <3>1 DEF Release!JobOf
      <4> QED
        BY <2>1, <2>2, <3>1, <4>1 DEF WorkflowInv, Places
    <3>2. CASE r.at \in {"platforms", "smoke", "mcp", "parent"}
      <4>1. new.at = (IF r.event = "push" THEN "platforms" ELSE "smoke")
        BY <2>1, <3>2 DEF Release!JobOf, Release!Released
      <4> QED
        BY <2>1, <2>2, <3>2, <4>1 DEF WorkflowInv, Places
    <3>3. CASE r.at \in {"draft", "undraft"}
      <4>1. new.at = "draft"
        BY <2>1, <3>3 DEF Release!JobOf
      <4> QED
        BY <2>1, <2>2, <3>3, <4>1 DEF WorkflowInv, Places
    <3>4. CASE r.at \in {"scoop", "homebrew"}
      <4>1. new.at = "scoop"
        BY <2>1, <3>4 DEF Release!JobOf
      <4> QED
        BY <2>1, <2>2, <3>4, <4>1 DEF WorkflowInv, Places
    <3> QED
      BY <2>3, <3>1, <3>2, <3>3, <3>4 DEF WorkflowInv, Places
  <2> QED
    BY <2>4 DEF new
<1> QED
  BY <1>1, EndRun DEF Release!Fail

LEMMA DoneRun == ASSUME PublishInv, NEW r \in workflow, Release!Done(r) PROVE PublishInv'
<1>1. WorkflowInv(r) => WorkflowInv([r EXCEPT !.at = "done"])
  BY DEF Release!Done, WorkflowInv, RunFields, Places, Stamped
<1> QED
  BY <1>1, EndRun DEF Release!Done

LEMMA ResolveRun == ASSUME PublishInv, NEW r \in workflow, Release!Resolve(r) PROVE PublishInv'
<1>1. WorkflowInv(r) => WorkflowInv([r EXCEPT !.at = "build"])
  BY DEF Release!Resolve, WorkflowInv, RunFields, Places, Stamped
<1>2. workflow' = {[r EXCEPT !.at = "build"]}
  BY DEF Release!Resolve, Release!Goes
<1> QED
  BY <1>1, <1>2, LocalRun DEF Release!Resolve, Release!Local, Release!Still

(* version.mjs set writes the version wherever it is ours, and nowhere else. *)
LEMMA CmdSetStamps ==
    ASSUME NEW tree \in Release!Trees, NEW v
    PROVE  /\ \A s \in Release!Ours : Release!CmdSet(tree, v)[s] = {v}
           /\ \A s \in Release!Theirs : Release!CmdSet(tree, v)[s] = {Release!Foreign}
<1>1. PICK bare \in SUBSET {"path", "npm"} :
         tree = [s \in Release!Ours \union Release!Theirs |->
                    IF s \in Release!Theirs THEN {Release!Foreign}
                    ELSE IF s \in bare THEN {} ELSE {Release!Old}]
  BY DEF Release!Trees
<1>2. /\ DOMAIN tree = Release!Ours \union Release!Theirs
      /\ \A s \in Release!Theirs : tree[s] = {Release!Foreign}
  BY <1>1
<1> DEFINE t1 == Release!SetCargoVersion(tree, v)
           t2 == Release!SetCargoLockVersion(t1, v)
<1>3. /\ DOMAIN t1 = DOMAIN tree /\ t1["workspace"] = {v} /\ t1["path"] = {v}
      /\ \A s \in Release!Theirs : t1[s] = tree[s]
  BY <1>2 DEF Release!SetCargoVersion, Release!Ours, Release!Theirs
<1> HIDE DEF t1
<1>4. /\ DOMAIN t2 = DOMAIN tree /\ t2["workspace"] = {v} /\ t2["path"] = {v}
      /\ t2["member"] = {v} /\ \A s \in Release!Theirs : t2[s] = tree[s]
  BY <1>2, <1>3 DEF Release!SetCargoLockVersion, Release!Ours, Release!Theirs
<1> HIDE DEF t2
<1>5. LET t3 == Release!SetPackageJsonVersion(t2, v)
      IN  /\ t3["workspace"] = {v} /\ t3["path"] = {v} /\ t3["member"] = {v}
          /\ t3["npm"] = {v} /\ t3["pin"] = {v}
          /\ \A s \in Release!Theirs : t3[s] = tree[s]
  BY <1>2, <1>4 DEF Release!SetPackageJsonVersion, Release!Ours, Release!Theirs
<1> QED
  BY <1>2, <1>5 DEF Release!CmdSet, Release!Ours, t1, t2

LEMMA BuildRun == ASSUME PublishInv, NEW r \in workflow, Release!Build(r) PROVE PublishInv'
<1>1. PICK tree \in Release!Trees :
         workflow' = {[r EXCEPT !.at = "package", !.tree = Release!CmdSet(tree, r.v)]}
  BY DEF Release!Build
<1> DEFINE stamped == Release!CmdSet(tree, r.v)
           new == [r EXCEPT !.at = "package", !.tree = stamped]
<1>2. /\ \A s \in Release!Ours : stamped[s] = {r.v}
      /\ \A s \in Release!Theirs : stamped[s] = {Release!Foreign}
  BY CmdSetStamps
<1> HIDE DEF stamped
<1>3. WorkflowInv(r) => WorkflowInv(new)
  <2> SUFFICES ASSUME WorkflowInv(r) PROVE WorkflowInv(new)
    OBVIOUS
  <2>1. /\ DOMAIN new = RunFields
        /\ new.event = r.event /\ new.v = r.v /\ new.tree = stamped /\ new.at = "package"
    BY DEF WorkflowInv, RunFields, Places
  <2>2. Stamped(new)
    BY <1>2, <2>1 DEF Stamped
  <2> HIDE DEF new
  <2> QED
    BY <2>1, <2>2 DEF WorkflowInv, Places
<1>4. workflow' = {new}
  BY <1>1 DEF stamped
<1>5. UNCHANGED <<tags, pending, stopped>> /\ UNCHANGED <<registry, readable, github, buckets>>
  BY DEF Release!Build, Release!Local, Release!Still
<1> HIDE DEF new
<1> QED
  BY <1>3, <1>4, <1>5, LocalRun

(* The download is of every platform, or nothing is rendered.                *)
LEMMA PackRun == ASSUME PublishInv, NEW r \in workflow, Release!Pack(r) PROVE PublishInv'
<1>1. PICK found \in SUBSET Platform :
         /\ Release!RenderPackages(found) # {}
         /\ workflow' = {[r EXCEPT !.at = IF Release!Released(r) THEN "platforms" ELSE "smoke",
                                   !.found = found, !.out = Release!RenderPackages(found)]}
  BY DEF Release!Pack
<1>2. found = Platform /\ Release!RenderPackages(found) = Release!Package
  BY <1>1 DEF Release!RenderPackages
<1> DEFINE new == [r EXCEPT !.at = IF Release!Released(r) THEN "platforms" ELSE "smoke",
                            !.found = Platform, !.out = Release!Package]
<1>3. WorkflowInv(r) => WorkflowInv(new)
  <2> SUFFICES ASSUME WorkflowInv(r) PROVE WorkflowInv(new)
    OBVIOUS
  <2>1. /\ DOMAIN new = RunFields
        /\ new.event = r.event /\ new.v = r.v /\ new.tree = r.tree
        /\ new.found = Platform /\ new.out = Release!Package
        /\ new.at = IF Release!Released(r) THEN "platforms" ELSE "smoke"
    BY DEF WorkflowInv, RunFields, Places
  <2>2. Stamped(new) /\ r.at = "package"
    BY <2>1 DEF WorkflowInv, Stamped, Release!Pack
  <2> HIDE DEF new
  <2> QED
    BY <2>1, <2>2 DEF WorkflowInv, Places, Release!Released
<1>4. workflow' = {new}
  BY <1>1, <1>2
<1>5. UNCHANGED <<tags, pending, stopped>> /\ UNCHANGED <<registry, readable, github, buckets>>
  BY DEF Release!Pack, Release!Local, Release!Still
<1> HIDE DEF new
<1> QED
  BY <1>3, <1>4, <1>5, LocalRun

LEMMA WaitRun == ASSUME PublishInv, NEW r \in workflow, Release!Wait(r) PROVE PublishInv'
<1>1. WorkflowInv(r) => WorkflowInv([r EXCEPT !.at = "smoke"])
  BY DEF Release!Wait, Release!Shown, Release!On, WorkflowInv, RunFields, Places, Stamped
<1>2. workflow' = {[r EXCEPT !.at = "smoke"]}
  BY DEF Release!Wait, Release!Goes
<1> QED
  BY <1>1, <1>2, LocalRun DEF Release!Wait, Release!Local, Release!Still

LEMMA SmokeRun == ASSUME PublishInv, NEW r \in workflow, Release!Smoke(r) PROVE PublishInv'
<1> DEFINE at == IF Release!Released(r) THEN "mcp" ELSE "scoop"
<1>1. WorkflowInv(r) => WorkflowInv([r EXCEPT !.at = at])
  BY DEF Release!Smoke, Release!Released, WorkflowInv, RunFields, Places, Stamped
<1>2. workflow' = {[r EXCEPT !.at = at]}
  BY DEF Release!Smoke, Release!Goes
<1> HIDE DEF at
<1> QED
  BY <1>1, <1>2, LocalRun DEF Release!Smoke, Release!Local, Release!Still

(* A version that goes on npm: what is said of the registry holds of it.     *)
LEMMA PublishOneShop ==
    ASSUME PublishInv, NEW r \in workflow, NEW name, Release!PublishOne(r, name),
           r.event = "push", UNCHANGED tags,
           name = "parent" => \A q \in Platform : Release!On(q, r.v)
    PROVE  ShopInv' /\ Grows
<1>1. /\ registry' = registry \union {[name |-> name, v |-> r.v]}
      /\ UNCHANGED <<readable, github, buckets>>
  BY DEF Release!PublishOne
<1>2. ShopInv /\ r.v \in Nat /\ r.v < tags
  BY DEF PublishInv, Runs, WorkflowInv
<1>3. Grows
  BY <1>1, <1>2 DEF Grows, ShopInv
<1>4. \A n, v : Release!On(n, v)' <=> Release!On(n, v)
  BY <1>1 DEF Release!On
<1>5. \A v : Undrafted(v)' <=> Undrafted(v)
  BY <1>1 DEF Undrafted
<1>6. \A p \in registry' : p \in registry \/ (p.name = name /\ p.v = r.v)
  BY <1>1
<1>7. \A p \in registry' : p.v \in Nat /\ p.v < tags'
  BY <1>2, <1>6 DEF ShopInv
<1>8. \A p \in registry' : p.name = "parent" => \A q \in Platform : Release!On(q, p.v)'
  BY <1>2, <1>4, <1>6 DEF ShopInv
<1>9. readable' \subseteq registry'
  BY <1>1, <1>2 DEF ShopInv
<1> QED
  BY <1>1, <1>2, <1>3, <1>4, <1>5, <1>7, <1>8, <1>9 DEF ShopInv

LEMMA PlatformRun ==
    ASSUME PublishInv, NEW r \in workflow, Release!PublishPlatform(r) PROVE PublishInv'
<1>1. PICK p \in Platform : Release!PublishOne(r, p)
  BY DEF Release!PublishPlatform
<1>2. r.event = "push"
  BY DEF Release!PublishPlatform, PublishInv, Runs, WorkflowInv
<1>3. p # "parent"
  BY PlatformAssumption
<1>4. UNCHANGED tags /\ Runs' = Runs
  BY DEF Release!PublishPlatform, Release!Still, Runs
<1>5. ShopInv' /\ Grows
  BY <1>1, <1>2, <1>3, <1>4, PublishOneShop
<1> QED
  BY <1>4, <1>5, RunStays DEF PublishInv

LEMMA McpRun == ASSUME PublishInv, NEW r \in workflow, Release!PublishMcp(r) PROVE PublishInv'
<1> DEFINE new == [r EXCEPT !.at = "parent"]
<1>1. /\ workflow' = {new} /\ UNCHANGED <<tags, pending, stopped>> /\ r.at = "mcp"
  BY DEF Release!PublishMcp, Release!Goes, Release!Still
<1>2. WorkflowInv(r)
  BY DEF PublishInv, Runs
<1>3. WorkflowInv(new)
  BY <1>1, <1>2 DEF WorkflowInv, RunFields, Places, Stamped
<1> HIDE DEF new
<1>4. CASE Release!PublishOne(r, "mcp")
  <2>1. r.event = "push"
    BY <1>1, <1>2 DEF WorkflowInv
  <2>2. ShopInv' /\ Grows
    BY <1>1, <1>4, <2>1, PublishOneShop
  <2>3. \A q \in Runs' : q \in Runs \/ q = new
    BY <1>1 DEF Runs
  <2> QED
    BY <1>3, <2>2, <2>3, RunStays, RunsStay
<1>5. CASE UNCHANGED <<registry, readable, github, buckets>>
  BY <1>1, <1>3, <1>5, LocalRun
<1> QED
  BY <1>4, <1>5 DEF Release!PublishMcp

LEMMA ParentRun ==
    ASSUME PublishInv, NEW r \in workflow, Release!PublishParent(r) PROVE PublishInv'
<1>1. WorkflowInv(r) /\ r.at = "parent" /\ UNCHANGED <<tags, pending, stopped>>
  BY DEF PublishInv, Runs, Release!PublishParent, Release!Still
<1>2. r.event = "push" /\ \A q \in Platform : Release!On(q, r.v)
  BY <1>1 DEF WorkflowInv
<1>3. CASE Release!PublishOne(r, "parent") /\ UNCHANGED workflow
  <2>1. ShopInv' /\ Grows
    BY <1>1, <1>2, <1>3, PublishOneShop
  <2>2. Runs' = Runs
    BY <1>1, <1>3 DEF Runs
  <2> QED
    BY <2>1, <2>2, RunStays DEF PublishInv
<1>4. CASE /\ Release!Shown(r, {"mcp", "parent"}) /\ Release!Goes(r, "draft")
           /\ UNCHANGED <<registry, readable, github, buckets>>
  <2> DEFINE new == [r EXCEPT !.at = "draft"]
  <2>1. Release!On("parent", r.v)
    BY <1>4 DEF Release!Shown, Release!On
  <2>2. WorkflowInv(new)
    BY <1>1, <1>2, <2>1 DEF WorkflowInv, RunFields, Places, Stamped
  <2>3. workflow' = {new}
    BY <1>4 DEF Release!Goes
  <2> HIDE DEF new
  <2> QED
    BY <1>1, <1>4, <2>2, <2>3, LocalRun
<1> QED
  BY <1>3, <1>4 DEF Release!PublishParent

(* A draft is made once, and with what the run has: every archive.           *)
LEMMA DraftRun == ASSUME PublishInv, NEW r \in workflow, Release!Draft(r) PROVE PublishInv'
<1> DEFINE new == [r EXCEPT !.at = "undraft"]
<1>1. /\ ShopInv /\ WorkflowInv(r) /\ r.at = "draft"
      /\ workflow' = {new} /\ UNCHANGED <<tags, pending, stopped>>
      /\ UNCHANGED <<registry, readable, buckets>>
  BY DEF PublishInv, Runs, Release!Draft, Release!Still, Release!Goes
<1>2. /\ r.v \in Nat /\ r.v < tags /\ r.found = Platform /\ Release!On("parent", r.v)
  BY <1>1 DEF WorkflowInv
<1>3. github \subseteq github' /\ \E g \in github' : g.v = r.v
  <2>1. CASE (\E g \in github : g.v = r.v) /\ UNCHANGED github
    BY <2>1
  <2>2. CASE github' = github \union {[v |-> r.v, draft |-> TRUE, assets |-> r.found]}
    <3>1. [v |-> r.v, draft |-> TRUE, assets |-> r.found].v = r.v
      OBVIOUS
    <3> QED
      BY <2>2, <3>1
  <2> QED
    BY <2>1, <2>2 DEF Release!Draft
<1>4. \A g \in github' :
         g \in github \/ g = [v |-> r.v, draft |-> TRUE, assets |-> Platform]
  BY <1>2 DEF Release!Draft
<1>5. Grows
  BY <1>1, <1>3 DEF Grows, ShopInv
<1>6. \A n, v : Release!On(n, v)' <=> Release!On(n, v)
  BY <1>1 DEF Release!On
<1>7. \A v : Undrafted(v) => Undrafted(v)'
  BY <1>3 DEF Undrafted
<1>8. ASSUME NEW g \in github'
      PROVE  /\ DOMAIN g = {"v", "draft", "assets"}
             /\ g.v \in Nat /\ g.v < tags' /\ g.assets = Platform
             /\ ~g.draft => Release!On("parent", g.v)'
  <2>1. CASE g \in github
    BY <1>1, <1>6, <2>1 DEF ShopInv
  <2>2. CASE g = [v |-> r.v, draft |-> TRUE, assets |-> Platform]
    BY <1>1, <1>2, <2>2
  <2> QED
    BY <1>4, <2>1, <2>2
<1>9. ShopInv'
  BY <1>1, <1>6, <1>7, <1>8 DEF ShopInv
<1>10. WorkflowInv(new)'
  <2>1. WorkflowInv(r)'
    BY <1>1, <1>5, RunStays
  <2>2. Release!On("parent", r.v)'
    BY <1>2, <1>6
  <2> QED
    BY <1>1, <1>3, <2>1, <2>2 DEF WorkflowInv, RunFields, Places, Stamped
<1> HIDE DEF new
<1>11. \A q \in Runs' : q \in Runs \/ q = new
  BY <1>1 DEF Runs
<1> QED
  BY <1>5, <1>9, <1>10, <1>11, RunsStay

(* A draft is shown only with its launcher on npm.                           *)
LEMMA UndraftRun == ASSUME PublishInv, NEW r \in workflow, Release!Undraft(r) PROVE PublishInv'
<1> DEFINE new == [r EXCEPT !.at = "scoop"]
           Shows(g) == IF g.v = r.v THEN [g EXCEPT !.draft = FALSE] ELSE g
<1>1. /\ ShopInv /\ WorkflowInv(r) /\ r.at = "undraft"
      /\ workflow' = {new} /\ UNCHANGED <<tags, pending, stopped>>
      /\ UNCHANGED <<registry, readable, buckets>>
      /\ github' = {Shows(g) : g \in github}
  BY DEF PublishInv, Runs, Release!Undraft, Release!Still, Release!Goes
<1>2. /\ r.v \in Nat /\ r.v < tags /\ Release!On("parent", r.v)
      /\ \E g \in github : g.v = r.v
  BY <1>1 DEF WorkflowInv
<1>3. ASSUME NEW g \in github
      PROVE  /\ DOMAIN Shows(g) = {"v", "draft", "assets"}
             /\ Shows(g).v = g.v /\ Shows(g).assets = Platform
             /\ g.v = r.v => ~Shows(g).draft
             /\ g.v # r.v => Shows(g) = g
             /\ ~g.draft => ~Shows(g).draft
  <2>1. DOMAIN g = {"v", "draft", "assets"} /\ g.assets = Platform
    BY <1>1 DEF ShopInv
  <2>2. CASE g.v = r.v
    <3>1. /\ DOMAIN [g EXCEPT !.draft = FALSE] = DOMAIN g
          /\ [g EXCEPT !.draft = FALSE].v = g.v
          /\ [g EXCEPT !.draft = FALSE].assets = g.assets
          /\ ~[g EXCEPT !.draft = FALSE].draft
      BY <2>1
    <3> QED
      BY <2>1, <2>2, <3>1
  <2>3. CASE g.v # r.v
    BY <2>1, <2>3
  <2> QED
    BY <2>2, <2>3
<1>4. Grows
  <2>1. \A g \in github : Shows(g) \in github' /\ Shows(g).v = g.v /\ (~g.draft => ~Shows(g).draft)
    BY <1>1, <1>3
  <2> HIDE DEF Shows
  <2> QED
    BY <1>1, <2>1 DEF Grows, ShopInv
<1>5. Undrafted(r.v)'
  <2>1. PICK g \in github : g.v = r.v
    BY <1>2
  <2>2. Shows(g) \in github' /\ Shows(g).v = r.v /\ ~Shows(g).draft
    BY <1>1, <1>3, <2>1
  <2> HIDE DEF Shows
  <2> QED
    BY <2>2 DEF Undrafted
<1>6. \A n, v : Release!On(n, v)' <=> Release!On(n, v)
  BY <1>1 DEF Release!On
<1>7. \A v : Undrafted(v) => Undrafted(v)'
  BY <1>4 DEF Undrafted, Grows
<1>8. ASSUME NEW h \in github'
      PROVE  /\ DOMAIN h = {"v", "draft", "assets"}
             /\ h.v \in Nat /\ h.v < tags' /\ h.assets = Platform
             /\ ~h.draft => Release!On("parent", h.v)'
  <2>1. PICK g \in github : h = Shows(g)
    BY <1>1
  <2>2. /\ g.v \in Nat /\ g.v < tags
        /\ ~g.draft => Release!On("parent", g.v)
    BY <1>1 DEF ShopInv
  <2>3. CASE g.v = r.v
    BY <1>1, <1>2, <1>3, <1>6, <2>1, <2>3
  <2>4. CASE g.v # r.v
    <3>1. h = g
      BY <1>3, <2>1, <2>4
    <3> QED
      BY <1>1, <1>6, <3>1 DEF ShopInv
  <2> QED
    BY <2>3, <2>4
<1>9. ShopInv'
  BY <1>1, <1>6, <1>7, <1>8 DEF ShopInv
<1>10. WorkflowInv(new)'
  <2>1. WorkflowInv(r)'
    BY <1>1, <1>4, RunStays
  <2> QED
    BY <1>1, <1>5, <2>1 DEF WorkflowInv, RunFields, Places, Stamped
<1> HIDE DEF new, Shows
<1>11. \A q \in Runs' : q \in Runs \/ q = new
  BY <1>1 DEF Runs
<1> QED
  BY <1>4, <1>9, <1>10, <1>11, RunsStay

(* The buckets name only what is shown.                                      *)
LEMMA BucketRun ==
    ASSUME PublishInv, NEW r \in workflow, NEW at, workflow' = {[r EXCEPT !.at = at]},
           UNCHANGED <<tags, pending, stopped>>, UNCHANGED <<registry, readable, github>>,
           buckets' = [scoop |-> buckets'.scoop, homebrew |-> buckets'.homebrew],
           \A v \in buckets'.scoop \union buckets'.homebrew :
              v \in buckets.scoop \union buckets.homebrew \/ Undrafted(v),
           WorkflowInv([r EXCEPT !.at = at])
    PROVE  PublishInv'
<1> DEFINE new == [r EXCEPT !.at = at]
<1>1. ShopInv /\ WorkflowInv(new)
  BY DEF PublishInv
<1> HIDE DEF new
<1>2. Grows
  BY <1>1 DEF Grows, ShopInv
<1>3. (\A n, v : Release!On(n, v)' <=> Release!On(n, v)) /\ \A v : Undrafted(v)' <=> Undrafted(v)
  BY DEF Release!On, Undrafted
<1>4. ShopInv'
  BY <1>1, <1>3 DEF ShopInv
<1>5. WorkflowInv(new)'
  BY <1>1, <1>2, RunStays
<1>6. \A q \in Runs' : q \in Runs \/ q = new
  BY DEF Runs, new
<1> QED
  BY <1>2, <1>4, <1>5, <1>6, RunsStay

LEMMA ScoopRun == ASSUME PublishInv, NEW r \in workflow, Release!Scoop(r) PROVE PublishInv'
<1>1. /\ WorkflowInv(r) /\ r.at = "scoop" /\ UNCHANGED <<tags, pending, stopped>>
      /\ UNCHANGED <<registry, readable, github>>
      /\ buckets = [scoop |-> buckets.scoop, homebrew |-> buckets.homebrew]
  BY DEF PublishInv, ShopInv, Runs, Release!Scoop, Release!Still
<1>2. CASE r.event = "push"
  <2>1. workflow' = {[r EXCEPT !.at = "homebrew"]} /\ buckets' = [buckets EXCEPT !.scoop = {r.v}]
    BY <1>2 DEF Release!Scoop, Release!Released, Release!Goes
  <2>2. Undrafted(r.v)
    BY <1>1, <1>2 DEF WorkflowInv
  <2>3. WorkflowInv([r EXCEPT !.at = "homebrew"])
    BY <1>1, <1>2, <2>2 DEF WorkflowInv, RunFields, Places, Stamped
  <2>4. /\ buckets' = [scoop |-> buckets'.scoop, homebrew |-> buckets'.homebrew]
        /\ buckets'.scoop = {r.v} /\ buckets'.homebrew = buckets.homebrew
    BY <1>1, <2>1
  <2>5. \A v \in buckets'.scoop \union buckets'.homebrew :
           v \in buckets.scoop \union buckets.homebrew \/ Undrafted(v)
    BY <2>2, <2>4
  <2> QED
    BY <1>1, <2>1, <2>3, <2>4, <2>5, BucketRun
<1>3. CASE r.event # "push"
  <2>1. workflow' = {[r EXCEPT !.at = "done"]} /\ UNCHANGED buckets
    BY <1>3 DEF Release!Scoop, Release!Released, Release!Goes
  <2>2. WorkflowInv([r EXCEPT !.at = "done"])
    BY <1>1 DEF WorkflowInv, RunFields, Places, Stamped
  <2> QED
    BY <1>1, <2>1, <2>2, LocalRun
<1> QED
  BY <1>2, <1>3

LEMMA HomebrewRun ==
    ASSUME PublishInv, NEW r \in workflow, Release!Homebrew(r) PROVE PublishInv'
<1>1. /\ WorkflowInv(r) /\ r.at = "homebrew" /\ UNCHANGED <<tags, pending, stopped>>
      /\ UNCHANGED <<registry, readable, github>>
      /\ workflow' = {[r EXCEPT !.at = "done"]}
      /\ buckets' = [buckets EXCEPT !.homebrew = {r.v}]
      /\ buckets = [scoop |-> buckets.scoop, homebrew |-> buckets.homebrew]
  BY DEF PublishInv, ShopInv, Runs, Release!Homebrew, Release!Still, Release!Goes
<1>2. Undrafted(r.v)
  BY <1>1 DEF WorkflowInv
<1>3. WorkflowInv([r EXCEPT !.at = "done"])
  BY <1>1 DEF WorkflowInv, RunFields, Places, Stamped
<1>4. /\ buckets' = [scoop |-> buckets'.scoop, homebrew |-> buckets'.homebrew]
      /\ buckets'.scoop = buckets.scoop /\ buckets'.homebrew = {r.v}
  BY <1>1
<1>5. \A v \in buckets'.scoop \union buckets'.homebrew :
         v \in buckets.scoop \union buckets.homebrew \/ Undrafted(v)
  BY <1>2, <1>4
<1> QED
  BY <1>1, <1>3, <1>4, <1>5, BucketRun

LEMMA PublishStep == PublishInv /\ Release!Next => PublishInv'
<1> SUFFICES ASSUME PublishInv, Release!Next PROVE PublishInv'
  OBVIOUS
<1>1. CASE Release!PushTag \/ Release!Dispatch \/ Release!Appear \/ Release!Rerun
  BY <1>1, PushTagRun, DispatchRun, AppearRun, RerunRun
<1>2. CASE \E r \in workflow :
              \/ Release!Resolve(r) \/ Release!Build(r) \/ Release!Pack(r)
              \/ Release!PublishPlatform(r) \/ Release!Wait(r) \/ Release!Smoke(r)
              \/ Release!PublishMcp(r) \/ Release!PublishParent(r)
              \/ Release!Draft(r) \/ Release!Undraft(r)
              \/ Release!Scoop(r) \/ Release!Homebrew(r) \/ Release!Done(r) \/ Release!Fail(r)
  BY <1>2, ResolveRun, BuildRun, PackRun, PlatformRun, WaitRun, SmokeRun, McpRun, ParentRun,
     DraftRun, UndraftRun, ScoopRun, HomebrewRun, DoneRun, FailRun
<1> QED
  BY <1>1, <1>2 DEF Release!Next

LEMMA StampedTree ==
    ASSUME NEW r, Stamped(r)
    PROVE  Release!Observed(r.tree) = {r.v} /\ Release!CmdCheck(r.tree)
<1>1. Release!Observed(r.tree) = {r.v}
  BY DEF Stamped, Release!Observed, Release!Ours
<1>2. Release!Cardinality({r.v}) = Cardinality({r.v})
  BY Zenon DEF Release!Cardinality, Cardinality
<1>3. Cardinality({r.v}) = 1
  BY FS_Singleton
<1> QED
  BY <1>1, <1>2, <1>3 DEF Release!CmdCheck

LEMMA PublishAnswers == PublishInv => Release!LiveIsComplete /\ Release!OnlyTagsRelease
<1> SUFFICES ASSUME PublishInv PROVE Release!LiveIsComplete /\ Release!OnlyTagsRelease
  OBVIOUS
<1>1. Release!LiveIsComplete
  BY DEF PublishInv, ShopInv, Undrafted, Release!LiveIsComplete
<1>2. \A r \in workflow : r.at \notin {"version", "build"} => Stamped(r)
  BY DEF PublishInv, Runs, WorkflowInv
<1>3. \A r \in workflow : r.at \notin {"version", "build"} =>
         /\ Release!CmdCheck(r.tree) /\ Release!Observed(r.tree) = {r.v}
         /\ \A s \in Release!Theirs : r.tree[s] = {Release!Foreign}
  BY <1>2, StampedTree DEF Stamped
<1> QED
  BY <1>1, <1>3 DEF PublishInv, ShopInv, Release!OnlyTagsRelease

-----------------------------------------------------------------------------
(* The MCP server. *)

CallFields == {"tool", "at", "opened", "wire", "asked", "landed", "held", "said", "quotes"}
GaveUp == {"may or may not have been applied", "could not be reached"}
Mismatch == "mismatch: nothing was written"

(* A word that reports a write done, said of a call that did one.            *)
DoneIsSo(word, k, c) ==
    word \in {"created", "updated", "removed", "unchanged"} =>
        /\ k.landed # "none"
        /\ word = "created" => k.held = "none"
        /\ word = "updated" => k.held \notin {"none", c}

(* Only the answer to a set quotes what was sent, and a failure quotes       *)
(* nothing else.                                                             *)
WireQuotes(w, asked) ==
    /\ w.quotes \in Tool!Envelope => asked = "set"
    /\ w.status # "2xx" \/ w.body = "html" => w.quotes \in Tool!Envelope \cup {"no"}
    /\ w.body = "html" => w.quotes \in {"no", "request id"}

(* What a tool's own words quote: what it reveals, or an echo that its       *)
(* scrubbing leaves.                                                         *)
ToolQuotes(quotes, t) ==
    /\ quotes \in {"no", "value", "code", "request id"}
    /\ quotes = "value" => t = "get"
    /\ quotes \in Tool!Envelope => t = "set"

(* A call: what is on the wire is true of it, what it has said remains so,   *)
(* and only one that gave up has a request still on its way.                 *)
ToolCallInv(k, c) ==
    /\ DOMAIN k = CallFields
    /\ k.opened # "outside"
    /\ k.tool = "get" => options.revealFlag \/ options.reveal = "true"
    /\ k.wire = Tool!Out \/ k.asked = "whoami" => k.landed = "none"
    /\ k.at # "over" => k.said = "nothing" /\ k.quotes = "no"
    /\ k.at = "over" /\ k.wire = Tool!Out => k.said \in GaveUp
    /\ k.wire.body = "refusal" => k.landed = "none"
    /\ WireQuotes(k.wire, k.asked)
    /\ k.asked \in {"whoami", k.tool}
    /\ k.asked # "whoami" => /\ DoneIsSo(k.wire.body, k, c)
                             /\ k.wire.body \notin {"refused", Mismatch}
    /\ DoneIsSo(k.said, k, c)
    /\ k.said \in {"refused", Mismatch} => k.landed = "none"
    /\ ToolQuotes(k.quotes, k.tool)
    /\ options.pin # "unset" /\ k.tool \in Tool!Write =>
          /\ k.asked # "whoami" => trail # "unmatched"
          /\ k.landed # "none" =>
                IF k.landed = Pinned THEN trail # "unmatched" ELSE trail = "moved"
    /\ k.asked = "whoami" /\ k.wire.body = Pinned => trail # "unmatched"

(* The name is where it was seen to match until it moves.                    *)
NameInv ==
    /\ config = [state |-> "unread"] \/ config = Tool!LoadConfig(options)
    /\ behind \in Deployment
    /\ trail \in {"unmatched", "matched", "moved"}
    /\ trail = "matched" => behind = Pinned
    /\ verified => trail # "unmatched"

ToolInv ==
    /\ NameInv
    /\ used = [c \in Call |-> used[c]]
    /\ \A c \in Call : ToolCallInv(used[c], c)

LEMMA Wires ==
    /\ Tool!Out.status = "out" /\ Tool!Out.body = "none" /\ Tool!Out.quotes = "no"
    /\ Tool!NoAnswer.status = "none" /\ Tool!NoAnswer.body = "none"
    /\ Tool!NoAnswer.quotes = "no" /\ Tool!NoAnswer # Tool!Out
  BY DEF Tool!Out, Tool!NoAnswer, Tool!Answer

(* A wire that quotes nothing.                                               *)
LEMMA QuietWire == ASSUME NEW w, NEW asked, w.quotes = "no" PROVE WireQuotes(w, asked)
  BY DEF WireQuotes, Tool!Envelope

LEMMA QuietTool == ASSUME NEW t PROVE ToolQuotes("no", t)
  BY DEF ToolQuotes, Tool!Envelope

LEMMA IdIsNoWord ==
    ASSUME NEW d \in Deployment
    PROVE  d \notin {"none", "html", "other json", "envelope", "no instance"}
  BY DeploymentAssumption

(* A record of a call whose wire is empty and that has said nothing.         *)
LEMMA IdleCall ==
    ASSUME NEW c
    PROVE  /\ DOMAIN Tool!Idle = CallFields /\ ToolCallInv(Tool!Idle, c)
           /\ Tool!Idle.wire = Tool!NoAnswer /\ Tool!Idle.at = "idle"
           /\ Tool!Idle.landed = "none" /\ Tool!Idle.said = "nothing"
           /\ Tool!Idle.quotes = "no" /\ Tool!Idle.opened = "none"
  BY DeploymentAssumption
  DEF Tool!Idle, Tool!NoAnswer, Tool!Out, Tool!Answer, CallFields, ToolCallInv, DoneIsSo, Tool!Write,
      GaveUp, Mismatch, WireQuotes, ToolQuotes, Tool!Envelope

LEMMA ToolInit == Tool!Init => ToolInv
<1> SUFFICES ASSUME Tool!Init PROVE ToolInv
  OBVIOUS
<1>1. used = [c \in Call |-> used[c]] /\ \A c \in Call : used[c] = Tool!Idle
  BY DEF Tool!Init
<1>2. \A c \in Call : ToolCallInv(used[c], c)
  BY <1>1, IdleCall
<1> QED
  BY <1>1, <1>2 DEF Tool!Init, ToolInv, NameInv

LEMMA ToolStill == ToolInv /\ UNCHANGED tool => ToolInv'
<1> SUFFICES ASSUME ToolInv, UNCHANGED tool PROVE ToolInv'
  OBVIOUS
<1>1. \A k, c : ToolCallInv(k, c)' = ToolCallInv(k, c)
  BY DEF tool, ToolCallInv, DoneIsSo
<1>2. NameInv'
  BY DEF tool, ToolInv, NameInv
<1> QED
  BY <1>1, <1>2 DEF tool, ToolInv

(* Of the name it is only ever learned that it matched, then that it moved.  *)
TrailGrows ==
    /\ UNCHANGED options
    /\ trail # "unmatched" => trail' # "unmatched"
    /\ trail = "moved" => trail' = "moved"

LEMMA CallStays == ASSUME NEW k, NEW c, ToolCallInv(k, c), TrailGrows PROVE ToolCallInv(k, c)'
  BY DEF ToolCallInv, TrailGrows, DoneIsSo

LEMMA ToolMoves ==
    ASSUME ToolInv, NEW c \in Call, NameInv', TrailGrows, NEW k,
           used' = [used EXCEPT ![c] = k], ToolCallInv(k, c)'
    PROVE  ToolInv'
<1>1. /\ used' = [d \in Call |-> used'[d]] /\ used'[c] = k
      /\ \A d \in Call : d # c => used'[d] = used[d]
  BY DEF ToolInv
<1>2. ASSUME NEW d \in Call PROVE ToolCallInv(used[d], d)'
  <2>1. PICK j : j = used'[d]
    OBVIOUS
  <2>2. CASE d = c
    BY <1>1, <2>2 DEF ToolCallInv, DoneIsSo
  <2>3. CASE d # c
    <3>1. ToolCallInv(j, d)
      BY <1>1, <2>1, <2>3 DEF ToolInv
    <3>2. ToolCallInv(j, d)'
      BY <3>1, CallStays
    <3> QED
      BY <2>1, <3>2 DEF ToolCallInv, DoneIsSo
  <2> QED
    BY <2>2, <2>3
<1> QED
  BY <1>1, <1>2 DEF ToolInv

(* A step of one call that the name and the others do not notice.            *)
LEMMA ToolQuiet ==
    ASSUME ToolInv, NEW c \in Call, UNCHANGED <<options, config, verified, behind, trail>>,
           NEW k, used' = [used EXCEPT ![c] = k], ToolCallInv(k, c)
    PROVE  ToolInv'
<1>1. NameInv' /\ TrailGrows
  BY DEF ToolInv, NameInv, TrailGrows
<1> QED
  BY <1>1, CallStays, ToolMoves

LEMMA StartTool == ToolInv /\ Tool!Start => ToolInv'
<1> SUFFICES ASSUME ToolInv, Tool!Start PROVE ToolInv'
  OBVIOUS
<1>1. NameInv' /\ UNCHANGED <<options, trail, used>>
  BY DEF ToolInv, NameInv, Tool!Start
<1>2. \A k, c : ToolCallInv(k, c)' = ToolCallInv(k, c)
  BY <1>1 DEF ToolCallInv, DoneIsSo
<1> QED
  BY <1>1, <1>2 DEF ToolInv

LEMMA MoveTool == ToolInv /\ Tool!Move => ToolInv'
<1> SUFFICES ASSUME ToolInv, Tool!Move PROVE ToolInv'
  OBVIOUS
<1>1. UNCHANGED <<options, config, verified, used>>
  BY DEF Tool!Move
<1>2. NameInv' /\ TrailGrows
  BY DEF ToolInv, NameInv, TrailGrows, Tool!Move
<1>3. ASSUME NEW d \in Call PROVE ToolCallInv(used[d], d)'
  <2>1. PICK j : j = used[d]
    OBVIOUS
  <2>2. ToolCallInv(j, d)'
    BY <1>2, <2>1, CallStays DEF ToolInv
  <2> QED
    BY <1>1, <2>1, <2>2 DEF ToolCallInv, DoneIsSo
<1> QED
  BY <1>1, <1>2, <1>3 DEF ToolInv

(* Who runs has what it was set to: a pin if one was asked for, and no more  *)
(* to reveal than was.                                                       *)
LEMMA RunsAsSet ==
    ASSUME ToolInv, Tool!Running
    PROVE  /\ options.pin # "unset" => config.pin # "none"
           /\ config.allowReveal => options.revealFlag \/ options.reveal = "true"
<1>1. config = Tool!LoadConfig(options) /\ config.state = "running"
  BY DEF ToolInv, NameInv, Tool!Running
<1>2. config = [state |-> "running", pin |-> Tool!ParseExpectInstance(options.pin),
                allowReveal |-> options.revealFlag \/ Tool!ParseAllowReveal(options.reveal)]
      /\ Tool!ParseExpectInstance(options.pin) # "refused"
  BY <1>1 DEF Tool!LoadConfig
<1> QED
  BY <1>2 DEF Tool!ParseExpectInstance, Tool!ParseAllowReveal

LEMMA BeginTool ==
    ASSUME ToolInv, NEW c \in Call, NEW t \in Tool!Tool, Tool!Begin(c, t) PROVE ToolInv'
<1> DEFINE asked == IF t \in Tool!Write /\ Tool!MustVerify THEN "whoami" ELSE t
           new == [Tool!Idle EXCEPT !.tool = t, !.at = "waiting", !.wire = Tool!Out, !.asked = asked]
<1>1. PICK k : k = new
  OBVIOUS
<1>2. used' = [used EXCEPT ![c] = k] /\ UNCHANGED <<options, config, verified, behind, trail>>
  BY <1>1 DEF Tool!Begin
<1>3. /\ DOMAIN k = CallFields /\ k.tool = t /\ k.at = "waiting" /\ k.wire = Tool!Out
      /\ k.asked = asked /\ k.landed = "none" /\ k.said = "nothing" /\ k.quotes = "no"
      /\ k.opened = "none"
  BY <1>1 DEF Tool!Idle, CallFields
<1>4. t = "get" => options.revealFlag \/ options.reveal = "true"
  BY RunsAsSet DEF Tool!Begin
<1>5. options.pin # "unset" /\ t \in Tool!Write /\ asked # "whoami" => trail # "unmatched"
  BY RunsAsSet DEF Tool!Begin, Tool!MustVerify, ToolInv, NameInv
<1>6. /\ k.wire.body = "none" /\ k.wire.status = "out" /\ k.wire.quotes = "no"
      /\ Pinned # "none"
  BY <1>3, Wires, IdIsNoWord, DeploymentAssumption
<1> HIDE DEF asked
<1>7. WireQuotes(k.wire, k.asked) /\ ToolQuotes(k.quotes, k.tool) /\ asked \in {"whoami", t}
  BY <1>3, <1>6, QuietWire, QuietTool DEF asked
<1>8. ToolCallInv(k, c)
  BY <1>3, <1>4, <1>5, <1>6, <1>7 DEF ToolCallInv, DoneIsSo, Mismatch
<1> QED
  BY <1>2, <1>8, ToolQuiet

LEMMA DiffTool ==
    ASSUME ToolInv, NEW c \in Call, NEW path \in Tool!Path, Tool!Diff(c, path) PROVE ToolInv'
<1> DEFINE file == Tool!ReadLocalDotenv(path)
           new == [Tool!Idle EXCEPT !.tool = "list", !.opened = file,
                        !.at = IF file = "refused" THEN "over" ELSE "waiting",
                        !.wire = IF file = "refused" THEN Tool!NoAnswer ELSE Tool!Out,
                        !.asked = "list"]
<1>1. PICK k : k = new
  OBVIOUS
<1>2. used' = [used EXCEPT ![c] = k] /\ UNCHANGED <<options, config, verified, behind, trail>>
  BY <1>1 DEF Tool!Diff
<1>3. file # "outside"
  BY DEF Tool!ReadLocalDotenv, Tool!IsWithinRoot
<1> HIDE DEF file
<1>4. /\ DOMAIN k = CallFields /\ k.tool = "list" /\ k.opened = file
      /\ k.at = (IF file = "refused" THEN "over" ELSE "waiting")
      /\ k.wire = (IF file = "refused" THEN Tool!NoAnswer ELSE Tool!Out)
      /\ k.asked = "list" /\ k.landed = "none" /\ k.said = "nothing" /\ k.quotes = "no"
  BY <1>1 DEF Tool!Idle, CallFields
<1>5. /\ k.wire.body = "none" /\ k.wire.quotes = "no" /\ Pinned # "none"
      /\ k.at = "over" => k.wire # Tool!Out
  BY <1>4, Wires, IdIsNoWord, DeploymentAssumption
<1>6. WireQuotes(k.wire, k.asked) /\ ToolQuotes(k.quotes, k.tool)
  BY <1>4, <1>5, QuietWire, QuietTool
<1>7. ToolCallInv(k, c)
  BY <1>3, <1>4, <1>5, <1>6 DEF ToolCallInv, DoneIsSo, Mismatch, Tool!Write
<1> QED
  BY <1>2, <1>7, ToolQuiet

(* An error quotes nothing but the value of a set.                           *)
LEMMA Echoing ==
    ASSUME NEW c \in Call, NEW where \in Tool!Echoes(c)
    PROVE  where \in Tool!Envelope \cup {"no"} /\ (where \in Tool!Envelope => used[c].asked = "set")
  BY DEF Tool!Echoes, Tool!Envelope

(* What the edge says says nothing of a write, and quotes no stored value in *)
(* a failure.                                                                *)
LEMMA EdgeSays ==
    ASSUME NEW c \in Call, NEW a \in Tool!EdgeAnswers(c)
    PROVE  /\ a # Tool!Out /\ a.body \in {"html", "other json", "envelope"}
           /\ WireQuotes(a, used[c].asked)
<1>1. CASE a = Tool!Answer("2xx", "other json", "entry")
  BY <1>1 DEF Tool!Answer, Tool!Out, WireQuotes, Tool!Envelope
<1>2. CASE a \in [status : {"2xx", "3xx", "5xx"}, body : {"html"},
                  quotes : Tool!Echoes(c) \ {"message", "hint", "code"}]
  <2>1. /\ a.status \in {"2xx", "3xx", "5xx"} /\ a.body = "html"
        /\ a.quotes \in Tool!Echoes(c) \ {"message", "hint", "code"}
    BY <1>2
  <2> QED
    BY <2>1, Echoing, Wires DEF WireQuotes, Tool!Envelope
<1>3. CASE a \in [status : {"3xx", "5xx"}, body : {"envelope"}, quotes : Tool!Echoes(c)]
  <2>1. a.status \in {"3xx", "5xx"} /\ a.body = "envelope" /\ a.quotes \in Tool!Echoes(c)
    BY <1>3
  <2> QED
    BY <2>1, Echoing, Wires DEF WireQuotes, Tool!Envelope
<1> QED
  BY <1>1, <1>2, <1>3 DEF Tool!EdgeAnswers

(* An answer on the wire, whether or not its call still waits.               *)
LEMMA OnTheWire ==
    ASSUME NEW a, NEW c \in Call, a # Tool!Out
    PROVE  /\ Tool!Reaches(c, a) # Tool!Out
           /\ Tool!Reaches(c, a) = a \/ Tool!Reaches(c, a) = Tool!NoAnswer
  BY Wires DEF Tool!Reaches

LEMMA InterceptTool ==
    ASSUME ToolInv, NEW c \in Call, Tool!Intercept(c) PROVE ToolInv'
<1>1. PICK a \in Tool!EdgeAnswers(c) : used' = [used EXCEPT ![c].wire = a]
  BY DEF Tool!Intercept
<1>2. PICK j : j = used[c]
  OBVIOUS
<1>3. ToolCallInv(j, c) /\ j.wire = Tool!Out /\ j.at = "waiting"
  BY <1>2 DEF ToolInv, Tool!Intercept
<1> DEFINE k == [j EXCEPT !.wire = a]
<1>4. used' = [used EXCEPT ![c] = k]
  BY <1>1, <1>2
<1>5. /\ DOMAIN k = CallFields /\ k.wire = a
      /\ k.tool = j.tool /\ k.at = j.at /\ k.opened = j.opened /\ k.asked = j.asked
      /\ k.landed = j.landed /\ k.held = j.held /\ k.said = j.said /\ k.quotes = j.quotes
  BY <1>3 DEF ToolCallInv, CallFields
<1> HIDE DEF k
<1>6. /\ a.body \in {"html", "other json", "envelope"}
      /\ WireQuotes(a, j.asked)
      /\ a.body # Pinned
  BY <1>2, EdgeSays, IdIsNoWord, DeploymentAssumption
<1>7. ToolCallInv(k, c)
  BY <1>3, <1>5, <1>6 DEF ToolCallInv, DoneIsSo, Mismatch
<1> QED
  BY <1>4, <1>7, ToolQuiet DEF Tool!Intercept

(* The answer to the pin's question.                                         *)
LEMMA DeliverQuestion ==
    ASSUME ToolInv, NEW c \in Call, Tool!Deliver(c), used[c].asked = "whoami" PROVE ToolInv'
<1>1. PICK a \in Tool!EdgeAnswers(c) \union {Tool!Answer("2xx", behind, "no"),
                                         Tool!Answer("2xx", "no instance", "no")} :
         /\ used' = [used EXCEPT ![c].wire = Tool!Reaches(c, a)]
         /\ trail' = IF a.body = Pinned /\ trail = "unmatched" THEN "matched" ELSE trail
  BY DEF Tool!Deliver
<1>2. UNCHANGED <<options, config, verified, behind>> /\ used[c].wire = Tool!Out
  BY DEF Tool!Deliver
<1>3. /\ a # Tool!Out
      /\ WireQuotes(a, used[c].asked)
      /\ a.body = Pinned => behind = Pinned
  <2>1. CASE a \in Tool!EdgeAnswers(c)
    BY <2>1, EdgeSays, IdIsNoWord, DeploymentAssumption
  <2>2. CASE a = Tool!Answer("2xx", behind, "no")
    <3>1. a.status = "2xx" /\ a.body = behind /\ a.quotes = "no"
      BY <2>2 DEF Tool!Answer
    <3> QED
      BY <3>1, Wires, QuietWire
  <2>3. CASE a = Tool!Answer("2xx", "no instance", "no")
    <3>1. a.status = "2xx" /\ a.body = "no instance" /\ a.quotes = "no"
      BY <2>3 DEF Tool!Answer
    <3> QED
      BY <3>1, Wires, QuietWire, IdIsNoWord, DeploymentAssumption
  <2> QED
    BY <2>1, <2>2, <2>3
<1>4. NameInv' /\ TrailGrows /\ (a.body = Pinned => trail' # "unmatched")
  BY <1>1, <1>2, <1>3 DEF ToolInv, NameInv, TrailGrows
<1>5. PICK j, w : j = used[c] /\ w = Tool!Reaches(c, a)
  OBVIOUS
<1>6. ToolCallInv(j, c) /\ j.wire = Tool!Out /\ j.asked = "whoami"
  BY <1>2, <1>5 DEF ToolInv
<1> DEFINE k == [j EXCEPT !.wire = w]
<1>7. used' = [used EXCEPT ![c] = k]
  BY <1>1, <1>5
<1>8. /\ DOMAIN k = CallFields /\ k.wire = w
      /\ k.tool = j.tool /\ k.at = j.at /\ k.opened = j.opened /\ k.asked = j.asked
      /\ k.landed = j.landed /\ k.held = j.held /\ k.said = j.said /\ k.quotes = j.quotes
  BY <1>6 DEF ToolCallInv, CallFields
<1> HIDE DEF k
<1>9. /\ w # Tool!Out
      /\ WireQuotes(w, j.asked)
      /\ w.body = Pinned => trail' # "unmatched"
  BY <1>3, <1>4, <1>5, OnTheWire, Wires, QuietWire, IdIsNoWord, DeploymentAssumption
<1>10. ToolCallInv(j, c)'
  BY <1>4, <1>6, CallStays
<1>11. ToolCallInv(k, c)'
  BY <1>6, <1>8, <1>9, <1>10 DEF ToolCallInv, DoneIsSo
<1> QED
  BY <1>4, <1>7, <1>11, ToolMoves

(* A refusal, which leaves the deployment as it was.                         *)
LEMMA DeliverRefusal ==
    ASSUME ToolInv, NEW c \in Call, used[c].wire = Tool!Out,
           UNCHANGED <<options, config, verified, behind, trail>>,
           NEW where \in Tool!Echoes(c), used[c].asked # "whoami",
           used' = [used EXCEPT ![c].wire =
                       Tool!Reaches(c, Tool!Answer("4xx", "refusal", where))]
    PROVE  ToolInv'
<1>1. PICK a : a = Tool!Answer("4xx", "refusal", where)
  OBVIOUS
<1>2. a.status = "4xx" /\ a.body = "refusal" /\ WireQuotes(a, used[c].asked)
  BY <1>1, Echoing DEF Tool!Answer, WireQuotes
<1>3. PICK j, w : j = used[c] /\ w = Tool!Reaches(c, a)
  OBVIOUS
<1>4. ToolCallInv(j, c) /\ j.wire = Tool!Out /\ j.asked # "whoami"
  BY <1>3 DEF ToolInv
<1> DEFINE k == [j EXCEPT !.wire = w]
<1>5. used' = [used EXCEPT ![c] = k]
  BY <1>1, <1>3
<1>6. /\ DOMAIN k = CallFields /\ k.wire = w
      /\ k.tool = j.tool /\ k.at = j.at /\ k.opened = j.opened /\ k.asked = j.asked
      /\ k.landed = j.landed /\ k.held = j.held /\ k.said = j.said /\ k.quotes = j.quotes
  BY <1>4 DEF ToolCallInv, CallFields
<1> HIDE DEF k
<1>7. /\ w # Tool!Out /\ WireQuotes(w, j.asked)
      /\ w.body \in {"refusal", "none"}
  <2>1. a # Tool!Out
    BY <1>2, Wires
  <2> QED
    BY <1>2, <1>3, <2>1, OnTheWire, Wires, QuietWire
<1>8. ToolCallInv(k, c)
  BY <1>4, <1>6, <1>7 DEF ToolCallInv, DoneIsSo, Mismatch
<1> QED
  BY <1>5, <1>8, ToolQuiet

(* What is done lands where the name stands, and the answer says so or is    *)
(* the edge's.                                                               *)
LEMMA DeliverServed ==
    ASSUME ToolInv, NEW c \in Call, used[c].wire = Tool!Out,
           UNCHANGED <<options, config, verified, behind, trail>>,
           used[c].asked # "whoami",
           NEW a \in Tool!EdgeAnswers(c) \union {Tool!Answer("2xx", Tool!Outcome(c), "entry")},
           used' = [used EXCEPT
               ![c].wire = Tool!Reaches(c, a),
               ![c].landed = IF used[c].tool \in Tool!Write THEN behind ELSE @,
               ![c].held = IF used[c].tool \in Tool!Write THEN holds[behind] ELSE @]
    PROVE  ToolInv'
<1>1. PICK j, w, landed, held :
         /\ j = used[c] /\ w = Tool!Reaches(c, a)
         /\ landed = (IF j.tool \in Tool!Write THEN behind ELSE j.landed)
         /\ held = (IF j.tool \in Tool!Write THEN holds[behind] ELSE j.held)
  OBVIOUS
<1>2. ToolCallInv(j, c) /\ j.wire = Tool!Out /\ j.asked # "whoami" /\ j.landed = "none"
  BY <1>1 DEF ToolInv, ToolCallInv
<1>3. /\ a # Tool!Out
      /\ WireQuotes(a, used[c].asked)
      /\ a.body \in {"html", "other json", "envelope"} \/ a.body = Tool!Outcome(c)
  <2>1. CASE a \in Tool!EdgeAnswers(c)
    BY <2>1, EdgeSays
  <2>2. CASE a = Tool!Answer("2xx", Tool!Outcome(c), "entry")
    <3>1. a.status = "2xx" /\ a.body = Tool!Outcome(c) /\ a.quotes = "entry"
      BY <2>2 DEF Tool!Answer
    <3> QED
      BY <3>1, Wires DEF Tool!Outcome, WireQuotes, Tool!Envelope
  <2> QED
    BY <2>1, <2>2
<1>4. /\ Tool!Outcome(c) \in {"created", "updated", "unchanged", "removed", "read"}
      /\ Tool!Outcome(c) # "read" => j.tool \in Tool!Write
      /\ Tool!Outcome(c) = "created" => holds[behind] = "none"
      /\ Tool!Outcome(c) = "updated" => holds[behind] \notin {"none", c}
  BY <1>1 DEF Tool!Outcome, Tool!Write
<1>5. behind # "none"
  BY IdIsNoWord DEF ToolInv, NameInv
<1> DEFINE k == [j EXCEPT !.wire = w, !.landed = landed, !.held = held]
<1>6. used' = [used EXCEPT ![c] = k]
  BY <1>1
<1>7. /\ DOMAIN k = CallFields /\ k.wire = w /\ k.landed = landed /\ k.held = held
      /\ k.tool = j.tool /\ k.at = j.at /\ k.opened = j.opened /\ k.asked = j.asked
      /\ k.said = j.said /\ k.quotes = j.quotes
  BY <1>2 DEF ToolCallInv, CallFields
<1> HIDE DEF k
<1>8. /\ w # Tool!Out
      /\ WireQuotes(w, j.asked)
      /\ w.body \in {"html", "other json", "envelope", "none"} \/ w.body = Tool!Outcome(c)
  BY <1>1, <1>3, OnTheWire, Wires, QuietWire
<1>9. DoneIsSo(k.wire.body, k, c) /\ k.wire.body \notin {"refusal", "refused", Mismatch}
  BY <1>1, <1>4, <1>5, <1>7, <1>8 DEF DoneIsSo, Mismatch
<1>10. k.said \in GaveUp \cup {"nothing"}
  BY <1>2, <1>7 DEF ToolCallInv
<1>11. options.pin # "unset" /\ k.tool \in Tool!Write =>
          IF k.landed = Pinned THEN trail # "unmatched" ELSE trail = "moved"
  BY <1>1, <1>2, <1>7 DEF ToolCallInv, ToolInv, NameInv
<1>12. ToolCallInv(k, c)
  BY <1>1, <1>2, <1>7, <1>8, <1>9, <1>10, <1>11 DEF ToolCallInv, DoneIsSo, Mismatch, GaveUp
<1> QED
  BY <1>6, <1>12, ToolQuiet

LEMMA DeliverTool == ASSUME ToolInv, NEW c \in Call, Tool!Deliver(c) PROVE ToolInv'
<1>1. CASE used[c].asked = "whoami"
  BY <1>1, DeliverQuestion
<1>2. CASE used[c].asked # "whoami"
  <2>1. used[c].wire = Tool!Out /\ UNCHANGED <<options, config, verified, behind, trail>>
    BY <1>2 DEF Tool!Deliver
  <2>2. ASSUME NEW where \in Tool!Echoes(c),
               used' = [used EXCEPT ![c].wire =
                           Tool!Reaches(c, Tool!Answer("4xx", "refusal", where))]
        PROVE  ToolInv'
    BY <1>2, <2>1, <2>2, DeliverRefusal
  <2>3. ASSUME NEW a \in Tool!EdgeAnswers(c) \union {Tool!Answer("2xx", Tool!Outcome(c), "entry")},
               used' = [used EXCEPT
                   ![c].wire = Tool!Reaches(c, a),
                   ![c].landed = IF used[c].tool \in Tool!Write THEN behind ELSE @,
                   ![c].held = IF used[c].tool \in Tool!Write THEN holds[behind] ELSE @]
        PROVE  ToolInv'
    BY <1>2, <2>1, <2>3, DeliverServed
  <2> QED
    BY <1>2, <2>2, <2>3 DEF Tool!Deliver
<1> QED
  BY <1>1, <1>2

(* A call that ends says what follows from its answer.                       *)
LEMMA SaysTool ==
    ASSUME ToolInv, NEW c \in Call, NEW said, NEW quotes, Tool!Says(c, said, quotes),
           used[c].at = "waiting", UNCHANGED <<options, config, behind, trail>>, NameInv',
           used[c].wire = Tool!Out => said \in GaveUp,
           DoneIsSo(said, used[c], c),
           said \in {"refused", Mismatch} => used[c].landed = "none",
           ToolQuotes(quotes, used[c].tool)
    PROVE  ToolInv'
<1>1. PICK j, w : j = used[c] /\ w = (IF j.wire = Tool!Out THEN Tool!Out ELSE Tool!NoAnswer)
  OBVIOUS
<1>2. ToolCallInv(j, c)
  BY <1>1 DEF ToolInv
<1> DEFINE k == [j EXCEPT !.at = "over", !.said = said, !.quotes = quotes, !.wire = w]
<1>3. used' = [used EXCEPT ![c] = k]
  BY <1>1 DEF Tool!Says
<1>4. /\ DOMAIN k = CallFields /\ k.wire = w /\ k.at = "over" /\ k.said = said
      /\ k.quotes = quotes /\ k.tool = j.tool /\ k.opened = j.opened /\ k.asked = j.asked
      /\ k.landed = j.landed /\ k.held = j.held
  BY <1>2 DEF ToolCallInv, CallFields
<1> HIDE DEF k
<1>5. /\ w.body = "none" /\ w.quotes = "no" /\ Pinned # "none"
      /\ w = Tool!Out => j.wire = Tool!Out
  BY <1>1, Wires, IdIsNoWord, DeploymentAssumption
<1>6. /\ DoneIsSo(said, j, c)
      /\ w = Tool!Out => said \in GaveUp
      /\ said \in {"refused", Mismatch} => j.landed = "none"
      /\ ToolQuotes(quotes, j.tool)
  BY <1>1, <1>5
<1>7. ToolCallInv(k, c)
  <2>1. /\ DoneIsSo(k.said, k, c) /\ DoneIsSo(k.wire.body, k, c)
        /\ k.wire.body \notin {"refusal", "refused", Mismatch, Pinned}
        /\ WireQuotes(k.wire, k.asked)
    BY <1>4, <1>5, <1>6, QuietWire DEF DoneIsSo, Mismatch
  <2>2. /\ k.opened # "outside" /\ k.asked \in {"whoami", k.tool}
        /\ k.tool = "get" => options.revealFlag \/ options.reveal = "true"
        /\ k.wire = Tool!Out \/ k.asked = "whoami" => k.landed = "none"
        /\ options.pin # "unset" /\ k.tool \in Tool!Write =>
              /\ k.asked # "whoami" => trail # "unmatched"
              /\ k.landed # "none" =>
                    IF k.landed = Pinned THEN trail # "unmatched" ELSE trail = "moved"
    BY <1>2, <1>4, <1>5 DEF ToolCallInv
  <2>3. /\ k.wire = Tool!Out => k.said \in GaveUp
        /\ k.said \in {"refused", Mismatch} => k.landed = "none"
        /\ ToolQuotes(k.quotes, k.tool)
    BY <1>4, <1>6
  <2> QED
    BY <1>4, <2>1, <2>2, <2>3 DEF ToolCallInv
<1>8. TrailGrows
  BY DEF TrailGrows
<1> QED
  BY <1>3, <1>7, <1>8, CallStays, ToolMoves

LEMMA ExpireTool ==
    ASSUME ToolInv, NEW c \in Call, Tool!Expire(c) \/ Tool!Break(c) PROVE ToolInv'
<1>1. PICK said \in GaveUp :
         /\ used[c].at = "waiting" /\ Tool!Says(c, said, "no")
         /\ UNCHANGED <<options, config, verified, behind, trail>>
  BY DEF Tool!Expire, Tool!Break, GaveUp
<1>2. NameInv'
  BY <1>1 DEF ToolInv, NameInv
<1>3. DoneIsSo(said, used[c], c) /\ said \notin {"refused", Mismatch}
  BY DEF DoneIsSo, GaveUp, Mismatch
<1> QED
  BY <1>1, <1>2, <1>3, SaysTool, QuietTool

(* The API's refusal is quoted only from its envelope.                       *)
LEMMA ErrorSays ==
    ASSUME NEW a
    PROVE  /\ Tool!HttpError(a) \in {"redirected", "refused", "failed"}
           /\ Tool!HttpError(a) = "refused" => a.body = "refusal"
  BY DEF Tool!HttpError

(* A failure is said with no more of the value that was sent than what       *)
(* scrubbing leaves.                                                         *)
LEMMA ErrorEnds ==
    ASSUME ToolInv, NEW c \in Call, used[c].at = "waiting", used[c].wire # Tool!Out,
           UNCHANGED <<options, config, verified, behind, trail>>,
           NEW quotes, Tool!Says(c, Tool!HttpError(used[c].wire), quotes),
           ToolQuotes(quotes, used[c].tool)
    PROVE  ToolInv'
<1>1. PICK a, said : a = used[c].wire /\ said = Tool!HttpError(a)
  OBVIOUS
<1>2. ToolCallInv(used[c], c)
  BY DEF ToolInv
<1>3. /\ said \in {"redirected", "refused", "failed"}
      /\ said = "refused" => a.body = "refusal"
  BY <1>1, ErrorSays
<1>4. /\ DoneIsSo(said, used[c], c)
      /\ said \in {"refused", Mismatch} => used[c].landed = "none"
  BY <1>1, <1>2, <1>3 DEF DoneIsSo, Mismatch, ToolCallInv
<1>5. NameInv'
  BY DEF ToolInv, NameInv
<1> QED
  BY <1>1, <1>4, <1>5, SaysTool

LEMMA VerifyTool ==
    ASSUME ToolInv, NEW c \in Call, Tool!Receive(c), used[c].asked = "whoami" PROVE ToolInv'
<1>1. PICK a : a = used[c].wire
  OBVIOUS
<1>2. /\ used[c].at = "waiting" /\ a # Tool!Out /\ Tool!Verify(c, a)
      /\ UNCHANGED <<options, config, behind, trail>>
  BY <1>1 DEF Tool!Receive
<1>3. ToolCallInv(used[c], c) /\ used[c].landed = "none" /\ (a.body = Pinned => trail # "unmatched")
  BY <1>1 DEF ToolInv, ToolCallInv
<1>4. CASE a.status = "2xx" /\ a.body = Pinned /\ a.body # "html"
  <2>1. verified' = (verified \/ TRUE) /\ Tool!Sends(c, used[c].tool)
    BY <1>2, <1>4 DEF Tool!Verify, Tool!VerifiedBy
  <2>2. NameInv' /\ TrailGrows
    BY <1>2, <1>3, <1>4, <2>1 DEF ToolInv, NameInv, TrailGrows
  <2>3. PICK j : j = used[c]
    OBVIOUS
  <2> DEFINE k == [j EXCEPT !.at = "waiting", !.wire = Tool!Out, !.asked = j.tool]
  <2>4. used' = [used EXCEPT ![c] = k]
    BY <2>1, <2>3 DEF Tool!Sends
  <2>5. ToolCallInv(j, c) /\ j.at = "waiting" /\ j.landed = "none"
    BY <1>2, <1>3, <2>3
  <2>6. /\ DOMAIN k = CallFields /\ k.wire = Tool!Out /\ k.at = "waiting" /\ k.asked = j.tool
        /\ k.said = j.said /\ k.quotes = j.quotes /\ k.tool = j.tool /\ k.opened = j.opened
        /\ k.landed = j.landed /\ k.held = j.held
    BY <2>5 DEF ToolCallInv, CallFields
  <2> HIDE DEF k
  <2>7. WireQuotes(k.wire, k.asked) /\ ToolQuotes(k.quotes, k.tool)
    BY <2>5, <2>6, Wires, QuietWire DEF ToolCallInv
  <2>8. ToolCallInv(k, c)
    BY <1>3, <1>4, <2>5, <2>6, <2>7, Wires, IdIsNoWord, DeploymentAssumption
    DEF ToolCallInv, DoneIsSo, Mismatch
  <2> QED
    BY <2>2, <2>4, <2>8, CallStays, ToolMoves
<1>5. CASE a.status = "2xx" /\ a.body # "html" /\ a.body # Pinned
  <2>1. (verified' => verified) /\ Tool!Says(c, Mismatch, "no")
    BY <1>2, <1>5 DEF Tool!Verify, Tool!VerifiedBy, ToolInv, NameInv, Mismatch
  <2>2. NameInv'
    BY <1>2, <2>1 DEF ToolInv, NameInv
  <2>3. DoneIsSo(Mismatch, used[c], c)
    BY DEF DoneIsSo, Mismatch
  <2> QED
    BY <1>1, <1>2, <1>3, <2>1, <2>2, <2>3, SaysTool, QuietTool
<1>6. CASE ~(a.status = "2xx" /\ a.body # "html")
  <2>1. /\ UNCHANGED verified
        /\ Tool!Says(c, Tool!HttpError(a), a.quotes)
    BY <1>2, <1>6 DEF Tool!Verify
  <2>2. WireQuotes(a, "whoami") /\ (a.status # "2xx" \/ a.body = "html")
    BY <1>1, <1>3, <1>6 DEF ToolCallInv
  <2>3. a.quotes = "no"
    BY <2>2 DEF WireQuotes
  <2>4. ToolQuotes(a.quotes, used[c].tool)
    BY <2>3, QuietTool
  <2> QED
    BY <1>1, <1>2, <2>1, <2>4, ErrorEnds
<1> QED
  BY <1>4, <1>5, <1>6

LEMMA ConcludedTool ==
    ASSUME ToolInv, NEW c \in Call, Tool!Receive(c), used[c].asked # "whoami" PROVE ToolInv'
<1>1. PICK a : a = used[c].wire
  OBVIOUS
<1>2. /\ used[c].at = "waiting" /\ a # Tool!Out /\ Tool!Concluded(c, a)
      /\ UNCHANGED <<options, config, verified, behind, trail>>
  BY <1>1 DEF Tool!Receive
<1>3. ToolCallInv(used[c], c) /\ NameInv'
  BY <1>2 DEF ToolInv, NameInv
<1>4. CASE a.status # "2xx"
  <2>1. Tool!Says(c, Tool!HttpError(a), Tool!ScrubEchoedValue(a))
    BY <1>2, <1>4 DEF Tool!Concluded
  <2>2. WireQuotes(a, used[c].tool)
    BY <1>1, <1>3 DEF ToolCallInv
  <2>3. ToolQuotes(Tool!ScrubEchoedValue(a), used[c].tool)
    BY <1>4, <2>2 DEF WireQuotes, ToolQuotes, Tool!ScrubEchoedValue, Tool!Envelope
  <2> QED
    BY <1>1, <1>2, <2>1, <2>3, ErrorEnds
<1>5. ASSUME NEW said \in {"not the API", "written, without a revision"}, NEW quotes,
             Tool!Says(c, said, quotes), ToolQuotes(quotes, used[c].tool)
      PROVE  ToolInv'
  <2>1. DoneIsSo(said, used[c], c) /\ said \notin {"refused", Mismatch}
    BY DEF DoneIsSo, Mismatch
  <2> QED
    BY <1>1, <1>2, <1>3, <1>5, <2>1, SaysTool
<1>6. CASE Tool!Says(c, a.body, IF used[c].tool = "get" THEN "value" ELSE "no")
  <2>1. PICK said : said = a.body
    OBVIOUS
  <2>2. DoneIsSo(said, used[c], c) /\ said \notin {"refused", Mismatch}
    BY <1>1, <1>3, <2>1 DEF ToolCallInv
  <2>3. PICK quotes : quotes = (IF used[c].tool = "get" THEN "value" ELSE "no")
    OBVIOUS
  <2>4. ToolQuotes(quotes, used[c].tool)
    BY <2>3 DEF ToolQuotes, Tool!Envelope
  <2> QED
    BY <1>1, <1>2, <1>3, <1>6, <2>1, <2>2, <2>3, <2>4, SaysTool
<1>7. CASE Tool!Says(c, "not the API", IF a.body = "html" THEN a.quotes ELSE "no")
  <2>1. PICK quotes : quotes = (IF a.body = "html" THEN a.quotes ELSE "no")
    OBVIOUS
  <2>2. WireQuotes(a, used[c].tool)
    BY <1>1, <1>3 DEF ToolCallInv
  <2>3. ToolQuotes(quotes, used[c].tool)
    BY <2>1, <2>2 DEF WireQuotes, ToolQuotes, Tool!Envelope
  <2> QED
    BY <1>5, <1>7, <2>1, <2>3
<1>8. CASE Tool!Says(c, "written, without a revision", "no")
  BY <1>5, <1>8, QuietTool
<1> QED
  BY <1>2, <1>4, <1>6, <1>7, <1>8 DEF Tool!Concluded

LEMMA ReceiveTool == ASSUME ToolInv, NEW c \in Call, Tool!Receive(c) PROVE ToolInv'
  BY VerifyTool, ConcludedTool

LEMMA ToolStep == ToolInv /\ Tool!Next => ToolInv'
  BY StartTool, MoveTool, BeginTool, DiffTool, DeliverTool, InterceptTool, ReceiveTool, ExpireTool
  DEF Tool!Next

LEMMA ToolAnswers ==
    ToolInv => Tool!PinnedWritesLandAtHome /\ Tool!WhatIsSaidIsSo /\ Tool!ValuesAndFilesStayIn
<1> SUFFICES ASSUME ToolInv
             PROVE  Tool!PinnedWritesLandAtHome /\ Tool!WhatIsSaidIsSo /\ Tool!ValuesAndFilesStayIn
  OBVIOUS
<1>1. ASSUME NEW c \in Call PROVE ToolCallInv(used[c], c)
  BY DEF ToolInv
<1>2. Tool!PinnedWritesLandAtHome
  BY <1>1 DEF ToolCallInv, Tool!PinnedWritesLandAtHome
<1>3. Tool!WhatIsSaidIsSo
  <2> SUFFICES ASSUME NEW c \in Call
               PROVE  /\ used[c].said \in {"created", "updated", "removed", "unchanged"} =>
                             /\ used[c].landed # "none"
                             /\ used[c].said = "created" => used[c].held = "none"
                             /\ used[c].said = "updated" => used[c].held \notin {"none", c}
                      /\ used[c].said \in {Mismatch, "refused"} =>
                             /\ used[c].landed = "none"
                             /\ used[c].wire # Tool!Out \/ used[c].asked = "whoami"
    BY DEF Tool!WhatIsSaidIsSo, Mismatch
  <2>1. ToolCallInv(used[c], c)
    BY <1>1
  <2>2. used[c].said \in {Mismatch, "refused"} =>
           used[c].at = "over" /\ used[c].said \notin GaveUp
    BY <2>1 DEF ToolCallInv, Mismatch, GaveUp
  <2> QED
    BY <2>1, <2>2 DEF ToolCallInv, DoneIsSo
<1>4. Tool!ValuesAndFilesStayIn
  BY <1>1 DEF ToolCallInv, ToolQuotes, Tool!ValuesAndFilesStayIn
<1> QED
  BY <1>2, <1>3, <1>4

-----------------------------------------------------------------------------
(* The screen of service tokens. *)

Mints == {"create", "rotate"}

(* While a secret is on screen nothing that brings another is sent.          *)
ScreenInv ==
    /\ numbered \in Nat
    /\ page \in {"open", "idle", "left"}
    /\ \A c \in sent : c.id \in Nat /\ c.id <= numbered
    /\ secret = Screen!NoSecret \/ (DOMAIN secret = {"call", "over"} /\ page = "open")
    /\ secret # Screen!NoSecret => \A c \in sent : c.op \in Mints => c.id <= secret.over
    /\ DOMAIN creating = {"open", "scope", "project", "listed"}
    /\ creating.listed \in {Blank, creating.project}

LEMMA ScreenInit == Screen!Init => ScreenInv
  BY DEF Screen!Init, Screen!EmptyForm, ScreenInv

LEMMA ScreenStill == ScreenInv /\ UNCHANGED screen => ScreenInv'
  BY DEF screen, ScreenInv

LEMMA AskingOne ==
    ASSUME NEW op, NEW on
    PROVE  Screen!Asking(op, on).id = numbered + 1 /\ Screen!Asking(op, on).op = op
  BY DEF Screen!Asking

(* A step on a page without a secret that leaves the form's list alone.      *)
LEMMA ScreenFree ==
    ASSUME ScreenInv, secret = Screen!NoSecret, UNCHANGED <<page, secret>>,
           DOMAIN creating' = {"open", "scope", "project", "listed"},
           creating'.listed \in {Blank, creating'.project},
           \/ UNCHANGED <<sent, numbered>>
           \/ \E c : c.id = numbered + 1 /\ Screen!Send(c)
    PROVE  ScreenInv'
<1>1. CASE UNCHANGED <<sent, numbered>>
  BY <1>1 DEF ScreenInv
<1>2. ASSUME NEW c, c.id = numbered + 1, Screen!Send(c) PROVE ScreenInv'
  BY <1>2 DEF ScreenInv, Screen!Send
<1> QED
  BY <1>1, <1>2

LEMMA LoadScreen == ScreenInv /\ Screen!Load => ScreenInv'
  BY ScreenFree, AskingOne DEF Screen!Load, Screen!AtTable, Screen!Free, ScreenInv

LEMMA RefreshScreen ==
    ASSUME ScreenInv, NEW t \in Tokens, Screen!RefreshToken(t) PROVE ScreenInv'
  BY ScreenFree, AskingOne DEF Screen!RefreshToken, Screen!AtTable, Screen!Free, ScreenInv

LEMMA EmptyFormIs ==
    /\ DOMAIN Screen!EmptyForm = {"open", "scope", "project", "listed"}
    /\ DOMAIN [Screen!EmptyForm EXCEPT !.open = TRUE] = {"open", "scope", "project", "listed"}
    /\ Screen!EmptyForm.listed = Blank
    /\ [Screen!EmptyForm EXCEPT !.open = TRUE].listed = Blank
  BY DEF Screen!EmptyForm

LEMMA OpenScreen == ScreenInv /\ Screen!OpenDialog => ScreenInv'
<1> SUFFICES ASSUME ScreenInv, Screen!OpenDialog PROVE ScreenInv'
  OBVIOUS
<1>1. secret = Screen!NoSecret /\ UNCHANGED <<page, secret>>
  BY DEF Screen!OpenDialog, Screen!AtTable, Screen!Free
<1>2. UNCHANGED creating \/ creating' = [Screen!EmptyForm EXCEPT !.open = TRUE]
  BY DEF Screen!OpenDialog
<1>3. \/ UNCHANGED <<sent, numbered>>
      \/ \E c : c.id = numbered + 1 /\ Screen!Send(c)
  BY AskingOne DEF Screen!OpenDialog
<1>4. /\ DOMAIN creating' = {"open", "scope", "project", "listed"}
      /\ creating'.listed \in {Blank, creating'.project}
  BY <1>2, EmptyFormIs DEF ScreenInv
<1> QED
  BY <1>1, <1>3, <1>4, ScreenFree

LEMMA CloseScreen == ScreenInv /\ Screen!CloseDialog => ScreenInv'
<1> SUFFICES ASSUME ScreenInv, Screen!CloseDialog PROVE ScreenInv'
  OBVIOUS
<1>1. secret = Screen!NoSecret /\ UNCHANGED <<page, secret, sent, numbered>>
  BY DEF Screen!CloseDialog, Screen!Free
<1>2. UNCHANGED creating \/ creating' = Screen!EmptyForm
  BY DEF Screen!CloseDialog
<1>3. /\ DOMAIN creating' = {"open", "scope", "project", "listed"}
      /\ creating'.listed \in {Blank, creating'.project}
  BY <1>2, EmptyFormIs DEF ScreenInv
<1> QED
  BY <1>1, <1>3, ScreenFree

LEMMA ChooseScreen ==
    ASSUME ScreenInv, NEW scope, NEW p, Screen!Choose(scope, p) PROVE ScreenInv'
<1>1. secret = Screen!NoSecret /\ UNCHANGED <<page, secret>>
  BY DEF Screen!Choose, Screen!Free
<1>2. creating' = [creating EXCEPT !.scope = scope, !.project = p, !.listed = Blank]
  BY DEF Screen!Choose
<1>3. /\ DOMAIN creating' = {"open", "scope", "project", "listed"}
      /\ creating'.listed \in {Blank, creating'.project}
  BY <1>2 DEF ScreenInv
<1>4. \/ UNCHANGED <<sent, numbered>>
      \/ \E c : c.id = numbered + 1 /\ Screen!Send(c)
  BY AskingOne DEF Screen!Choose
<1> QED
  BY <1>1, <1>3, <1>4, ScreenFree

LEMMA SubmitScreen ==
    ASSUME ScreenInv, \/ Screen!SubmitCreate \/ Screen!SubmitRotate
                      \/ Screen!ConfirmRevoke \/ Screen!ApplyRepairs
    PROVE  ScreenInv'
<1>1. secret = Screen!NoSecret /\ UNCHANGED <<page, secret, creating>>
  BY DEF Screen!SubmitCreate, Screen!SubmitRotate, Screen!ConfirmRevoke, Screen!ApplyRepairs,
         Screen!Free
<1>2. \E c : c.id = numbered + 1 /\ Screen!Send(c)
  <2>1. CASE Screen!SubmitCreate
    BY <2>1 DEF Screen!SubmitCreate, Screen!Asking
  <2>2. CASE Screen!SubmitRotate
    BY <2>2, AskingOne DEF Screen!SubmitRotate
  <2>3. CASE Screen!ConfirmRevoke
    BY <2>3, AskingOne DEF Screen!ConfirmRevoke
  <2>4. CASE Screen!ApplyRepairs
    BY <2>4, AskingOne DEF Screen!ApplyRepairs
  <2> QED
    BY <2>1, <2>2, <2>3, <2>4
<1> QED
  BY <1>1, <1>2, ScreenFree DEF ScreenInv

(* What is on its way after an answer was received: less, and a list.        *)
LEMMA AfterAnswer ==
    ASSUME ScreenInv, NEW c \in sent, Screen!Received(c) \/ Screen!ReceivedAndLoad(c)
    PROVE  /\ numbered' \in Nat /\ numbered <= numbered'
           /\ \A d \in sent' : d.id \in Nat /\ d.id <= numbered'
           /\ \A d \in sent' : d.op \in Mints => d \in sent
<1>1. CASE Screen!Received(c)
  BY <1>1 DEF Screen!Received, ScreenInv
<1>2. CASE Screen!ReceivedAndLoad(c)
  BY <1>2 DEF Screen!ReceivedAndLoad, ScreenInv, Mints
<1> QED
  BY <1>1, <1>2

LEMMA AnswerScreen ==
    ASSUME ScreenInv, NEW c \in sent, Screen!Answer(c)
    PROVE  /\ ScreenInv'
           /\ secret # Screen!NoSecret /\ secret'.call \notin {0, secret.call} =>
                 secret'.call <= secret.over
<1>1. /\ numbered' \in Nat /\ numbered <= numbered'
      /\ \A d \in sent' : d.id \in Nat /\ d.id <= numbered'
      /\ \A d \in sent' : d.op \in Mints => d \in sent
  BY AfterAnswer DEF Screen!Answer
<1>2. /\ DOMAIN creating' = {"open", "scope", "project", "listed"}
      /\ creating'.listed \in {Blank, creating'.project}
  <2>1. CASE UNCHANGED creating
    BY <2>1 DEF ScreenInv
  <2>2. CASE creating' = Screen!EmptyForm
    BY <2>2, EmptyFormIs
  <2>3. CASE Screen!OffersEnvironments(c)
    BY <2>3 DEF Screen!OffersEnvironments, ScreenInv
  <2> QED
    BY <2>1, <2>2, <2>3 DEF Screen!Answer
<1>3. page' = page /\ page # "left"
  BY DEF Screen!Answer
<1>4. CASE UNCHANGED secret
  BY <1>1, <1>2, <1>3, <1>4 DEF ScreenInv
<1>5. CASE c.op \in Mints /\ secret' = Screen!NoSecret
  <2>1. secret'.call = 0
    BY <1>5 DEF Screen!NoSecret
  <2>2. ScreenInv'
    BY <1>1, <1>2, <1>3, <1>5 DEF ScreenInv, Screen!NoSecret
  <2> QED
    BY <2>1, <2>2
<1>6. CASE c.op \in Mints /\ page # "idle" /\ secret' = [call |-> c.id, over |-> numbered]
  <2>1. /\ DOMAIN secret' = {"call", "over"} /\ secret'.call = c.id
        /\ secret'.over = numbered
    BY <1>6
  <2>2. \A d \in sent' : d.op \in Mints => d.id <= numbered
    BY <1>1 DEF ScreenInv
  <2>3. page' = "open"
    BY <1>3, <1>6 DEF ScreenInv
  <2>4. secret # Screen!NoSecret => c.id <= secret.over
    BY <1>6 DEF ScreenInv
  <2>5. ScreenInv'
    <3>1. numbered' \in Nat /\ page' \in {"open", "idle", "left"}
      BY <1>1, <2>3
    <3>2. \A d \in sent' : d.op \in Mints => d.id <= secret'.over
      BY <2>1, <2>2
    <3> HIDE DEF Mints
    <3> QED
      BY <1>1, <1>2, <2>1, <2>3, <3>1, <3>2 DEF ScreenInv
  <2> QED
    BY <2>1, <2>4, <2>5
<1> QED
  BY <1>4, <1>5, <1>6 DEF Screen!Answer, Screen!Show, Mints

LEMMA FailedScreen ==
    ASSUME ScreenInv, NEW c \in sent, Screen!Failed(c) PROVE ScreenInv' /\ UNCHANGED secret
<1>1. /\ numbered' \in Nat /\ numbered <= numbered'
      /\ \A d \in sent' : d.id \in Nat /\ d.id <= numbered'
      /\ \A d \in sent' : d.op \in Mints => d \in sent
  BY AfterAnswer DEF Screen!Failed
<1> QED
  BY <1>1 DEF Screen!Failed, ScreenInv

LEMMA UserScreen ==
    ASSUME ScreenInv, Screen!Done \/ Screen!GoIdle \/ Screen!Resume \/ Screen!Leave
    PROVE  ScreenInv' /\ (secret' = Screen!NoSecret \/ UNCHANGED secret)
  BY DEF Screen!Done, Screen!GoIdle, Screen!Resume, Screen!Leave, ScreenInv

(* Every step keeps the invariant, and puts a secret in another's place only *)
(* if it was asked for before that one appeared.                             *)
LEMMA ScreenStep ==
    ScreenInv /\ Screen!Next =>
        /\ ScreenInv'
        /\ secret # Screen!NoSecret /\ secret'.call \notin {0, secret.call} =>
              secret'.call <= secret.over
<1> SUFFICES ASSUME ScreenInv, Screen!Next
             PROVE  /\ ScreenInv'
                    /\ secret # Screen!NoSecret /\ secret'.call \notin {0, secret.call} =>
                          secret'.call <= secret.over
  OBVIOUS
<1>1. Screen!NoSecret.call = 0
  BY DEF Screen!NoSecret
<1>2. CASE \/ Screen!Load \/ Screen!OpenDialog \/ Screen!CloseDialog
           \/ \E t \in Tokens : Screen!RefreshToken(t)
           \/ \E scope \in {"none", "project", "environment"}, p \in Project \union {Blank} :
                  Screen!Choose(scope, p)
           \/ Screen!SubmitCreate \/ Screen!SubmitRotate \/ Screen!ConfirmRevoke
           \/ Screen!ApplyRepairs
  <2>1. ScreenInv'
    BY <1>2, LoadScreen, OpenScreen, CloseScreen, RefreshScreen, ChooseScreen, SubmitScreen
  <2>2. UNCHANGED secret
    BY <1>2 DEF Screen!Load, Screen!OpenDialog, Screen!CloseDialog, Screen!RefreshToken,
       Screen!Choose, Screen!SubmitCreate, Screen!SubmitRotate, Screen!ConfirmRevoke,
       Screen!ApplyRepairs
  <2> QED
    BY <2>1, <2>2
<1>3. CASE \E c \in sent : Screen!Answer(c)
  BY <1>3, AnswerScreen
<1>4. CASE \E c \in sent : Screen!Failed(c)
  BY <1>4, FailedScreen
<1>5. CASE Screen!Done \/ Screen!GoIdle \/ Screen!Resume \/ Screen!Leave
  BY <1>1, <1>5, UserScreen
<1> QED
  BY <1>2, <1>3, <1>4, <1>5 DEF Screen!Next

LEMMA ScreenAnswers == ScreenInv => Screen!SecretsAreWiped /\ Screen!EnvironmentsBelong
  BY DEF ScreenInv, Screen!SecretsAreWiped, Screen!EnvironmentsBelong

-----------------------------------------------------------------------------
(* The import of a file. *)

(* What importing the text t does to the keys that are there.                *)
PlanOf(t, rep) ==
    [added |-> t.keys \ keys, changed |-> t.keys \cap keys,
     removed |-> IF rep THEN keys \ t.keys ELSE {}]

PageInv ==
    /\ revision \in Nat /\ known \in Nat /\ known <= revision
    /\ \A r \in {"save", "import"} :
           reading[r].state = "read" => reading[r].rev \in Nat /\ reading[r].rev <= revision
    /\ DOMAIN reading = {"save", "import"}

(* A preview that nothing has loosened is right while the page's revision is *)
(* the server's.                                                             *)
PreviewInv ==
    preview # Blank =>
        /\ DOMAIN preview = {"diff", "loose"} /\ preview.loose \in BOOLEAN
        /\ ~preview.loose /\ known = revision => preview.diff = PlanOf(previewed, replace)

RequestFields ==
    {"state", "dry", "format", "text", "replace", "expected", "diff", "promised", "loose"}

DryInv ==
    ~request.loose =>
        /\ request.text = draft /\ request.replace = replace /\ draft # Dialog!NoText
        /\ request.state = "answered" /\ known = revision =>
               request.diff = PlanOf(draft, replace)

WriteInv ==
    /\ request.expected \in Nat /\ request.expected <= revision
    /\ ~request.promised.loose =>
           /\ request.state = "sent" /\ request.expected = revision =>
                  request.promised.diff = PlanOf(request.text, request.replace)
           /\ request.state = "answered" => request.diff = request.promised.diff

RequestInv ==
    request # Blank =>
        \/ request.state = "refreshing" /\ request.dry = FALSE
        \/ /\ DOMAIN request = RequestFields
           /\ request.state \in {"sent", "answered", "refused"}
           /\ request.dry \in BOOLEAN /\ request.loose \in BOOLEAN
           /\ request.dry => DryInv
           /\ ~request.dry => WriteInv

ImportInv == PageInv /\ PreviewInv /\ RequestInv

LEMMA ImportInit == Dialog!Init => ImportInv
  BY DEF Dialog!Init, Dialog!Asked, Dialog!Quiet, ImportInv, PageInv, PreviewInv, RequestInv

LEMMA ImportStill == ImportInv /\ UNCHANGED dialog => ImportInv'
<1> SUFFICES ASSUME ImportInv, UNCHANGED dialog PROVE ImportInv'
  OBVIOUS
<1> USE DEF dialog
<1>1. PageInv'
  BY DEF ImportInv, PageInv
<1>2. PreviewInv'
  BY DEF ImportInv, PreviewInv, PlanOf
<1>3. RequestInv'
  BY DEF ImportInv, RequestInv, DryInv, WriteInv, PlanOf
<1> QED
  BY <1>1, <1>2, <1>3 DEF ImportInv

(* Steps in which the server stands still.                                   *)
LEMMA PreviewKept ==
    ASSUME ImportInv, UNCHANGED <<keys, revision>>,
           \/ preview' = Blank
           \/ UNCHANGED <<preview, previewed, replace, known>>
           \/ UNCHANGED previewed /\ preview' = Dialog!Loosened(preview)
    PROVE  PreviewInv'
<1>1. CASE preview' = Blank
  BY <1>1 DEF PreviewInv
<1>2. CASE UNCHANGED <<preview, previewed, replace, known>>
  BY <1>2 DEF ImportInv, PreviewInv, PlanOf
<1>3. CASE preview # Blank /\ preview' = Dialog!Loosened(preview)
  <2>1. DOMAIN preview' = {"diff", "loose"} /\ preview'.loose = TRUE
    BY <1>3 DEF Dialog!Loosened, ImportInv, PreviewInv
  <2> QED
    BY <2>1 DEF PreviewInv
<1>4. CASE preview = Blank /\ preview' = Dialog!Loosened(preview)
  BY <1>4 DEF Dialog!Loosened, PreviewInv
<1> QED
  BY <1>1, <1>2, <1>3, <1>4

LEMMA RequestKept ==
    ASSUME ImportInv, UNCHANGED <<keys, revision>>,
           \/ UNCHANGED <<request, draft, replace, known>>
           \/ request' = Dialog!LoosenedRequest
    PROVE  RequestInv'
<1>1. CASE UNCHANGED <<request, draft, replace, known>>
  BY <1>1 DEF ImportInv, RequestInv, DryInv, WriteInv, PlanOf
<1>2. CASE request' = Dialog!LoosenedRequest /\ (request = Blank \/ ~request.dry)
  <2>1. request' = request
    BY <1>2 DEF Dialog!LoosenedRequest
  <2>2. CASE request = Blank
    BY <2>1, <2>2 DEF RequestInv
  <2>3. CASE request # Blank /\ ~request.dry
    BY <2>1, <2>3 DEF ImportInv, RequestInv, WriteInv, PlanOf
  <2> QED
    BY <1>2, <2>2, <2>3
<1>3. CASE request' = Dialog!LoosenedRequest /\ request # Blank /\ request.dry
  <2>1. /\ DOMAIN request = RequestFields /\ request.dry = TRUE
        /\ request.state \in {"sent", "answered", "refused"}
    BY <1>3 DEF ImportInv, RequestInv
  <2>2. request' = [request EXCEPT !.loose = TRUE]
    BY <1>3 DEF Dialog!LoosenedRequest
  <2>3. /\ DOMAIN request' = RequestFields /\ request'.state = request.state
        /\ request'.dry = TRUE /\ request'.loose = TRUE
    BY <2>1, <2>2 DEF RequestFields
  <2> QED
    BY <2>1, <2>3 DEF RequestInv, DryInv
<1> QED
  BY <1>1, <1>2, <1>3

LEMMA EditRequest ==
    ASSUME ImportInv, NEW t, Dialog!Edit(t), UNCHANGED <<keys, revision, known>>,
           UNCHANGED replace \/ t = Dialog!NoText
    PROVE  RequestInv'
<1>1. CASE t # draft
  BY <1>1, RequestKept DEF Dialog!Edit
<1>2. CASE t = draft /\ UNCHANGED replace
  BY <1>2, RequestKept DEF Dialog!Edit
<1>3. CASE t = draft /\ t = Dialog!NoText
  <2>1. request' = request /\ draft' = draft
    BY <1>3 DEF Dialog!Edit
  <2>2. CASE request = Blank
    BY <2>1, <2>2 DEF RequestInv
  <2>3. CASE request # Blank /\ request.state = "refreshing" /\ request.dry = FALSE
    BY <2>1, <2>3 DEF RequestInv
  <2>4. CASE request # Blank /\ request.dry = TRUE /\ DOMAIN request = RequestFields
    <3>1. request.loose = TRUE /\ request.state \in {"sent", "answered", "refused"}
      BY <1>3, <2>4 DEF ImportInv, RequestInv, DryInv
    <3> QED
      BY <2>1, <2>4, <3>1 DEF RequestInv, DryInv
  <2>5. CASE request # Blank /\ request.dry = FALSE
    BY <2>1, <2>5 DEF ImportInv, RequestInv, WriteInv, PlanOf
  <2> QED
    BY <2>2, <2>3, <2>4, <2>5 DEF ImportInv, RequestInv
<1> QED
  BY <1>1, <1>2, <1>3

LEMMA FormImport ==
    ASSUME ImportInv,
           \/ Dialog!OpenDialog \/ Dialog!CloseDialog \/ Dialog!Switch
           \/ \E t : Dialog!Type(t) \/ Dialog!ChooseFile(t)
    PROVE  ImportInv'
<1>1. UNCHANGED <<keys, revision, known, reading>>
  BY DEF Dialog!OpenDialog, Dialog!CloseDialog, Dialog!Switch, Dialog!Type, Dialog!ChooseFile,
         Dialog!server
<1>2. PageInv'
  BY <1>1 DEF ImportInv, PageInv
<1>3. CASE Dialog!OpenDialog
  BY <1>1, <1>2, <1>3, PreviewKept, RequestKept DEF Dialog!OpenDialog, ImportInv
<1>4. CASE Dialog!CloseDialog
  <2>1. PreviewInv'
    BY <1>1, <1>4, PreviewKept DEF Dialog!CloseDialog, Dialog!Reset
  <2>2. RequestInv'
    BY <1>1, <1>4, EditRequest DEF Dialog!CloseDialog, Dialog!Reset
  <2> QED
    BY <1>2, <2>1, <2>2 DEF ImportInv
<1>5. CASE Dialog!Switch
  <2>1. PreviewInv'
    BY <1>1, <1>5, PreviewKept DEF Dialog!Switch
  <2>2. RequestInv'
    BY <1>1, <1>5, RequestKept DEF Dialog!Switch
  <2> QED
    BY <1>2, <2>1, <2>2 DEF ImportInv
<1>6. ASSUME NEW t, Dialog!Type(t) PROVE ImportInv'
  <2>1. PreviewInv'
    BY <1>1, <1>6, PreviewKept DEF Dialog!Type
  <2>2. RequestInv'
    BY <1>1, <1>6, EditRequest DEF Dialog!Type
  <2> QED
    BY <1>2, <2>1, <2>2 DEF ImportInv
<1>7. ASSUME NEW t, Dialog!ChooseFile(t) PROVE ImportInv'
  <2>1. PreviewInv'
    BY <1>1, <1>7, PreviewKept DEF Dialog!ChooseFile
  <2>2. UNCHANGED replace /\ draft' = t
    BY <1>7 DEF Dialog!ChooseFile
  <2>3. (request' = request /\ t = draft) \/ request' = Dialog!LoosenedRequest
    BY <1>7 DEF Dialog!ChooseFile
  <2>4. RequestInv'
    BY <1>1, <2>2, <2>3, RequestKept
  <2> QED
    BY <1>2, <2>1, <2>4 DEF ImportInv
<1> QED
  BY <1>3, <1>4, <1>5, <1>6, <1>7

LEMMA RunImport ==
    ASSUME ImportInv, Dialog!Preview \/ Dialog!Apply
    PROVE  ImportInv'
<1>1. PICK dry \in BOOLEAN :
          /\ Dialog!Run(dry)
          /\ dry => draft # Dialog!NoText
          /\ ~dry => preview # Blank /\ previewed = draft
  BY DEF Dialog!Preview, Dialog!Apply, Dialog!stale
<1>2. UNCHANGED <<keys, revision, known, reading, draft, preview, previewed, replace>>
  BY <1>1 DEF Dialog!Run, Dialog!server, Dialog!form
<1>3. PageInv'
  BY <1>2 DEF ImportInv, PageInv
<1>4. PreviewInv'
  BY <1>2, PreviewKept
<1>5. /\ DOMAIN request' = RequestFields /\ request'.state = "sent" /\ request'.dry = dry
      /\ request'.text = draft /\ request'.replace = replace /\ request'.loose = FALSE
      /\ request'.expected = (IF dry THEN 0 ELSE known)
      /\ request'.promised = (IF dry THEN Blank ELSE preview)
  BY <1>1 DEF Dialog!Run, RequestFields
<1>6. ASSUME dry PROVE RequestInv'
  BY <1>1, <1>2, <1>5, <1>6 DEF RequestInv, DryInv
<1>7. ASSUME ~dry PROVE RequestInv'
  <2>1. request'.promised = preview /\ request'.expected = known
    BY <1>5, <1>7
  <2>2. ~preview.loose /\ known = revision => preview.diff = PlanOf(draft, replace)
    BY <1>1, <1>7 DEF ImportInv, PreviewInv
  <2> QED
    BY <1>2, <1>5, <1>7, <2>1, <2>2 DEF RequestInv, WriteInv, PlanOf, ImportInv, PageInv
<1> QED
  BY <1>3, <1>4, <1>6, <1>7 DEF ImportInv

(* The server: what a write does is what a preview at its revision has said. *)
LEMMA ServeImport == ImportInv /\ Dialog!Serve => ImportInv'
<1> SUFFICES ASSUME ImportInv, Dialog!Serve PROVE ImportInv'
  OBVIOUS
<1>1. /\ request # Blank /\ request.state = "sent" /\ DOMAIN request = RequestFields
      /\ request.dry \in BOOLEAN /\ request.loose \in BOOLEAN
  BY DEF Dialog!Serve, ImportInv, RequestInv
<1>2. UNCHANGED <<known, reading, draft, preview, previewed, replace>>
  BY DEF Dialog!Serve, Dialog!form
<1>3. /\ revision \in Nat /\ revision' \in Nat /\ revision <= revision'
      /\ revision' = revision => keys' = keys
  <2>1. CASE UNCHANGED <<keys, revision>>
    BY <2>1 DEF ImportInv, PageInv
  <2>2. CASE Dialog!Write(request)
    <3>1. CASE Dialog!planWrite(request) = Dialog!NoChange
      BY <2>2, <3>1 DEF Dialog!Write, Dialog!NoChange, ImportInv, PageInv
    <3>2. CASE Dialog!planWrite(request) # Dialog!NoChange
      BY <2>2, <3>2 DEF Dialog!Write, ImportInv, PageInv
    <3> QED
      BY <3>1, <3>2
  <2> QED
    BY <2>1, <2>2 DEF Dialog!Serve, Dialog!DryRun, Dialog!Refuse
<1>4. PageInv'
  BY <1>2, <1>3 DEF ImportInv, PageInv
<1>5. PreviewInv'
  BY <1>2, <1>3 DEF ImportInv, PageInv, PreviewInv, PlanOf
<1>6. Dialog!planWrite(request) = PlanOf(request.text, request.replace)
  BY DEF Dialog!planWrite, PlanOf
<1>7. ASSUME NEW state, NEW diff, Dialog!Answer(state, diff)
      PROVE  /\ DOMAIN request' = RequestFields /\ request'.state = state
             /\ request'.diff = diff
             /\ request'.dry = request.dry /\ request'.loose = request.loose
             /\ request'.text = request.text /\ request'.replace = request.replace
             /\ request'.expected = request.expected /\ request'.promised = request.promised
  BY <1>1, <1>7 DEF Dialog!Answer, RequestFields
<1>8. CASE Dialog!Refuse(request)
  <2>1. /\ DOMAIN request' = RequestFields /\ request'.state = "refused"
        /\ request'.dry = request.dry /\ request'.loose = request.loose
        /\ request'.text = request.text /\ request'.replace = request.replace
        /\ request'.expected = request.expected /\ request'.promised = request.promised
    BY <1>7, <1>8 DEF Dialog!Refuse
  <2>2. RequestInv'
    BY <1>1, <1>2, <1>3, <2>1 DEF ImportInv, PageInv, RequestInv, DryInv, WriteInv
  <2> QED
    BY <1>4, <1>5, <2>2 DEF ImportInv
<1>9. CASE request.dry /\ Dialog!DryRun(request)
  <2>1. /\ DOMAIN request' = RequestFields /\ request'.state = "answered"
        /\ request'.diff = PlanOf(request.text, request.replace)
        /\ request'.dry = TRUE /\ request'.loose = request.loose
        /\ request'.text = request.text /\ request'.replace = request.replace
    BY <1>1, <1>6, <1>7, <1>9 DEF Dialog!DryRun
  <2>2. UNCHANGED <<keys, revision>>
    BY <1>9 DEF Dialog!DryRun
  <2>3. ~request.loose => request.text = draft /\ request.replace = replace /\ draft # Dialog!NoText
    BY <1>1, <1>9 DEF ImportInv, RequestInv, DryInv
  <2>4. RequestInv'
    BY <1>1, <1>2, <2>1, <2>2, <2>3 DEF RequestInv, DryInv, PlanOf
  <2> QED
    BY <1>4, <1>5, <2>4 DEF ImportInv
<1>10. CASE ~request.dry /\ Dialog!Write(request)
  <2>1. /\ DOMAIN request' = RequestFields /\ request'.state = "answered"
        /\ request'.diff = PlanOf(request.text, request.replace)
        /\ request'.dry = FALSE /\ request'.loose = request.loose
        /\ request'.expected = request.expected /\ request'.promised = request.promised
    BY <1>1, <1>6, <1>7, <1>10 DEF Dialog!Write
  <2>2. request.expected = revision
    BY <1>10 DEF Dialog!Write
  <2>3. ~request.promised.loose =>
            request.promised.diff = PlanOf(request.text, request.replace)
    BY <1>1, <1>10, <2>2 DEF ImportInv, RequestInv, WriteInv
  <2>4. RequestInv'
    BY <1>1, <1>3, <2>1, <2>2, <2>3 DEF RequestInv, WriteInv
  <2> QED
    BY <1>4, <1>5, <2>4 DEF ImportInv
<1> QED
  BY <1>1, <1>8, <1>9, <1>10 DEF Dialog!Serve

LEMMA OthersImport ==
    ASSUME ImportInv, NEW k, Dialog!OtherWrites(k) PROVE ImportInv'
<1>1. /\ revision \in Nat /\ revision' = revision + 1
      /\ UNCHANGED <<known, reading, draft, preview, previewed, replace, request>>
  BY DEF Dialog!OtherWrites, Dialog!form, ImportInv, PageInv
<1>2. PageInv'
  BY <1>1 DEF ImportInv, PageInv
<1>3. PreviewInv'
  BY <1>1 DEF ImportInv, PageInv, PreviewInv
<1>4. RequestInv'
  BY <1>1 DEF ImportInv, PageInv, RequestInv, DryInv, WriteInv
<1> QED
  BY <1>2, <1>3, <1>4 DEF ImportInv

(* The answers, and the refreshes of the page.                               *)
LEMMA AnsweredImport ==
    ASSUME ImportInv, Dialog!Previewed \/ Dialog!Applied \/ Dialog!Failed
    PROVE  ImportInv'
<1>1. UNCHANGED <<keys, revision, known>>
  BY DEF Dialog!Previewed, Dialog!Applied, Dialog!Failed, Dialog!server
<1>2. CASE Dialog!Previewed
  <2>1. PageInv' /\ RequestInv'
    BY <1>1, <1>2 DEF Dialog!Previewed, ImportInv, PageInv, RequestInv
  <2>2. /\ request.dry = TRUE /\ request.state = "answered" /\ request.loose \in BOOLEAN
        /\ ~request.loose /\ known = revision => request.diff = PlanOf(draft, replace)
    BY <1>2 DEF Dialog!Previewed, ImportInv, RequestInv, DryInv
  <2>3. /\ DOMAIN preview' = {"diff", "loose"}
        /\ preview'.diff = request.diff /\ preview'.loose = request.loose
        /\ previewed' = draft /\ replace' = replace
    BY <1>2 DEF Dialog!Previewed
  <2>4. PreviewInv'
    BY <1>1, <2>2, <2>3 DEF PreviewInv, PlanOf
  <2> QED
    BY <2>1, <2>4 DEF ImportInv
<1>3. CASE Dialog!Applied
  <2>1. reading' = [reading EXCEPT !["import"] = Dialog!Asked] /\ preview' = Blank
    BY <1>3 DEF Dialog!Applied
  <2>2. PageInv'
    BY <1>1, <2>1 DEF ImportInv, PageInv, Dialog!Asked
  <2>3. RequestInv'
    BY <1>3 DEF Dialog!Applied, RequestInv
  <2> QED
    BY <2>1, <2>2, <2>3 DEF ImportInv, PreviewInv
<1>4. CASE Dialog!Failed
  <2>1. UNCHANGED <<reading, preview, previewed, replace>> /\ request' = Blank
    BY <1>4 DEF Dialog!Failed, Dialog!form
  <2>2. PageInv' /\ RequestInv'
    BY <1>1, <2>1 DEF ImportInv, PageInv, RequestInv
  <2>3. PreviewInv'
    BY <1>1, <2>1, PreviewKept
  <2> QED
    BY <2>2, <2>3 DEF ImportInv
<1> QED
  BY <1>2, <1>3, <1>4

LEMMA GetImport ==
    ASSUME ImportInv, NEW r \in {"save", "import"}, Dialog!GetEnvironment(r) PROVE ImportInv'
<1>1. /\ UNCHANGED <<keys, revision, known, draft, preview, previewed, replace, request>>
      /\ reading' = [reading EXCEPT ![r] = [state |-> "read", rev |-> revision]]
  BY DEF Dialog!GetEnvironment, Dialog!server, Dialog!form
<1>2. PageInv'
  BY <1>1 DEF ImportInv, PageInv
<1> QED
  BY <1>1, <1>2, PreviewKept, RequestKept DEF ImportInv

LEMMA EndImport ==
    ASSUME ImportInv, NEW r \in {"save", "import"}, Dialog!EndRefresh(r) PROVE ImportInv'
<1>1. /\ UNCHANGED <<keys, revision, draft, previewed, replace>>
      /\ reading' = [reading EXCEPT ![r] = Dialog!Quiet]
  BY DEF Dialog!EndRefresh, Dialog!server
<1>2. PageInv'
  <2>1. known' \in Nat /\ known' <= revision
    BY DEF Dialog!EndRefresh, ImportInv, PageInv
  <2>2. \A q \in {"save", "import"} : reading'[q] \in {reading[q], Dialog!Quiet}
    BY <1>1 DEF ImportInv, PageInv
  <2>3. Dialog!Quiet.state # "read"
    BY DEF Dialog!Quiet
  <2> QED
    BY <1>1, <2>1, <2>2, <2>3 DEF ImportInv, PageInv
<1>3. \/ UNCHANGED <<preview, known>>
      \/ preview' = Dialog!Loosened(preview)
  BY DEF Dialog!EndRefresh
<1>4. PreviewInv'
  BY <1>1, <1>3, PreviewKept
<1>5. \/ request' = Blank
      \/ UNCHANGED <<request, known>>
      \/ request' = Dialog!LoosenedRequest
  BY DEF Dialog!EndRefresh
<1>6. RequestInv'
  <2>1. CASE request' = Blank
    BY <2>1 DEF RequestInv
  <2>2. CASE UNCHANGED <<request, known>> \/ request' = Dialog!LoosenedRequest
    BY <1>1, <2>2, RequestKept
  <2> QED
    BY <1>5, <2>1, <2>2
<1> QED
  BY <1>2, <1>4, <1>6 DEF ImportInv

LEMMA ImportStep == ImportInv /\ Dialog!Next => ImportInv'
  BY FormImport, RunImport, ServeImport, OthersImport, AnsweredImport, GetImport, EndImport
     DEF Dialog!Next

LEMMA ImportAnswers == ImportInv => Dialog!ImportsDoAsPreviewed
  BY DEF ImportInv, RequestInv, WriteInv, Dialog!ImportsDoAsPreviewed

-----------------------------------------------------------------------------
(* All of the scenes.  A part that is not the scene stays still.             *)

LEMMA CallsStill == CallsInv /\ UNCHANGED calls => CallsInv'
<1> SUFFICES ASSUME CallsInv, UNCHANGED calls PROVE CallsInv'
  OBVIOUS
<1>1. /\ made' = made /\ rev' = rev /\ applied' = applied /\ call' = call
      /\ flight' = flight /\ reply' = reply
  BY DEF calls
<1>2. RequestsInv /\ RequestsInv' /\ rev \in Nat /\ \A c \in Client : CallInv(c)
  BY <1>1, GoneRequests DEF CallsInv, RequestsInv
<1>3. \A c \in Client : CallInv(c)'
  BY <1>1, <1>2, Bystander
<1> QED
  BY <1>1, <1>2, <1>3 DEF CallsInv

LEMMA LoginStill == LoginInv /\ UNCHANGED login => LoginInv'
  BY DEF login, LoginInv, LoginTyped, AnswersBelong, SessionInView, WithinTheDeadline,
         Login!Ongoing, Login!Over

LEMMA RunStill == RunInv /\ UNCHANGED run => RunInv'
<1> SUFFICES ASSUME RunInv, UNCHANGED run PROVE RunInv'
  OBVIOUS
<1>1. /\ setting' = setting /\ phase' = phase /\ status' = status /\ env' = env
      /\ proc' = proc /\ job' = job /\ program' = program
  BY DEF run
<1>2. SecretsSettled' /\ SignalsSettled'
  BY <1>1 DEF RunInv, SecretsSettled, SignalsSettled, Given, Windows
<1>3. ProcessesPlaced'
  BY <1>1 DEF RunInv, ProcessesPlaced, Windows, Living
<1>4. StatusSettled'
  BY <1>1 DEF RunInv, StatusSettled, Windows
<1> QED
  BY <1>1, <1>2, <1>3, <1>4 DEF RunInv

LEMMA LineStill == LineInv /\ UNCHANGED arg => LineInv'
  BY DEF LineInv, Passes

PrkInv == CallsInv /\ LoginInv /\ RunInv /\ LineInv

LEMMA PrkStill == PrkInv /\ UNCHANGED prk => PrkInv'
  BY CallsStill, LoginStill, RunStill, LineStill DEF PrkInv, prk

LEMMA PrkStep ==
    ASSUME PrkInv,
           \/ InCalls(Calls!Next) \/ InLogin(Login!Next)
           \/ scene = "run" /\ Run!Next /\ UNCHANGED <<scene, calls, login, arg, beside>>
           \/ scene = "argument" /\ Line!Next /\ UNCHANGED <<scene, calls, login, run, beside>>
    PROVE  PrkInv' /\ UNCHANGED beside
<1>1. CASE InCalls(Calls!Next)
  BY <1>1, CallsStep, LoginStill, RunStill, LineStill DEF InCalls, PrkInv
<1>2. CASE InLogin(Login!Next)
  BY <1>2, CallsStill, LoginStep, RunStill, LineStill DEF InLogin, PrkInv
<1>3. CASE scene = "run" /\ Run!Next /\ UNCHANGED <<scene, calls, login, arg, beside>>
  BY <1>3, CallsStill, LoginStill, RunStep, LineStill DEF PrkInv
<1>4. CASE scene = "argument" /\ Line!Next /\ UNCHANGED <<scene, calls, login, run, beside>>
  BY <1>4, CallsStill, LoginStill, RunStill, LineStep DEF PrkInv
<1> QED
  BY <1>1, <1>2, <1>3, <1>4

BesideInv == LaunchInv /\ ToolInv /\ CutInv /\ PublishInv /\ ScreenInv /\ ImportInv

LEMMA BesideStill == BesideInv /\ UNCHANGED beside => BesideInv'
  BY LaunchStill, ToolStill, CutStill, PublishStill, ScreenStill, ImportStill
     DEF BesideInv, beside

LEMMA BesideStep == BesideInv /\ Beside => BesideInv'
<1> SUFFICES ASSUME BesideInv, Beside PROVE BesideInv'
  OBVIOUS
<1>1. CASE scene = "launch" /\ Shim!Next /\ UNCHANGED <<tool, cuts, release, screen, dialog>>
  BY <1>1, LaunchStep, ToolStill, CutStill, PublishStill, ScreenStill, ImportStill DEF BesideInv
<1>2. CASE scene = "mcp" /\ Tool!Next /\ UNCHANGED <<launch, cuts, release, screen, dialog>>
  BY <1>2, LaunchStill, ToolStep, CutStill, PublishStill, ScreenStill, ImportStill DEF BesideInv
<1>3. CASE scene = "cuts" /\ Cuts!Next /\ UNCHANGED <<launch, tool, release, screen, dialog>>
  BY <1>3, LaunchStill, ToolStill, CutStep, PublishStill, ScreenStill, ImportStill DEF BesideInv
<1>4. CASE scene = "release" /\ Release!Next /\ UNCHANGED <<launch, tool, cuts, screen, dialog>>
  BY <1>4, LaunchStill, ToolStill, CutStill, PublishStep, ScreenStill, ImportStill DEF BesideInv
<1>5. CASE scene = "screen" /\ Screen!Next /\ UNCHANGED <<launch, tool, cuts, release, dialog>>
  BY <1>5, LaunchStill, ToolStill, CutStill, PublishStill, ScreenStep, ImportStill DEF BesideInv
<1>6. CASE scene = "import" /\ Dialog!Next /\ UNCHANGED <<launch, tool, cuts, release, screen>>
  BY <1>6, LaunchStill, ToolStill, CutStill, PublishStill, ScreenStill, ImportStep DEF BesideInv
<1> QED
  BY <1>1, <1>2, <1>3, <1>4, <1>5, <1>6 DEF Beside

ClientsInv == PrkInv /\ BesideInv

LEMMA ClientsInit == Init => ClientsInv
<1> SUFFICES ASSUME Init PROVE ClientsInv
  OBVIOUS
<1>1. PrkInv
  BY CallsInit, LoginInit, RunInit, LineInit DEF Init, PrkInv
<1>2. BesideInv
  BY LaunchInit, ToolInit, CutInit, PublishInit, ScreenInit, ImportInit DEF Init, BesideInv
<1> QED
  BY <1>1, <1>2 DEF ClientsInv

LEMMA ClientsStep == ClientsInv /\ [Next]_vars => ClientsInv'
<1> SUFFICES ASSUME ClientsInv, [Next]_vars PROVE ClientsInv'
  OBVIOUS
<1>1. CASE Beside /\ UNCHANGED <<scene, prk>>
  BY <1>1, BesideStep, PrkStill DEF ClientsInv
<1>2. CASE UNCHANGED vars
  BY <1>2, BesideStill, PrkStill DEF ClientsInv, vars
<1>3. CASE Next /\ ~(Beside /\ UNCHANGED <<scene, prk>>)
  BY <1>3, PrkStep, BesideStill DEF ClientsInv, Next
<1> QED
  BY <1>1, <1>2, <1>3

(* What each part answers for follows from what it has under way: a client   *)
(* from its requests in flight, a login from its waits, a release from its   *)
(* jobs, a screen from what it has sent.                                     *)
THEOREM ClientsInvariant == Spec => []ClientsInv
<1> QED
  BY ClientsInit, ClientsStep, PTL DEF Spec

(* A write reported as done was done, whatever answers in prick's place; one *)
(* that is reported as refused at its first try has changed nothing and has  *)
(* nothing left on its way (prk's classify and its resend loop).             *)
THEOREM OutcomesAreTrueAlways == Spec => []OutcomesAreTrue
<1>1. ClientsInv => OutcomesAreTrue
  BY CallsAnswer DEF ClientsInv, PrkInv, OutcomesAreTrue
<1> QED
  BY <1>1, ClientsInvariant, PTL

(* A request that mints a credential, or that names a revision, changes the  *)
(* server at most once, however often it is resent, lost or late.            *)
THEOREM RequestsAppliedOnce == Spec => AppliedOnce
<1>1. ClientsInv /\ [Next]_vars =>
         [\A r \in flight :
             /\ r.effect \in {"mint", "guarded"}
             /\ applied'[r.client][r.number] # applied[r.client][r.number]
             => applied[r.client][r.number] = 0]_(Calls!vars)
  <2> SUFFICES ASSUME ClientsInv, [Next]_vars, ~UNCHANGED Calls!vars,
                      NEW r \in flight, r.effect \in {"mint", "guarded"},
                      applied'[r.client][r.number] # applied[r.client][r.number]
               PROVE  applied[r.client][r.number] = 0
    OBVIOUS
  <2>1. UNCHANGED calls => UNCHANGED Calls!vars
    BY DEF calls, Calls!vars
  <2>2. Calls!Next
    BY <2>1 DEF Next, vars, prk, InCalls, InLogin
  <2> QED
    BY <2>2, AppliedStep DEF ClientsInv, PrkInv
<1> QED
  BY <1>1, ClientsInvariant, PTL DEF Spec, AppliedOnce, Calls!AppliedOnce

(* Only this login's redirect ends its wait; no session that it opens is     *)
(* forgotten; and it times out at its deadline, not before.                  *)
THEOREM LoginsEndAsTheyShouldAlways == Spec => []LoginsEndAsTheyShould
<1>1. ClientsInv => LoginsEndAsTheyShould
  BY LoginAnswers DEF ClientsInv, PrkInv, LoginsEndAsTheyShould
<1> QED
  BY <1>1, ClientsInvariant, PTL

(* A program gets what it was to be given or is not started, does not        *)
(* outlive prk, and answers Ctrl-C itself; and an argument of any length,    *)
(* escaped for a batch file, is read back as it was given.                   *)
THEOREM ProgramsStartCleanAndEndAlways == Spec => []ProgramsStartCleanAndEnd
<1>1. ClientsInv => ProgramsStartCleanAndEnd
  BY RunAnswers, LineAnswers DEF ClientsInv, PrkInv, ProgramsStartCleanAndEnd
<1> QED
  BY <1>1, ClientsInvariant, PTL

(* The launcher ends as the program it runs, by its status or by its signal, *)
(* unless it was killed or a signal came too late to matter (bin/prk.js).    *)
THEOREM EndsAsTheProgramAlways == Spec => []EndsAsTheProgram
<1>1. ClientsInv => EndsAsTheProgram
  BY DEF ClientsInv, BesideInv, LaunchInv, EndsAsTheProgram
<1> QED
  BY <1>1, ClientsInvariant, PTL

(* With a pin, a write of the MCP server lands nowhere but at the pinned     *)
(* deployment, unless the name moved after it was seen to match; what a tool *)
(* says it did, it did; and no value or file gets out unasked.               *)
THEOREM WritesLandWhereSaidAlways == Spec => []WritesLandWhereSaid
<1>1. ClientsInv => WritesLandWhereSaid
  BY ToolAnswers DEF ClientsInv, BesideInv, WritesLandWhereSaid
<1> QED
  BY <1>1, ClientsInvariant, PTL

(* A number is released once, by as many as cut releases and whatever is     *)
(* lost on the way; and a release that is live is complete and has a tag,    *)
(* however often its workflow is rerun or stopped.                           *)
THEOREM ReleasesAreCompleteAlways == Spec => []ReleasesAreComplete
<1>1. ClientsInv => ReleasesAreComplete
  BY CutAnswers, PublishAnswers DEF ClientsInv, BesideInv, ReleasesAreComplete
<1> QED
  BY <1>1, ClientsInvariant, PTL

(* The secret on screen is the one that was asked for last, and leaves it by *)
(* its user, the idle watcher, or for one that had been asked for before; a  *)
(* grant is on an environment of the chosen project; an import does what its *)
(* preview has shown.                                                        *)
THEOREM PagesDoAsTheyShowAlways == Spec => PagesDoAsTheyShow
<1>1. ClientsInv => Screen!SecretsAreWiped /\ Screen!EnvironmentsBelong
  BY ScreenAnswers DEF ClientsInv, BesideInv
<1>2. ClientsInv => (scene = "import" => Dialog!ImportsDoAsPreviewed)
  BY ImportAnswers DEF ClientsInv, BesideInv
<1>3. ClientsInv /\ [Next]_vars =>
         [secret # Screen!NoSecret /\ secret'.call \notin {0, secret.call} =>
              secret'.call <= secret.over]_(Screen!vars)
  <2> SUFFICES ASSUME ClientsInv, [Next]_vars, ~UNCHANGED Screen!vars
               PROVE  secret # Screen!NoSecret /\ secret'.call \notin {0, secret.call} =>
                          secret'.call <= secret.over
    OBVIOUS
  <2>1. UNCHANGED screen => UNCHANGED Screen!vars
    BY DEF screen, Screen!vars
  <2>2. Screen!Next
    BY <2>1 DEF Next, vars, beside, Beside, InCalls, InLogin
  <2> QED
    BY <2>2, ScreenStep DEF ClientsInv, BesideInv
<1> QED
  BY <1>1, <1>2, <1>3, ClientsInvariant, PTL
     DEF Spec, PagesDoAsTheyShow, Screen!OnlyEarlierRequestsReplace
=============================================================================
