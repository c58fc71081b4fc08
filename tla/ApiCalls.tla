------------------------------ MODULE ApiCalls ------------------------------
(* How prk talks to the server: the commands it can send, the loop that      *)
(* resends a request, and what is concluded from an answer -- or from none.  *)
(* Between a client and the Worker stands an edge that may answer itself,    *)
(* hand over the request and lose the answer, or keep the request and        *)
(* deliver it after the client has stopped waiting.                          *)
(*                                                                           *)
(* A resource stands for all that is created and removed by name, and the    *)
(* revision of an environment for all that is written.                       *)
EXTENDS Naturals, FiniteSets

CONSTANTS Client, MaxRetries, MaxCalls, MaxFaults

VARIABLES made,     \* the resource exists
          rev,      \* the environment's revision
          applied,  \* per client and command: how often it has been applied
          call,     \* per client: its command, and the try it is at
          flight,   \* requests on their way, or held by the edge
          reply,    \* per client: the answer that has reached it, or none
          faults    \* answers the edge has made up, or swallowed

vars == <<made, rev, applied, call, flight, reply, faults>>

-----------------------------------------------------------------------------
(* The commands. `document` says that the answer is read as one of prick's   *)
(* documents, `once` that the request is never resent.                       *)

Get(effect) == [effect |-> effect, document |-> TRUE, once |-> FALSE]
Post(effect) == [effect |-> effect, document |-> TRUE, once |-> FALSE]
PostResent(effect) == [effect |-> effect, document |-> TRUE, once |-> FALSE]
PostOnce(effect) == [effect |-> effect, document |-> TRUE, once |-> TRUE]
Delete(effect) == [effect |-> effect, document |-> FALSE, once |-> FALSE]

ProjectCommands == {Get("read"), Post("create"), Post("set"), Delete("remove")}
EnvironmentCommands == {Get("read"), Post("create"), Delete("remove")}
SecretReads == {Get("read")}
SecretWrites == {Post("set"), Post("guarded")}
AccessCommands == {Get("read"), Post("set"), Post("create"), Delete("remove")}
KeyringCommands == {Get("read"), Post("set")}
TokenCommands == {Get("read"), PostOnce("mint"), Post("set"), Delete("remove")}

Commands == ProjectCommands \cup EnvironmentCommands \cup SecretReads
            \cup SecretWrites \cup AccessCommands \cup KeyringCommands \cup TokenCommands

Writes(cmd) == cmd.effect # "read"

-----------------------------------------------------------------------------
(* What an answer says about itself. `own` is left out of every conclusion   *)
(* but the last: it says that the body is the document that was asked for.   *)

Answer(status, body) ==
    [status |-> status, json |-> body \in {"own", "strange", "long"},
     html |-> body = "page", empty |-> body = "empty", truncated |-> body = "long",
     own |-> body = "own", access |-> FALSE, mitigated |-> FALSE, code |-> FALSE]

NoAnswer == Answer(0, "empty")

(* What the edge, or whatever else holds the name, answers by itself.        *)
EdgeAnswers ==
    { [Answer(302, "page") EXCEPT !.access = TRUE],       \* Access: log in first
      Answer(302, "page"),
      [Answer(403, "page") EXCEPT !.mitigated = TRUE],    \* a challenge
      Answer(403, "page"),                                \* Access: denied
      Answer(401, "empty"),
      Answer(429, "page"),
      [Answer(530, "page") EXCEPT !.code = TRUE],         \* no origin
      Answer(200, "page"),                                \* a captive portal
      Answer(200, "strange") }                            \* a status page in JSON

(* What is answered in place of the Worker's answer, the work being done.    *)
LateAnswers == {Answer(502, "page"), [Answer(500, "page") EXCEPT !.code = TRUE],
                Answer(200, "long")}

-----------------------------------------------------------------------------
(* The conclusions, in the order of the code.                                *)

FromStatus(status) ==
    CASE status = 401 -> "Unauthenticated"
      [] status = 403 -> "Forbidden"
      [] status = 404 -> "NotFound"
      [] status = 409 -> "Conflict"
      [] status = 412 -> "PreconditionFailed"
      [] status = 429 -> "RateLimited"
      [] status = 503 -> "ServiceUnavailable"
      [] status >= 500 /\ status # 503 -> "ServerError"
      [] OTHER -> "Unknown"

Retryable == {"Conflict", "RateLimited", "ServerError", "ServiceUnavailable",
              "Unreachable", "Timeout"}

ClassifySizeLast(f) ==
    CASE f.status \in 300 .. 399 -> IF f.access THEN "Unauthenticated" ELSE "NotPrick"
      [] f.mitigated -> "Mitigated"
      [] f.code -> "Unreachable"
      [] f.status >= 400 /\ ~f.json -> FromStatus(f.status)
      [] f.status < 300 /\ ~f.json -> "NotPrick"
      [] OTHER -> "none"

Classify(f) ==
    CASE f.status \in 300 .. 399 -> IF f.access THEN "Unauthenticated" ELSE "NotPrick"
      [] OTHER ->
    CASE f.mitigated -> "Mitigated"
      [] ~f.mitigated /\ f.code -> "Unreachable"
      [] OTHER ->
    CASE f.status = 401 -> "Unauthenticated"
      [] f.status = 403 /\ f.html -> "Forbidden"
      [] f.status = 530 -> "Unreachable"
      [] OTHER ->
    CASE f.status >= 400 /\ ~f.json -> FromStatus(f.status)
      [] f.status < 400 /\ ~f.json -> "NotPrick"
      [] f.json /\ f.truncated -> "ResponseTooLarge"
      [] OTHER -> "none"

ResponseKind(f) ==
    IF Classify(f) # "none" THEN Classify(f)
    ELSE IF f.status >= 400 THEN FromStatus(f.status) ELSE "none"

Decode(f) ==
    IF ResponseKind(f) # "none" THEN ResponseKind(f)
    ELSE IF f.own THEN "ok" ELSE "NotPrick"

(* A request that expects no document takes an empty answer, or any JSON.    *)
RequestOk(f) ==
    IF f.status \in 200 .. 299 /\ f.empty THEN "ok"
    ELSE IF ResponseKind(f) = "none" THEN "ok" ELSE ResponseKind(f)

Outcome(cmd, f) == IF cmd.document THEN Decode(f) ELSE RequestOk(f)

-----------------------------------------------------------------------------
Idle == [cmd |-> Get("read"), busy |-> FALSE, number |-> 0, try |-> 0, seen |-> 0,
         outcome |-> "ok", foreign |-> FALSE]

Init ==
    /\ made \in BOOLEAN
    /\ rev = 0
    /\ call = [c \in Client |-> Idle]
    /\ applied = [c \in Client |-> [n \in 1 .. MaxCalls |-> 0]]
    /\ flight = {}
    /\ reply = [c \in Client |-> NoAnswer]
    /\ faults = 0

server == <<made, rev, applied>>

(* One try of a command. A guarded write names a revision read before.       *)
Request(c, k) == [client |-> c, number |-> k.number, try |-> k.try,
                  effect |-> k.cmd.effect, seen |-> k.seen]

Send(c, k) ==
    /\ call' = [call EXCEPT ![c] = k]
    /\ flight' = flight \cup {Request(c, k)}

Waiting(c) == call[c].busy /\ reply[c] = NoAnswer

Awaited(r) == Waiting(r.client) /\ r = Request(r.client, call[r.client])

Begin(c, cmd) ==
    /\ ~call[c].busy
    /\ call[c].number < MaxCalls
    /\ \E seen \in IF cmd.effect = "guarded" THEN 0 .. rev ELSE {0} :
          Send(c, [call[c] EXCEPT !.cmd = cmd, !.busy = TRUE, !.number = @ + 1,
                                  !.try = 0, !.seen = seen, !.foreign = FALSE])
    /\ UNCHANGED <<server, reply, faults>>

-----------------------------------------------------------------------------
(* The Worker, as far as a client can tell.                                  *)

Status(r) ==
    CASE r.effect = "create" /\ made -> 409
      [] r.effect = "remove" -> IF made THEN 204 ELSE 404
      [] r.effect = "guarded" /\ rev # r.seen -> 412
      [] OTHER -> 200

Changes(r) == Status(r) < 300 /\ r.effect # "read"

Effect(r) ==
    /\ flight' = flight \ {r}
    /\ IF Changes(r)
       THEN /\ made' = (r.effect = "create" \/ (made /\ r.effect # "remove"))
            /\ rev' = IF r.effect \in {"set", "guarded"} THEN rev + 1 ELSE rev
            /\ applied' = [applied EXCEPT ![r.client][r.number] = @ + 1]
       ELSE UNCHANGED server

Serve(r) ==
    /\ Awaited(r)
    /\ Effect(r)
    /\ reply' = [reply EXCEPT ![r.client] =
                    Answer(Status(r), IF Status(r) = 204 THEN "empty" ELSE "own")]
    /\ UNCHANGED <<call, faults>>

(* The work is done, and something else is answered.                         *)
ServeInVain(r) ==
    /\ faults < MaxFaults
    /\ faults' = faults + 1
    /\ Awaited(r)
    /\ Status(r) < 300
    /\ Effect(r)
    /\ \E answer \in LateAnswers : reply' = [reply EXCEPT ![r.client] = answer]
    /\ UNCHANGED call

(* A request its client has given up on reaches the Worker all the same.     *)
ServeLate(r) ==
    /\ ~Awaited(r)
    /\ Effect(r)
    /\ UNCHANGED <<call, reply, faults>>

(* The edge answers, and the Worker never sees the request.                  *)
Intercept(r) ==
    /\ faults < MaxFaults
    /\ faults' = faults + 1
    /\ Awaited(r)
    /\ flight' = flight \ {r}
    /\ \E answer \in EdgeAnswers :
          /\ reply' = [reply EXCEPT ![r.client] = answer]
          /\ call' = [call EXCEPT ![r.client].foreign = (answer.json /\ ~answer.own)]
    /\ UNCHANGED server

(* A request given up on may also never arrive.                              *)
Vanish(r) ==
    /\ ~Awaited(r)
    /\ flight' = flight \ {r}
    /\ UNCHANGED <<server, call, reply, faults>>

-----------------------------------------------------------------------------
(* The client, on having learnt `kind` of one try: it tries again, or ends   *)
(* the command with `outcome`.                                               *)
Conclude(c, kind, outcome) ==
    /\ reply' = [reply EXCEPT ![c] = NoAnswer]
    /\ IF kind \in Retryable /\ ~call[c].cmd.once /\ call[c].try < MaxRetries
       THEN Send(c, [call[c] EXCEPT !.try = @ + 1])
       ELSE /\ call' = [call EXCEPT ![c].busy = FALSE, ![c].outcome = outcome]
            /\ UNCHANGED flight

Receive(c) ==
    /\ call[c].busy /\ ~Waiting(c)
    /\ Conclude(c, ResponseKind(reply[c]), Outcome(call[c].cmd, reply[c]))
    /\ UNCHANGED <<server, faults>>

(* The deadline: the request may be anywhere.                                *)
Expire(c) ==
    /\ Waiting(c)
    /\ Conclude(c, "Timeout", "Timeout")
    /\ UNCHANGED <<server, faults>>

(* The connection breaks under a request that has been sent ...              *)
Break(c) ==
    /\ faults < MaxFaults
    /\ faults' = faults + 1
    /\ Waiting(c)
    /\ Conclude(c, "Unreachable", "Unreachable")
    /\ UNCHANGED server

(* ... or is never made, and the request stays where it was.                 *)
Refuse(c) ==
    /\ faults < MaxFaults
    /\ faults' = faults + 1
    /\ Waiting(c)
    /\ Request(c, call[c]) \in flight
    /\ \E kind \in {"Unreachable", "TlsFailure"} :
          /\ reply' = [reply EXCEPT ![c] = NoAnswer]
          /\ IF kind \in Retryable /\ ~call[c].cmd.once /\ call[c].try < MaxRetries
             THEN LET again == [call[c] EXCEPT !.try = @ + 1] IN
                  /\ call' = [call EXCEPT ![c] = again]
                  /\ flight' = (flight \ {Request(c, call[c])}) \cup {Request(c, again)}
             ELSE /\ call' = [call EXCEPT ![c].busy = FALSE, ![c].outcome = kind]
                  /\ flight' = flight \ {Request(c, call[c])}
    /\ UNCHANGED server

Next ==
    \/ \E c \in Client :
          \/ \E cmd \in Commands : Begin(c, cmd)
          \/ Receive(c) \/ Expire(c) \/ Break(c) \/ Refuse(c)
    \/ \E r \in flight :
          Serve(r) \/ ServeInVain(r) \/ ServeLate(r) \/ Intercept(r) \/ Vanish(r)

Fairness == \A c \in Client : WF_vars(Receive(c)) /\ WF_vars(Expire(c))

Spec == Init /\ [][Next]_vars

FairSpec == Spec /\ Fairness

-----------------------------------------------------------------------------
(* A request whose repeat is a second, different action -- one that mints a  *)
(* credential -- changes the server at most once, whatever is lost or late   *)
(* on the way; so does a write that names a revision, however often resent.  *)
AppliedOnce ==
    [][\A r \in flight :
          /\ r.effect \in {"mint", "guarded"}
          /\ applied'[r.client][r.number] # applied[r.client][r.number]
          => applied[r.client][r.number] = 0]_vars

Ended(c) == ~call[c].busy /\ call[c].number > 0

AppliedBy(c) == applied[c][call[c].number]

(* Nothing that answers in prick's place is taken for its success: a write   *)
(* reported as done was done. The exception is the removal, for which any    *)
(* JSON will do (Client::request_ok).                                        *)
SuccessIsTheServers ==
    \A c \in Client :
        /\ Ended(c) /\ call[c].outcome = "ok" /\ Writes(call[c].cmd)
        /\ call[c].cmd.document \/ ~call[c].foreign
        => AppliedBy(c) > 0

(* The kinds that say the server refused, or was never reached.              *)
Definite == {"Unauthenticated", "Forbidden", "NotFound", "PreconditionFailed", "Conflict",
             "RateLimited", "Mitigated", "TlsFailure", "NotPrick"}

(* A command that failed at its first try, for a reason that says nothing    *)
(* was done, has changed nothing and never will.                             *)
DefiniteFailuresChangeNothing ==
    \A c \in Client :
        Ended(c) /\ call[c].try = 0 /\ call[c].outcome \in Definite => AppliedBy(c) = 0

(* Every command ends, whatever is answered, and even if nothing is.         *)
EveryCommandEnds == \A c \in Client : call[c].busy ~> ~call[c].busy
=============================================================================
