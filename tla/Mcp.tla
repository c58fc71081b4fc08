--------------------------------- MODULE Mcp ---------------------------------
(* The MCP server: its settings, and its tools, which an assistant calls     *)
(* concurrently. A write goes to whatever deployment answers under the       *)
(* configured name; an operator may pin the deployment it must be, and the   *)
(* server then asks for its instance id before the first write               *)
(* (packages/mcp).                                                           *)
(*                                                                           *)
(* One environment with one key in each deployment: what it holds is the     *)
(* call that wrote it, "old" or "none". A call's value has at least four     *)
(* characters: a shorter one is not looked for in an error. The files of the *)
(* machine do not change. Not modelled: which project, key or file is meant, *)
(* the reasons, the texts, and the log.                                      *)
EXTENDS Naturals, FiniteSets

CONSTANTS Deployment, \* The deployments that may answer under the name.
          Pinned,     \* The one the operator names in the pin.
          Call,       \* Tool calls.
          Settings    \* The environments and arguments the server starts with.

VARIABLES setting, \* The one it was started with.
          config,  \* What it made of it: read, or refused with an exit.
          verified,\* Whether the client has seen the pinned instance.
          behind,  \* The deployment that answers under the name.
          trail,   \* Of the name: it was seen to match, and has moved since.
          holds,   \* What the key holds in each deployment.
          call     \* The state of each call.

vars == <<setting, config, verified, behind, trail, holds, call>>

Path == {"file", "link inside", "link outside", "outside", "directory", "missing"}
Tool == {"list", "set", "delete", "get"}
Write == {"set", "delete"}

-----------------------------------------------------------------------------
(* The settings. Anything malformed refuses the start; a pin as well. Only   *)
(* the word true, or the flag, lets values be revealed.                      *)

ParseExpectInstance(raw) ==
    CASE raw = "unset" -> "none"
      [] raw \in {"id", "ID"} -> "id"
      [] OTHER -> "refused"

ParseAllowReveal(raw) == raw = "true"

BaseUrlRefused(url) ==
    url \in {"unset", "relative", "ftp", "http remote", "credentials", "query"}

LoadConfig(s) ==
    IF \/ s.unknownArgument \/ ~s.credentials
       \/ BaseUrlRefused(s.url)
       \/ s.workspace # "directory"
       \/ s.timeout \notin {"unset", "in range"}
       \/ ParseExpectInstance(s.pin) = "refused"
    THEN [state |-> "exited"]
    ELSE [state |-> "running", pin |-> ParseExpectInstance(s.pin),
          allowReveal |-> s.revealFlag \/ ParseAllowReveal(s.reveal)]

-----------------------------------------------------------------------------
(* The file of a diff, checked by its name and again with every link         *)
(* resolved.                                                                 *)

IsWithinRoot(path) == path # "outside"
RealPath(path) ==
    CASE path = "link inside" -> "file" [] path = "link outside" -> "outside" [] OTHER -> path

(* What is opened, or "refused".                                             *)
ReadLocalDotenv(path) ==
    IF IsWithinRoot(path) /\ path # "missing" /\ IsWithinRoot(RealPath(path))
       /\ RealPath(path) # "directory"
    THEN RealPath(path) ELSE "refused"

-----------------------------------------------------------------------------
(* An answer: its status, what its body is, and where it holds a value: an   *)
(* error the one its request carried, in a field of the envelope (the        *)
(* request id may be a header's), a success one that is stored, in an entry. *)
(* Also what the wire holds instead: no request, or one under way.           *)
Answer(status, body, quotes) == [status |-> status, body |-> body, quotes |-> quotes]
NoAnswer == Answer("none", "none", "no")
Out == Answer("out", "none", "no")

Idle == [tool |-> "none", at |-> "idle", opened |-> "none", wire |-> NoAnswer,
         asked |-> "none", landed |-> "none", held |-> "none", said |-> "nothing",
         quotes |-> "no"]

Init ==
    /\ setting \in Settings
    /\ config = [state |-> "unread"]
    /\ verified = FALSE
    /\ behind \in Deployment
    /\ trail = "unmatched"
    /\ holds = [d \in Deployment |-> "old"]
    /\ call = [c \in Call |-> Idle]

Start ==
    /\ config.state = "unread"
    /\ config' = LoadConfig(setting)
    /\ UNCHANGED <<setting, verified, behind, trail, holds, call>>

(* The name is given to another deployment.                                  *)
Move ==
    /\ \E d \in Deployment \ {behind} : behind' = d
    /\ trail' = IF trail = "matched" THEN "moved" ELSE trail
    /\ UNCHANGED <<setting, config, verified, holds, call>>

Running == config.state = "running"

(* A call's next request: its own, or the question who answers.              *)
Sends(c, asked) ==
    call' = [call EXCEPT ![c].at = "waiting", ![c].wire = Out, ![c].asked = asked]

(* The pin is checked before a write, until it has matched once.             *)
MustVerify == config.pin # "none" /\ ~verified

Begin(c, tool) ==
    /\ Running /\ call[c] = Idle
    /\ tool = "get" => config.allowReveal
    /\ call' = [call EXCEPT ![c] =
           [Idle EXCEPT !.tool = tool, !.at = "waiting", !.wire = Out,
                        !.asked = IF tool \in Write /\ MustVerify THEN "whoami" ELSE tool]]
    /\ UNCHANGED <<setting, config, verified, behind, trail, holds>>

(* A diff opens its file first, then lists the keys.                         *)
Diff(c, path) ==
    /\ Running /\ call[c] = Idle
    /\ LET file == ReadLocalDotenv(path)
       IN  call' = [call EXCEPT ![c] =
               [Idle EXCEPT !.tool = "list", !.opened = file,
                            !.at = IF file = "refused" THEN "over" ELSE "waiting",
                            !.wire = IF file = "refused" THEN NoAnswer ELSE Out,
                            !.asked = "list"]]
    /\ UNCHANGED <<setting, config, verified, behind, trail, holds>>

-----------------------------------------------------------------------------
(* The world outside. A request that is delivered, in time or after its      *)
(* caller gave up, is answered by the deployment now behind the name. Its    *)
(* answer may be replaced by one of the edge's, or the edge answers by       *)
(* itself.                                                                   *)

(* Only a set carries a value.                                               *)
Envelope == {"message", "hint", "code", "request id"}
Echoes(c) == {"no"} \union (IF call[c].asked = "set" THEN Envelope ELSE {})

EdgeAnswers(c) ==
    {Answer("2xx", "other json", "entry")}
    \union [status : {"2xx", "3xx", "5xx"}, body : {"html"},
            quotes : Echoes(c) \ {"message", "hint", "code"}]
    \union [status : {"3xx", "5xx"}, body : {"envelope"}, quotes : Echoes(c)]

Changed(c) ==
    CASE call[c].tool = "set" -> c
      [] OTHER -> "none"

Outcome(c) ==
    CASE call[c].tool = "set" /\ holds[behind] = "none" -> "created"
      [] call[c].tool = "set" /\ holds[behind] # c -> "updated"
      [] call[c].tool = "set" -> "unchanged"
      [] call[c].tool = "delete" -> "removed"
      [] OTHER -> "read"

(* An answer reaches a call that still waits for it.                         *)
Reaches(c, answer) == IF call[c].at = "over" THEN NoAnswer ELSE answer

Deliver(c) ==
    /\ call[c].wire = Out
    /\ UNCHANGED <<setting, config, verified, behind>>
    /\ IF call[c].asked = "whoami"
       THEN /\ UNCHANGED holds
            /\ \E answer \in EdgeAnswers(c) \union {Answer("2xx", behind, "no"),
                                                Answer("2xx", "no instance", "no")} :
                   /\ call' = [call EXCEPT ![c].wire = Reaches(c, answer)]
                   /\ trail' = IF answer.body = Pinned /\ trail = "unmatched"
                               THEN "matched" ELSE trail
       ELSE /\ UNCHANGED trail
            /\ \/ /\ \E where \in Echoes(c) :
                         call' = [call EXCEPT
                             ![c].wire = Reaches(c, Answer("4xx", "refusal", where))]
                  /\ UNCHANGED holds
               \/ LET write == call[c].tool \in Write IN
                  /\ holds' = IF write THEN [holds EXCEPT ![behind] = Changed(c)] ELSE holds
                  /\ \E answer \in EdgeAnswers(c) \union {Answer("2xx", Outcome(c), "entry")} :
                         call' = [call EXCEPT
                             ![c].wire = Reaches(c, answer),
                             ![c].landed = IF write THEN behind ELSE @,
                             ![c].held = IF write THEN holds[behind] ELSE @]

Intercept(c) ==
    /\ call[c].wire = Out /\ call[c].at = "waiting"
    /\ \E answer \in EdgeAnswers(c) : call' = [call EXCEPT ![c].wire = answer]
    /\ UNCHANGED <<setting, config, verified, behind, trail, holds>>

-----------------------------------------------------------------------------
(* What a call says in the end.                                              *)

(* Where the error of a failed set still holds the value it sent: that is    *)
(* cut out of the message and the hint, and the code and the request id are  *)
(* passed on as they came. A value here has the four characters at least     *)
(* that the code asks for; a shorter one is not looked for at all.           *)
ScrubEchoedValue(answer) ==
    IF answer.quotes \in {"message", "hint"} THEN "no" ELSE answer.quotes

Says(c, said, quotes) ==
    call' = [call EXCEPT ![c].at = "over", ![c].said = said, ![c].quotes = quotes,
                         ![c].wire = IF @ = Out THEN Out ELSE NoAnswer]

(* Only the API's own envelope is quoted, and only it says the API refused.  *)
HttpError(answer) ==
    CASE answer.status = "3xx" -> "redirected"
      [] answer.body = "refusal" -> "refused"
      [] OTHER -> "failed"

(* An answer with a body that names no key and no revision is taken for a    *)
(* write that changed nothing, and for a deletion.                           *)
Concluded(c, answer) ==
    IF answer.status # "2xx" THEN Says(c, HttpError(answer), ScrubEchoedValue(answer))
    ELSE IF answer.body = "html" \/ (answer.body = "other json" /\ call[c].tool \notin Write)
         THEN Says(c, "not the API", IF answer.body = "html" THEN answer.quotes ELSE "no")
    ELSE IF answer.body = "other json" THEN Says(c, "written, without a revision", "no")
    ELSE Says(c, answer.body, IF call[c].tool = "get" THEN "value" ELSE "no")

(* The mistake of remembering that the question was asked.                   *)
VerifiedByAsking(instance) == TRUE

(* Only a match is remembered.                                               *)
VerifiedBy(instance) == verified \/ instance = Pinned

(* The answer to the pin's question. Any but a match ends the call.          *)
Verify(c, answer) ==
    IF answer.status = "2xx" /\ answer.body # "html"
    THEN /\ verified' = VerifiedBy(answer.body)
         /\ IF answer.body = Pinned THEN Sends(c, call[c].tool)
            ELSE Says(c, "mismatch: nothing was written", "no")
    ELSE UNCHANGED verified /\ Says(c, HttpError(answer), answer.quotes)

Receive(c) ==
    /\ call[c].at = "waiting" /\ call[c].wire \notin {NoAnswer, Out}
    /\ IF call[c].asked = "whoami" THEN Verify(c, call[c].wire)
       ELSE Concluded(c, call[c].wire) /\ UNCHANGED verified
    /\ UNCHANGED <<setting, config, behind, trail, holds>>

(* The deadline of a request. It may still be delivered.                     *)
Expire(c) ==
    /\ call[c].at = "waiting"
    /\ Says(c, "may or may not have been applied", "no")
    /\ UNCHANGED <<setting, config, verified, behind, trail, holds>>

(* A connection that fails, before its request is delivered or after: of     *)
(* which, fetch says nothing.                                                *)
Break(c) ==
    /\ call[c].at = "waiting"
    /\ Says(c, "could not be reached", "no")
    /\ UNCHANGED <<setting, config, verified, behind, trail, holds>>

Next ==
    \/ Start \/ Move
    \/ \E c \in Call :
           \/ \E tool \in Tool : Begin(c, tool)
           \/ \E path \in Path : Diff(c, path)
           \/ Deliver(c) \/ Intercept(c) \/ Receive(c) \/ Expire(c) \/ Break(c)

Spec == Init /\ [][Next]_vars

-----------------------------------------------------------------------------
(* With a pin, nothing is written before some answer has named the pinned    *)
(* instance, and nothing lands elsewhere unless the name moved after that:   *)
(* what is remembered of one call's answer is never a failure of it. A       *)
(* server that was asked for a pin and runs has one.                         *)
PinnedWritesLandAtHome ==
    Running /\ setting.pin # "unset" =>
        \A c \in Call : call[c].tool \in Write /\ call[c].landed # "none" =>
            IF call[c].landed = Pinned THEN trail # "unmatched" ELSE trail = "moved"

(* What a tool says of a write is so: done, with a revision, only if a       *)
(* deployment did it, and a key created only if it was not there; "nothing   *)
(* was written", and the refusal of the API, only if none did or will. A     *)
(* tool whose request timed out or whose connection failed says neither.     *)
WhatIsSaidIsSo ==
    \A c \in Call :
        /\ call[c].said \in {"created", "updated", "removed", "unchanged"} =>
               /\ call[c].landed # "none"
               /\ call[c].said = "created" => call[c].held = "none"
               /\ call[c].said = "updated" => call[c].held \notin {"none", c}
        /\ call[c].said \in {"mismatch: nothing was written", "refused"} =>
               call[c].landed = "none" /\ (call[c].wire # Out \/ call[c].asked = "whoami")

(* A stored value leaves only by the tool that reveals, on a server told to  *)
(* in so many words; the one a set submits comes back only if what answers   *)
(* put it in the code or the request id of a failure; and no file outside    *)
(* the workspace is opened.                                                  *)
ValuesAndFilesStayIn ==
    \A c \in Call :
        /\ call[c].quotes \in {"no", "value", "code", "request id"}
        /\ call[c].quotes = "value" => /\ call[c].tool = "get"
                                       /\ setting.revealFlag \/ setting.reveal = "true"
        /\ call[c].quotes \in Envelope => call[c].tool = "set"
        /\ call[c].opened # "outside"
=============================================================================
