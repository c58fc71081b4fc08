------------------------------- MODULE SignIn -------------------------------
(* `prk login`: what is asked of the deployment, the wait for the redirect   *)
(* that a browser brings to a loopback port or an operator pastes, the       *)
(* exchange of its code for a session, and what becomes of that session.     *)
(*                                                                           *)
(* Three threads take part: the command, the thread that serves the loopback *)
(* port, and the one that reads what is pasted. Around them are a browser, a *)
(* person, the authorization server and a clock.                             *)
EXTENDS Naturals, Sequences

CONSTANTS Deadline,      \* LOGIN_TIMEOUT_SECS
          ReadTimeout,   \* READ_TIMEOUT
          MaxTime, MaxConnections, MaxBytes, MaxRetries

VARIABLES stage,     \* where the command is, or how it ended
          walk,      \* the metadata documents still to try, and what stood in the way
          loop,      \* the loopback thread
          paste,     \* the thread that reads what is pasted: off, open or ended
          channel,   \* the answers the two have sent, unread
          arrival,   \* the answer the command took, and from where
          backlog,   \* connections the loopback port has not accepted
          visits,    \* how many connections there have been
          clock,     \* since the wait began
          bytes,     \* sent by connections that never end their line
          grant,     \* the code at the authorization server
          session    \* the session it has issued

vars == <<stage, walk, loop, paste, channel, arrival, backlog, visits, clock, bytes,
          grant, session>>

threads == <<loop, paste, channel, arrival, backlog, visits, clock, bytes>>

(* What can be read at the port, or pasted: this login's redirect with its   *)
(* code, or with a refusal; the redirect of an earlier login; any other line.*)
Redirect == {"genuine", "refused", "stale"}
Line == Redirect \cup {"other"}

NoWalk == [left |-> <<>>, mitigated |-> FALSE]
Closed == [state |-> "off", quiet |-> 0, allowed |-> 0, line |-> "other"]
Nothing == [line |-> "other", source |-> "none"]

Init ==
    /\ stage = "probe"
    /\ walk = NoWalk
    /\ loop = Closed /\ paste = "off"
    /\ channel = <<>> /\ arrival = Nothing
    /\ backlog = <<>> /\ visits = 0
    /\ clock = 0 /\ bytes = 0
    /\ grant = [state |-> "none", tries |-> 0]
    /\ session = [state |-> "none", held |-> FALSE, lost |-> FALSE]

Fail(why) == stage' = why

-----------------------------------------------------------------------------
(* What the deployment says of itself.                                       *)

(* protected_resource_urls, after the address the challenge advertised.      *)
ResourceUrls(advertised) ==
    (IF advertised THEN <<"advertised">> ELSE <<>>) \o <<"path", "origin">>

(* well_known_urls: OAuth, OpenID Connect, and OpenID Connect under a path.  *)
ServerUrls == <<"oauth", "oidc", "oidc under the path">>

Probe ==
    /\ stage = "probe"
    /\ \/ \E advertised \in BOOLEAN :
             /\ stage' = "resource"
             /\ walk' = [left |-> ResourceUrls(advertised), mitigated |-> FALSE]
       \/ Fail("ManagedOAuthDisabled") /\ UNCHANGED walk
       \/ /\ stage' = "server"           \* unprotected: its own authorization server
          /\ walk' = [left |-> ServerUrls, mitigated |-> FALSE]
       \/ \E why \in {"NotPrick", "Mitigated", "Unreachable"} : Fail(why) /\ UNCHANGED walk
    /\ UNCHANGED <<threads, grant, session>>

(* One document after another; the first that is usable ends the walk, and   *)
(* one that the edge withheld is remembered while the walk goes on.          *)
Walked(onGood, refusals) ==
    \/ /\ walk.left # <<>>
       /\ \/ onGood
          \/ \E withheld \in BOOLEAN :
                /\ walk' = [left |-> Tail(walk.left),
                            mitigated |-> walk.mitigated \/ withheld]
                /\ UNCHANGED stage
          \/ refusals # {} /\ (\E why \in refusals : Fail(why)) /\ UNCHANGED walk
    \/ /\ walk.left = <<>>
       /\ Fail(IF walk.mitigated THEN "Mitigated" ELSE "Discovery")
       /\ UNCHANGED walk

ReadResource ==
    /\ stage = "resource"
    /\ Walked(/\ stage' = "server"
              /\ walk' = [left |-> ServerUrls, mitigated |-> FALSE], {})
    /\ UNCHANGED <<threads, grant, session>>

(* A document that answers and cannot be used ends the login, whatever the   *)
(* remaining ones would have said: no endpoint, not HTTPS, no S256.          *)
ReadServer ==
    /\ stage = "server"
    /\ Walked(stage' = "bind" /\ walk' = NoWalk, {"Discovery"})
    /\ UNCHANGED <<threads, grant, session>>

(* The port is bound before the client is registered: it is part of the      *)
(* redirect that is registered, and of the URL the browser is sent to.       *)
Bind ==
    /\ stage = "bind"
    /\ \/ stage' = "register"
       \/ Fail("Io")
    /\ UNCHANGED <<walk, threads, grant, session>>

Register ==
    /\ stage = "register"
    /\ \/ stage' = "open"
       \/ \E why \in {"ManagedOAuthDisabled", "Registration"} : Fail(why)
    /\ UNCHANGED <<walk, threads, grant, session>>

(* The URL is opened or printed, and the two threads start.                  *)
Open(acceptPasted) ==
    /\ stage = "open"
    /\ stage' = "wait"
    /\ loop' = [Closed EXCEPT !.state = "accepting"]
    /\ paste' = IF acceptPasted THEN "open" ELSE "off"
    /\ UNCHANGED <<walk, channel, arrival, backlog, visits, clock, bytes, grant,
                   session>>

-----------------------------------------------------------------------------
(* The browser and the person in front of it.                                *)

(* The person consents, and the authorization server issues a code.          *)
Consent ==
    /\ stage = "wait"
    /\ grant.state = "none"
    /\ grant' = [grant EXCEPT !.state = "code"]
    /\ UNCHANGED <<stage, walk, threads, session>>

CanShow(line) == line = "genuine" => grant.state = "code"

(* Something connects to the port. `silent` does not end its line.           *)
Connect(line) ==
    /\ stage = "wait"
    /\ CanShow(line)
    /\ visits < MaxConnections
    /\ visits' = visits + 1
    /\ backlog' = Append(backlog, line)
    /\ UNCHANGED <<stage, walk, loop, paste, channel, arrival, clock, bytes,
                   grant, session>>

(* A line is pasted. It is not compared with this login's state: only one    *)
(* with neither a code nor an error is refused here. Blank lines are skipped.*)
Paste(line) ==
    /\ stage = "wait"
    /\ paste = "open"
    /\ CanShow(line)
    /\ paste' = "ended"
    /\ channel' = Append(channel,
                         [line |-> IF line \in Redirect THEN line ELSE "unreadable",
                          source |-> "pasted"])
    /\ UNCHANGED <<stage, walk, loop, arrival, backlog, visits, clock, bytes,
                   grant, session>>

(* The end of the input answers nothing: the sender is dropped, no more.     *)
PasteEnds ==
    /\ stage = "wait"
    /\ paste = "open"
    /\ paste' = "ended"
    /\ UNCHANGED <<stage, walk, loop, channel, arrival, backlog, visits, clock,
                   bytes, grant, session>>

-----------------------------------------------------------------------------
(* The loopback thread.                                                      *)

Remaining == IF clock < Deadline THEN Deadline - clock ELSE 0

Accept ==
    /\ stage = "wait"
    /\ loop.state = "accepting"
    /\ Remaining > 0
    /\ backlog # <<>>
    /\ loop' = [state |-> "reading", quiet |-> 0, line |-> Head(backlog),
                allowed |-> IF ReadTimeout < Remaining THEN ReadTimeout ELSE Remaining]
    /\ backlog' = Tail(backlog)
    /\ UNCHANGED <<stage, walk, paste, channel, arrival, visits, clock, bytes,
                   grant, session>>

(* The limit on a read is one of the socket: it starts again with every byte.*)
Dribble ==
    /\ loop.state = "reading" /\ loop.line = "silent"
    /\ bytes < MaxBytes
    /\ bytes' = bytes + 1
    /\ loop' = [loop EXCEPT !.quiet = 0]
    /\ UNCHANGED <<stage, walk, paste, channel, arrival, backlog, visits, clock,
                   grant, session>>

BelongsToByShape(line) == line \in Redirect

(* A redirect belongs to this login if it carries its state, with a code or  *)
(* an error. All others are answered, and the port goes on listening.        *)
BelongsTo(line) == line \in {"genuine", "refused"}

Serve ==
    /\ loop.state = "reading" /\ loop.line # "silent"
    /\ IF BelongsTo(loop.line)
       THEN /\ loop' = [loop EXCEPT !.state = "ended"]
            /\ channel' = Append(channel, [line |-> loop.line, source |-> "loopback"])
       ELSE /\ loop' = [Closed EXCEPT !.state = "accepting"]
            /\ UNCHANGED channel
    /\ UNCHANGED <<stage, walk, paste, arrival, backlog, visits, clock, bytes,
                   grant, session>>

ReadExpires ==
    /\ loop.state = "reading" /\ loop.line = "silent"
    /\ loop.quiet >= loop.allowed
    /\ loop' = [Closed EXCEPT !.state = "accepting"]
    /\ UNCHANGED <<stage, walk, paste, channel, arrival, backlog, visits, clock,
                   bytes, grant, session>>

GiveUp ==
    /\ loop.state = "accepting"
    /\ Remaining = 0
    /\ loop' = [Closed EXCEPT !.state = "ended"]
    /\ channel' = Append(channel, [line |-> "timeout", source |-> "loopback"])
    /\ UNCHANGED <<stage, walk, paste, arrival, backlog, visits, clock, bytes,
                   grant, session>>

(* Time passes only while no thread has something to do at this instant: the *)
(* work of a thread takes no time next to its timeouts.                      *)
Tick ==
    /\ stage = "wait"
    /\ clock < MaxTime
    /\ channel = <<>>
    /\ loop.state = "accepting" => backlog = <<>> /\ Remaining > 0
    /\ loop.state = "reading" => loop.line = "silent" /\ loop.quiet < loop.allowed
    /\ clock' = clock + 1
    /\ loop' = IF loop.state = "reading" THEN [loop EXCEPT !.quiet = @ + 1] ELSE loop
    /\ UNCHANGED <<stage, walk, paste, channel, arrival, backlog, visits, bytes,
                   grant, session>>

-----------------------------------------------------------------------------
(* The command takes the first answer of either thread.                      *)

(* authorization_code: the state first, then an error, then the code.        *)
Verdict(line) ==
    CASE line = "genuine" -> "exchange"
      [] line = "refused" -> "Denied"
      [] line = "stale" -> "StateMismatch"
      [] line = "timeout" -> "LoginTimeout"
      [] line = "unreadable" -> "RedirectUnreadable"

Receive ==
    /\ stage = "wait"
    /\ channel # <<>>
    /\ arrival' = Head(channel)
    /\ channel' = <<>>
    /\ stage' = Verdict(Head(channel).line)
    /\ loop' = Closed /\ paste' = "off" /\ backlog' = <<>> /\ visits' = 0 /\ clock' = 0 /\ bytes' = 0
    /\ UNCHANGED <<walk, grant, session>>

(* The token endpoint takes a code once. Client::fetch resends the exchange  *)
(* when its answer is lost, and the repeat is an invalid grant.              *)
Exchange ==
    /\ stage = "exchange"
    /\ \/ /\ grant.state = "code"
          /\ \/ /\ stage' = "check"
                /\ grant' = [grant EXCEPT !.state = "used"]
                /\ session' = [session EXCEPT !.state = "live", !.held = TRUE]
             \/ /\ grant' = [state |-> "used", tries |-> grant.tries + 1]
                /\ session' = [session EXCEPT !.state = "live", !.lost = TRUE]
                /\ IF grant.tries < MaxRetries THEN UNCHANGED stage ELSE Fail("Timeout")
       \/ /\ grant.state = "used"
          /\ Fail("AuthExpired")
          /\ UNCHANGED <<grant, session>>
       \/ /\ \E why \in {"Denied", "Discovery"} : Fail(why)
          /\ UNCHANGED <<grant, session>>
    /\ UNCHANGED <<walk, threads>>

-----------------------------------------------------------------------------
(* What `login` does with its new session: the issuer and the instance the   *)
(* profile is pinned to must be those of the session, or it is revoked.      *)
Check ==
    /\ stage = "check"
    /\ \/ stage' = "save"
       \/ stage' = "revoke"
    /\ UNCHANGED <<walk, threads, grant, session>>

Revoke ==
    /\ stage = "revoke"
    /\ Fail("Mismatch")
    /\ \/ session' = [session EXCEPT !.state = "revoked"]
       \/ session' = [session EXCEPT !.lost = TRUE]     \* the failure is a warning
    /\ UNCHANGED <<walk, threads, grant>>

(* The session is stored first, and the profile recorded after it. Neither   *)
(* failure revokes the session.                                              *)
Save ==
    /\ stage = "save"
    /\ \/ stage' = "record" /\ session' = [session EXCEPT !.state = "saved"]
       \/ Fail("Store") /\ session' = [session EXCEPT !.lost = TRUE]
    /\ UNCHANGED <<walk, threads, grant>>

Record ==
    /\ stage = "record"
    /\ \/ stage' = "done"
       \/ Fail("Profile")
    /\ UNCHANGED <<walk, threads, grant, session>>

-----------------------------------------------------------------------------
Command ==
    \/ Probe \/ ReadResource \/ ReadServer \/ Bind \/ Register
    \/ \E acceptPasted \in BOOLEAN : Open(acceptPasted)
    \/ Receive \/ Exchange \/ Check \/ Revoke \/ Save \/ Record

Loopback == Accept \/ Serve \/ ReadExpires \/ GiveUp

Outside ==
    \/ Consent \/ PasteEnds \/ Dribble
    \/ \E line \in Line \cup {"silent"} : Connect(line)
    \/ \E line \in Line : Paste(line)

Next == Command \/ Loopback \/ Outside \/ Tick

Fairness == WF_vars(Command) /\ WF_vars(Loopback) /\ WF_vars(Tick)

Spec == Init /\ [][Next]_vars

FairSpec == Spec /\ Fairness

-----------------------------------------------------------------------------
Ongoing == {"probe", "resource", "server", "bind", "register", "open", "wait", "exchange",
            "check", "revoke", "save", "record"}

Over == stage \notin Ongoing

(* Only the redirect this login is waiting for ends the wait: what else      *)
(* reaches the port is answered and forgotten, and a session comes of this   *)
(* login's own code or not at all. A login that fails on a foreign redirect  *)
(* was given one by the person at the terminal.                              *)
OnlyItsOwnRedirect ==
    /\ arrival.source = "loopback" => arrival.line \in {"genuine", "refused", "timeout"}
    /\ session.state # "none" => arrival.line = "genuine"

(* The deadline is kept: the login does not time out before it, nor does it  *)
(* wait longer -- except for a connection that has not ended its line, where *)
(* each byte it sends buys the limit of one read.                            *)
DeadlineIsKept ==
    /\ clock <= Deadline + bytes * ReadTimeout
    /\ \A i \in DOMAIN channel : channel[i].line = "timeout" => clock >= Deadline

(* A session that was issued is stored, or revoked, or was reported as lost: *)
(* with its answer, with the credential store, or with its revocation.       *)
NoSessionIsForgotten ==
    Over /\ session.state = "live" => session.lost
=============================================================================
