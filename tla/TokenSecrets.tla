---------------------------- MODULE TokenSecrets ----------------------------
(***************************************************************************)
(* The secret of one service token: made with the token, rotated, kept for *)
(* a grace period, reported as leaked. Cloudflare has it; a request has it *)
(* from Cloudflare's answer to its own, hands it out once that is on       *)
(* record, and nobody else ever does. Every call is an await, so requests  *)
(* run between each other's, and what a request read of the token may have *)
(* changed when it acts on it.                                             *)
(*                                                                         *)
(* Secrets are numbered as Cloudflare makes them. Who may ask, what else   *)
(* becomes of the token, and reconcile are in ServiceTokens.               *)
(***************************************************************************)
EXTENDS Naturals, FiniteSets

CONSTANTS
    Slot,          \* request slots, each used once
    PageSize,      \* PAGE_SIZE
    MaxPages,      \* MAX_PAGES
    Ahead,         \* bound: other tokens listed before this one at the start
    Behind,        \* bound: and after it
    PerPage,       \* how many tokens Cloudflare may put on a page
    MaxSecrets,    \* bound: secrets of the token
    MaxEvents,     \* bound: what happens to it at Cloudflare
    MaxFailures    \* bound: calls that fail and requests that die

VARIABLES
    token,     \* the token at Cloudflare
    record,    \* its row of service_tokens: none, active or revoked
    trail,     \* the audit rows of its secrets
    asked,     \* what each request holds in memory
    account,   \* the other tokens of the account, around this one
    listing,   \* how far each request that lists them has come
    events,
    failures

pages == <<account, listing>>
vars == <<token, record, trail, asked, pages, events, failures>>

NoSecret == 0
Secret == 1..MaxSecrets

(* leak: no report; of the secret in force; of one that is no longer.      *)
CloudflareServiceToken ==
    [state: {"unborn", "live", "gone"}, enabled: BOOLEAN,
     leak: {"none", "current", "old"},
     secret: Secret \union {NoSecret}, previous: Secret \union {NoSecret}]

There == token.state = "live"
Works(n) == There /\ token.enabled /\ n # NoSecret /\ n \in {token.secret, token.previous}

(* A request: what it read of the row and of the token, the secret it was  *)
(* given, and its answer. `meanwhile` is what others have done to the      *)
(* token since it looked at it.                                            *)
Idle ==
    [pc |-> "idle", kind |-> "none", grace |-> FALSE, row |-> "none",
     leak |-> "none", enabled |-> TRUE, secret |-> NoSecret, old |-> NoSecret,
     warned |-> FALSE, status |-> "none", answer |-> "none", meanwhile |-> {}]

(* The page a listing reads next, how many tokens it has so far and whether *)
(* this one is among them; and whether another token has been removed from  *)
(* the account since its first page, so that the rest has moved up.         *)
Unlisted == [page |-> 1, got |-> 0, found |-> FALSE, shifted |-> FALSE]

At(s, pc) == asked[s].pc = pc
InFlight(s) == asked[s].pc \notin {"idle", "answered", "dead"}
Goto(s, pc) == asked' = [asked EXCEPT ![s].pc = pc]
Throw(s, code) ==
    asked' = [asked EXCEPT ![s].pc = "answered", ![s].answer = code, ![s].secret = NoSecret]

(* What one request does to the token, others did not see coming.          *)
Tell(s, what) ==
    [t \in Slot |-> IF t = s THEN asked[t] ELSE [asked[t] EXCEPT !.meanwhile = @ \union {what}]]

Init ==
    /\ \/ /\ token = [state |-> "unborn", enabled |-> TRUE, leak |-> "none",
                      secret |-> NoSecret, previous |-> NoSecret]
          /\ record = "none" /\ trail = {}
       \/ /\ token = [state |-> "live", enabled |-> TRUE, leak |-> "none",
                      secret |-> 1, previous |-> NoSecret]
          /\ record = "active" /\ trail = {<<"create", 1>>}
    /\ asked = [s \in Slot |-> Idle]
    /\ account \in [ahead: Ahead, behind: Behind, per: PerPage]
    /\ listing = [s \in Slot |-> Unlisted]
    /\ events = 0 /\ failures = 0

-----------------------------------------------------------------------------
(* What Cloudflare does when it is called. *)

(* A new token comes with its first secret.                                *)
Made == token' = [token EXCEPT !.state = "live", !.secret = 1]

(* The secret in force is replaced, and works on for the grace period if   *)
(* one is asked for; for a secret that has leaked there is none. The       *)
(* report of a leak may stay on the token.                                 *)
Rotatable(grace) ==
    /\ There
    /\ grace => token.leak = "none"
Rotated(grace) ==
    \E leak \in IF token.leak = "none" THEN {"none"} ELSE {"old", "none"} :
        token' = [token EXCEPT !.secret = @ + 1, !.leak = leak,
                               !.previous = IF grace THEN token.secret ELSE NoSecret]

(* A token whose secret has leaked is enabled only with another secret.    *)
Enableable == There /\ token.leak # "current"
Enabled == token' = [token EXCEPT !.enabled = TRUE]

-----------------------------------------------------------------------------
(* What is said of a token: nobody asked of Cloudflare is not nobody there. *)
ToRecord(row, live, wasAsked) ==
    IF row = "revoked" THEN "revoked" ELSE IF wasAsked /\ ~live THEN "missing" ELSE "active"

Begin(s) ==
    /\ At(s, "idle")
    /\ \/ \E grace \in BOOLEAN :
            asked' = [asked EXCEPT ![s] = [Idle EXCEPT !.pc = "row", !.kind = "rotate", !.grace = grace]]
       \/ \E kind \in {"refresh", "revoke"} :
            asked' = [asked EXCEPT ![s] = [Idle EXCEPT !.pc = "row", !.kind = kind]]
       \/ asked' = [asked EXCEPT ![s] = [Idle EXCEPT !.pc = "rows", !.kind = "list"]]
       \/ /\ token.state = "unborn"
          /\ \A t \in Slot : asked[t].kind # "create"
          /\ asked' = [asked EXCEPT ![s] = [Idle EXCEPT !.pc = "issue", !.kind = "create"]]
    /\ UNCHANGED <<token, record, trail, events, failures>>

(* requireActive: a row that is in force, or NOT_FOUND.                    *)
RequireActive(s) ==
    /\ At(s, "row")
    /\ IF record # "active" THEN Throw(s, "NOT_FOUND")
       ELSE asked' = [asked EXCEPT ![s].row = record,
                ![s].pc = CASE asked[s].kind = "rotate" -> "before"
                            [] asked[s].kind = "refresh" -> "refresh"
                            [] OTHER -> "retire"]
    /\ UNCHANGED <<token, record, trail, events, failures>>

-----------------------------------------------------------------------------
(* createServiceToken: the token, its row, and another look at it.         *)

Create(s) ==
    /\ At(s, "issue")
    /\ Made
    /\ asked' = [asked EXCEPT ![s].pc = "record", ![s].secret = 1]
    /\ UNCHANGED <<record, trail, events, failures>>

-----------------------------------------------------------------------------
(* rotateServiceToken. *)

(* Of a leaked secret nothing can be kept; its caller is told beforehand.  *)
GetBefore(s) ==
    /\ At(s, "before")
    /\ IF ~There THEN Throw(s, "NOT_FOUND")
       ELSE IF token.leak # "none" /\ asked[s].grace THEN Throw(s, "CONFLICT")
       ELSE asked' = [asked EXCEPT ![s].pc = "rotate", ![s].leak = token.leak,
                                   ![s].enabled = token.enabled, ![s].meanwhile = {}]
    /\ UNCHANGED <<token, record, trail, events, failures>>

(* Rotating says that the token should work, whoever disabled it.          *)
NeedsEnabling(r) == r.leak # "none" \/ ~r.enabled

Rotate(s) ==
    LET r == asked[s] IN
    /\ At(s, "rotate")
    /\ token.secret < MaxSecrets
    /\ IF Rotatable(r.grace)
       THEN /\ Rotated(r.grace)
            /\ asked' = [Tell(s, "rotated") EXCEPT
                            ![s].pc = IF NeedsEnabling(r) THEN "enable" ELSE "record",
                            ![s].secret = token.secret + 1, ![s].old = token.secret]
       ELSE /\ Throw(s, IF There THEN "UPSTREAM_FAILED" ELSE "NOT_FOUND")
            /\ UNCHANGED token
    /\ UNCHANGED <<record, trail, events, failures>>

(* A token that stays disabled is a warning, not an error.                 *)
Enable(s) ==
    /\ At(s, "enable")
    /\ IF Enableable THEN Enabled ELSE UNCHANGED token
    /\ asked' = [asked EXCEPT ![s].pc = "record", ![s].warned = ~Enableable]
    /\ UNCHANGED <<record, trail, events, failures>>

(* The batch, with its audit row. A rotation writes to the row whatever    *)
(* has become of it.                                                       *)
Record(s) ==
    /\ At(s, "record")
    /\ record' = IF asked[s].kind = "create" THEN "active" ELSE record
    /\ trail' = trail \union {<<asked[s].kind, asked[s].secret>>}
    /\ asked' = [asked EXCEPT ![s].pc = "look", ![s].row = "active"]
    /\ UNCHANGED <<token, events, failures>>

(* A secret that is not on record is discarded; a token that is not, is    *)
(* removed.                                                                *)
Unrecorded(s) ==
    IF asked[s].kind = "create"
    THEN asked' = [asked EXCEPT ![s].pc = "remove", ![s].secret = NoSecret]
    ELSE Throw(s, "INTERNAL")

(* liveOrNull: the answer waits for it, not on it.                         *)
Look(s) ==
    LET row == asked[s].row IN
    /\ At(s, "look")
    /\ asked' = [asked EXCEPT ![s].pc = "answered", ![s].answer = "done",
                              ![s].status = ToRecord(row, There, There)]
    /\ UNCHANGED <<token, record, trail, events, failures>>

-----------------------------------------------------------------------------
(* refreshServiceToken, revokeServiceToken and listServiceTokens. *)

(* Cloudflare extends the expiry, and says what the token now is.          *)
Refresh(s) ==
    /\ At(s, "refresh")
    /\ IF There THEN Goto(s, "audit") ELSE Throw(s, "NOT_FOUND")
    /\ UNCHANGED <<token, record, trail, events, failures>>

Audit(s) ==
    /\ At(s, "audit")
    /\ asked' = [asked EXCEPT ![s].pc = "answered", ![s].answer = "done",
                              ![s].status = ToRecord(asked[s].row, TRUE, TRUE)]
    /\ UNCHANGED <<token, record, trail, events, failures>>

(* The kill switch, which only one of two revocations throws.              *)
Retire(s) ==
    /\ At(s, "retire")
    /\ IF record = "revoked" THEN Throw(s, "NOT_FOUND") /\ UNCHANGED record
       ELSE Goto(s, "remove") /\ record' = "revoked"
    /\ UNCHANGED <<token, trail, events, failures>>

(* api.remove: what is not there is as good as removed.                    *)
Remove(s) ==
    /\ At(s, "remove")
    /\ token' = [token EXCEPT !.state = "gone"]
    /\ asked' = [Tell(s, "gone") EXCEPT ![s].pc = "answered",
                    ![s].answer = IF asked[s].kind = "create" THEN "INTERNAL" ELSE "done"]
    /\ UNCHANGED <<record, trail, events, failures>>

(* An account of n tokens is listed page by page. Cloudflare puts `per` on *)
(* a page and says some of: how many pages there are, how many tokens, how *)
(* many on a page.                                                         *)
Told == SUBSET {"total_pages", "total_count", "per_page"}
Least(a, b) == IF a < b THEN a ELSE b
Got(n, per, page) == Least(n, page * per)
MoreAfter(n, per, told, page, got, entries) ==
    CASE "total_pages" \in told -> page * per < n
      [] "total_count" \in told /\ "total_pages" \notin told -> got < n
      [] OTHER -> entries >= (IF "per_page" \in told THEN per ELSE PageSize)

(* The rows first; then what Cloudflare has.                               *)
ReadRows(s) ==
    /\ At(s, "rows")
    /\ asked' = [asked EXCEPT ![s].pc = "list", ![s].row = record]
    /\ listing' = [listing EXCEPT ![s] = Unlisted]
    /\ UNCHANGED <<token, record, trail, account, events, failures>>

(* What a listing says of the token; one that Cloudflare did not answer    *)
(* says nothing of what is there.                                          *)
Says(s, live, wasAsked) ==
    asked' = [asked EXCEPT ![s].pc = "answered", ![s].answer = "done",
                ![s].status = IF asked[s].row = "none" THEN "none"
                              ELSE ToRecord(asked[s].row, live, wasAsked)]

(* One page of api.list(), an await each: the account is not held still    *)
(* between two of them. The order of the tokens does not change.           *)
Total == account.ahead + (IF There THEN 1 ELSE 0) + account.behind
OnPage(position, page) ==
    /\ (page - 1) * account.per < position
    /\ position <= page * account.per
List(s) ==
    LET l == listing[s]
        entries == Got(Total, account.per, l.page) - Got(Total, account.per, l.page - 1)
        got == l.got + entries
        found == l.found \/ (There /\ OnPage(account.ahead + 1, l.page))
        Ends(told) ==
            ~MoreAfter(Total, account.per, told, l.page, got, entries) \/ entries = 0
        Ended == listing' = [listing EXCEPT ![s] = [Unlisted EXCEPT !.shifted = l.shifted]]
    IN
    /\ At(s, "list")
    /\ \E told \in Told :
        /\ told # {} \/ account.per = PageSize
        /\ \/ Ends(told) /\ Says(s, found, TRUE) /\ Ended
           \/ ~Ends(told) /\ l.page = MaxPages /\ Says(s, FALSE, FALSE) /\ Ended
           \/ /\ ~Ends(told) /\ l.page < MaxPages
              /\ listing' = [listing EXCEPT ![s].page = l.page + 1, ![s].got = got,
                                            ![s].found = found]
              /\ UNCHANGED asked
    /\ UNCHANGED <<token, record, trail, account, events, failures>>

(* An account that nobody touches meanwhile: how many of its tokens are    *)
(* found, or that the pages did not end.                                   *)
More(n, per, told, page) ==
    MoreAfter(n, per, told, page, Got(n, per, page), Got(n, per, page) - Got(n, per, page - 1))
LastPage(n, per, told) ==
    {page \in 1..MaxPages : \/ ~More(n, per, told, page)
                            \/ Got(n, per, page) = Got(n, per, page - 1)}
Listed(n, per, told) ==
    LET last == LastPage(n, per, told) IN
    IF last = {} THEN "malformed"
    ELSE LET page == CHOOSE p \in last : \A q \in last : p <= q
         IN IF Got(n, per, page) = n THEN "all" ELSE "some"

-----------------------------------------------------------------------------
(* What goes wrong. A call that fails had its effect or not; the client    *)
(* has five names for it, of which a listing and upstream tell refused and *)
(* not_found from the others.                                              *)

Fail(s) ==
    /\ failures < MaxFailures
    /\ failures' = failures + 1
    /\ \/ /\ asked[s].pc \in {"issue", "before", "rotate", "refresh", "list"}
          /\ \E kind \in {"refused", "other"} :
               IF kind = "other" /\ At(s, "list")
               THEN Says(s, FALSE, FALSE)
               ELSE Throw(s, IF kind = "refused" THEN "SERVICE_TOKENS_UNCONFIGURED"
                             ELSE "UPSTREAM_FAILED")
          /\ UNCHANGED <<token, record>>
       \/ /\ At(s, "enable")
          /\ asked' = [asked EXCEPT ![s].pc = "record", ![s].warned = TRUE]
          /\ UNCHANGED <<token, record>>
       \/ /\ At(s, "look")
          /\ asked' = [asked EXCEPT ![s].pc = "answered", ![s].answer = "done",
                                    ![s].status = ToRecord(asked[s].row, FALSE, FALSE)]
          /\ UNCHANGED <<token, record>>
       \/ /\ At(s, "record") /\ Unrecorded(s) /\ UNCHANGED <<token, record>>
       \/ /\ asked[s].pc \in {"row", "rows", "retire", "audit"}
          /\ Throw(s, "INTERNAL") /\ UNCHANGED <<token, record>>
       \/ /\ At(s, "remove")
          /\ Throw(s, IF asked[s].kind = "create" THEN "INTERNAL" ELSE "UPSTREAM_FAILED")
          /\ UNCHANGED <<token, record>>
    /\ UNCHANGED <<trail, events>>

(* Cloudflare did it, and its answer is lost, or is not what it should be. *)
LoseAnswer(s) ==
    /\ failures < MaxFailures
    /\ failures' = failures + 1
    /\ \/ /\ At(s, "rotate") /\ Rotatable(asked[s].grace) /\ token.secret < MaxSecrets
          /\ Rotated(asked[s].grace)
          /\ asked' = [Tell(s, "rotated") EXCEPT ![s].pc = "answered",
                                                 ![s].answer = "UPSTREAM_FAILED"]
       \/ /\ At(s, "issue") /\ Made /\ Throw(s, "UPSTREAM_FAILED")
       \/ /\ At(s, "enable") /\ Enableable /\ Enabled
          /\ asked' = [asked EXCEPT ![s].pc = "record", ![s].warned = TRUE]
    /\ UNCHANGED <<record, trail, events>>

(* The Worker is ended between two awaits.                                 *)
Die(s) ==
    /\ InFlight(s)
    /\ failures < MaxFailures
    /\ failures' = failures + 1
    /\ Goto(s, "dead")
    /\ UNCHANGED <<token, record, trail, events>>

(* At Cloudflare: a scanner finds the secret in the open, somebody uses    *)
(* the dashboard, a grace period ends.                                     *)
Happens(what) ==
    /\ events < MaxEvents
    /\ events' = events + 1
    /\ asked' = [s \in Slot |-> [asked[s] EXCEPT !.meanwhile = @ \union {what}]]
    /\ UNCHANGED <<record, trail, failures>>
Leak ==
    /\ There /\ Happens("leaked")
    /\ token' = [token EXCEPT !.leak = "current", !.enabled = FALSE]
DisableInDashboard ==
    /\ There /\ token.enabled /\ Happens("disabled")
    /\ token' = [token EXCEPT !.enabled = FALSE]
DeleteInDashboard ==
    /\ There /\ Happens("gone")
    /\ token' = [token EXCEPT !.state = "gone"]
GraceEnds ==
    /\ token.previous # NoSecret /\ Happens("grace ended")
    /\ token' = [token EXCEPT !.previous = NoSecret]

(* In the same account, other tokens are made and removed: by this Worker, *)
(* or in the dashboard. It matters while they are listed; at another time  *)
(* it only makes the account one that a list could have found at first.    *)
OthersChange(change) ==
    /\ \E s \in Slot : At(s, "list")
    /\ events < MaxEvents
    /\ events' = events + 1
    /\ account' = change
    /\ UNCHANGED <<token, record, trail, asked, failures>>
AddOther ==
    /\ \/ OthersChange([account EXCEPT !.ahead = @ + 1])
       \/ OthersChange([account EXCEPT !.behind = @ + 1])
    /\ UNCHANGED listing
RemoveOther ==
    /\ \/ account.ahead > 0 /\ OthersChange([account EXCEPT !.ahead = @ - 1])
       \/ account.behind > 0 /\ OthersChange([account EXCEPT !.behind = @ - 1])
    /\ listing' = [s \in Slot |->
            IF At(s, "list") /\ listing[s].page > 1
            THEN [listing[s] EXCEPT !.shifted = TRUE] ELSE listing[s]]

(* What happens to the token, and what becomes of a list of all of them.   *)
OneToken ==
    \/ \E s \in Slot :
        \/ Begin(s) \/ RequireActive(s) \/ Create(s)
        \/ GetBefore(s) \/ Rotate(s) \/ Enable(s) \/ Record(s) \/ Look(s)
        \/ Refresh(s) \/ Audit(s) \/ Retire(s) \/ Remove(s)
        \/ Fail(s) \/ LoseAnswer(s) \/ Die(s)
    \/ Leak \/ DisableInDashboard \/ DeleteInDashboard \/ GraceEnds
AllTokens ==
    \/ \E s \in Slot : ReadRows(s) \/ List(s)
    \/ AddOther \/ RemoveOther

Next ==
    \/ OneToken /\ UNCHANGED pages
    \/ AllTokens

Spec == Init /\ [][Next]_vars

-----------------------------------------------------------------------------
Answered(s) == asked[s].pc = "answered" /\ asked[s].answer = "done"
HandedOut(s) == Answered(s) /\ asked[s].secret # NoSecret

(* Nobody has a secret that is not on record, or that another has too; and *)
(* one handed out without a warning works, and so does the one before it   *)
(* if its caller asked for that, until somebody else does something to the *)
(* token: rotates it, removes it, disables it, or finds it leaked.         *)
HandedOutSecretsWork ==
    \A s \in Slot : HandedOut(s) =>
        LET r == asked[s] IN
        /\ <<r.kind, r.secret>> \in trail
        /\ \A t \in Slot : t # s /\ HandedOut(t) => asked[t].secret # r.secret
        /\ ~r.warned /\ r.meanwhile \subseteq {"grace ended"} => Works(r.secret)
        /\ ~r.warned /\ r.meanwhile = {} /\ r.grace => Works(r.old)

(* Whoever gets no secret because it is not on record is told what became  *)
(* of the one he has: it stopped, or it works until its grace period ends. *)
UnrecordedRotationsAreExplained ==
    \A s \in Slot :
        LET r == asked[s] IN
        r.pc = "answered" /\ r.answer = "INTERNAL" /\ r.old # NoSecret =>
            /\ ~r.grace => ~Works(r.old)
            /\ r.grace /\ ~r.warned /\ r.meanwhile = {} => Works(r.old)

(* A token that is said to be missing is not at Cloudflare, now or ever    *)
(* again, and one that is said to be revoked is that: though a row and its *)
(* token are made in two steps, and read in two. Of a list this is so only *)
(* if no other token was removed from the account between two of its       *)
(* pages, for then what follows moves up, onto a page already read.        *)
StatusesAreTrue ==
    \A s \in Slot : Answered(s) =>
        /\ asked[s].status = "missing" => listing[s].shifted \/ token.state = "gone"
        /\ asked[s].status = "revoked" => record = "revoked"

(* A listing of an account that nobody touches meanwhile is of all of it,  *)
(* or it is refused: of what Cloudflare says of its pages, any one thing   *)
(* is enough. (The state has no part in it: at the start is often enough.) *)
ListingsAreWhole ==
    asked = [s \in Slot |-> Idle] =>
        \A per \in 1..PageSize, n \in 0..(MaxPages * PageSize + 1), told \in Told :
            told # {} \/ per = PageSize =>
                /\ Listed(n, per, told) # "some"
                /\ Listed(n, per, told) = "malformed" => n >= MaxPages * per
=============================================================================
