----------------------------- MODULE TokenScreen -----------------------------
(***************************************************************************)
(* The screen of service tokens in a browser: one page that holds the only *)
(* copy of a secret the server will never send again, dialogs that can be  *)
(* closed and opened again while a request of theirs is on its way, and    *)
(* answers in any order.                                                   *)
(*                                                                         *)
(* A handler is one step up to its await; what follows the answer is       *)
(* another, with the effects that run before the browser is free again.    *)
(* Names, lifetimes, roles and the text of failures are left out.          *)
(***************************************************************************)
EXTENDS Naturals, FiniteSets

CONSTANTS Token, Project, Nothing,
          MaxCalls    \* bound: requests of the page

VARIABLES
    page,      \* it is open, idle (and asks to sign in again), or left
    calls,     \* requests on their way
    made,      \* how many were made
    list,      \* the call that the list on screen is from, or none
    secret,    \* the secret on screen
    rotating,  \* the dialog of a rotation: its token
    creating,  \* that of a creation: its form
    revoking,  \* that of a revocation
    comparing, \* that of reconcile
    busy       \* `saving`, `revokeBusy`, `applying`, `loading`: one of each

vars == <<page, calls, made, list, secret, rotating, creating, revoking, comparing, busy>>

NoSecret == [call |-> 0, over |-> 0]
EmptyForm == [open |-> FALSE, scope |-> "none", project |-> Nothing, listed |-> Nothing]

Init ==
    /\ page = "open"
    /\ calls = {[id |-> 1, op |-> "list", on |-> Nothing]} /\ made = 1 /\ busy = {"list"}
    /\ list = 0
    /\ secret = NoSecret
    /\ rotating = Nothing
    /\ creating = EmptyForm
    /\ revoking = [open |-> FALSE, token |-> Nothing]
    /\ comparing = [open |-> FALSE, result |-> "none"]

Asking(op, on) == [id |-> made + 1, op |-> op, on |-> on]
Send(c) == /\ made < MaxCalls
           /\ made' = c.id /\ calls' = calls \union {c}

(* The user is there, and no dialog is over the page that ignores clicks   *)
(* outside it and the Escape key.                                          *)
Free == page = "open" /\ secret = NoSecret

(* No dialog is open over the table.                                       *)
AtTable ==
    /\ Free /\ rotating = Nothing
    /\ ~creating.open /\ ~revoking.open /\ ~comparing.open

-----------------------------------------------------------------------------
(* The page: load, and what starts from the table. *)

Load ==
    /\ AtTable /\ list > 0 /\ "list" \notin busy
    /\ Send(Asking("list", Nothing)) /\ busy' = busy \union {"list"}
    /\ UNCHANGED <<page, list, secret, rotating, creating, revoking, comparing>>

RefreshToken(t) ==
    /\ AtTable /\ list > 0
    /\ Send(Asking("refresh", t))
    /\ UNCHANGED <<page, list, secret, rotating, creating, revoking, comparing, busy>>

OpenDialog ==
    /\ AtTable
    /\ \/ /\ \E t \in Token : list > 0 /\ rotating' = t
          /\ UNCHANGED <<creating, revoking, comparing, calls, made>>
       \/ /\ \E t \in Token : list > 0 /\ revoking' = [open |-> TRUE, token |-> t]
          /\ UNCHANGED <<rotating, creating, comparing, calls, made>>
       \/ /\ creating' = [EmptyForm EXCEPT !.open = TRUE]
          /\ UNCHANGED <<rotating, revoking, comparing, calls, made>>
       \/ /\ comparing' = [open |-> TRUE, result |-> "none"]
          /\ Send(Asking("check", Nothing))
          /\ UNCHANGED <<rotating, creating, revoking>>
    /\ UNCHANGED <<page, list, secret, busy>>

(* Cancel, while a request is on its way or not: the form is reset, the    *)
(* request is not called back, and `busy` waits for it.                    *)
CloseDialog ==
    /\ Free
    /\ \/ /\ rotating # Nothing /\ rotating' = Nothing
          /\ UNCHANGED <<creating, revoking, comparing>>
       \/ /\ creating.open /\ creating' = EmptyForm
          /\ UNCHANGED <<rotating, revoking, comparing>>
       \/ /\ revoking.open /\ revoking' = [revoking EXCEPT !.open = FALSE]
          /\ UNCHANGED <<rotating, creating, comparing>>
       \/ /\ comparing.open /\ comparing' = [open |-> FALSE, result |-> "none"]
          /\ UNCHANGED <<rotating, creating, revoking>>
    /\ UNCHANGED <<page, calls, made, list, secret, busy>>

-----------------------------------------------------------------------------
(* The form of a creation. *)

(* The effect on every change of scope or project: the environments on     *)
(* offer are forgotten, and fetched if the scope needs them.               *)
Choose(scope, project) ==
    LET wanted == scope = "environment" /\ project # Nothing IN
    /\ Free /\ creating.open
    /\ <<scope, project>> # <<creating.scope, creating.project>>
    /\ creating' = [creating EXCEPT !.scope = scope, !.project = project, !.listed = Nothing]
    /\ IF wanted THEN Send(Asking("environments", project)) ELSE UNCHANGED <<calls, made>>
    /\ UNCHANGED <<page, list, secret, rotating, revoking, comparing, busy>>

(* Mutation: whatever list arrives is the list.                            *)
OffersWhateverArrives(c) ==
    creating' = [creating EXCEPT !.listed = c.on]
(* A list is dropped if the project has changed since it was asked for.    *)
OffersEnvironments(c) ==
    creating' = IF creating.project = c.on THEN [creating EXCEPT !.listed = c.on] ELSE creating

(* An environment is one of those on offer.                                *)
GrantComplete ==
    CASE creating.scope \in {"none", "global"} -> TRUE
      [] creating.scope = "project" -> creating.project # Nothing
      [] OTHER -> creating.project # Nothing /\ creating.listed # Nothing

SubmitCreate ==
    /\ Free /\ creating.open /\ GrantComplete /\ "create" \notin busy
    /\ Send([Asking("create", creating.project)
                EXCEPT !.on = IF creating.scope = "environment" THEN creating.listed ELSE @])
    /\ busy' = busy \union {"create"}
    /\ UNCHANGED <<page, list, secret, rotating, creating, revoking, comparing>>

-----------------------------------------------------------------------------
(* The other dialogs. *)

SubmitRotate ==
    /\ Free /\ rotating # Nothing /\ "rotate" \notin busy
    /\ Send(Asking("rotate", rotating))
    /\ busy' = busy \union {"rotate"}
    /\ UNCHANGED <<page, list, secret, rotating, creating, revoking, comparing>>

ConfirmRevoke ==
    /\ Free /\ revoking.open /\ "revoke" \notin busy
    /\ Send(Asking("revoke", revoking.token))
    /\ busy' = busy \union {"revoke"}
    /\ UNCHANGED <<page, list, secret, rotating, creating, revoking, comparing>>

(* Repairs are offered beside differences that were found, not repaired.   *)
ApplyRepairs ==
    /\ Free /\ comparing.open /\ comparing.result = "differences" /\ "apply" \notin busy
    /\ Send(Asking("apply", Nothing))
    /\ busy' = busy \union {"apply"}
    /\ UNCHANGED <<page, list, secret, rotating, creating, revoking, comparing>>

-----------------------------------------------------------------------------
(* Answers. What a dialog does with one it does whether or not it is the   *)
(* dialog that sent it: it was closed since, perhaps, or opened for        *)
(* another token.                                                          *)

Received(c) == calls' = calls \ {c} /\ busy' = busy \ {c.op} /\ UNCHANGED made
ReceivedAndLoad(c) ==
    /\ made' = made + 1
    /\ calls' = (calls \ {c}) \union {[id |-> made + 1, op |-> "list", on |-> Nothing]}
    /\ busy' = (busy \ {c.op}) \union {"list"}

(* The secret of an answer, in place of whatever secret is on screen; an   *)
(* effect wipes it at once if the page is idle. `over` is the last request *)
(* that was made before it appeared.                                       *)
Show(c) == secret' = IF page = "idle" THEN NoSecret ELSE [call |-> c.id, over |-> made]

Answer(c) ==
    /\ page # "left" /\ c \in calls
    /\ IF c.op \in {"list", "environments", "check"} THEN Received(c) ELSE ReceivedAndLoad(c)
    /\ IF c.op \in {"create", "rotate"} THEN Show(c) ELSE UNCHANGED secret
    /\ list' = IF c.op = "list" THEN c.id ELSE list
    /\ rotating' = IF c.op = "rotate" THEN Nothing ELSE rotating
    /\ revoking' = IF c.op = "revoke" THEN [open |-> FALSE, token |-> Nothing] ELSE revoking
    /\ CASE c.op = "environments" -> OffersEnvironments(c)
         [] c.op = "create" -> creating' = EmptyForm
         [] OTHER -> UNCHANGED creating
    /\ CASE c.op = "check" -> \E result \in {"differences", "none to repair"} :
                                 comparing' = [comparing EXCEPT !.result = result]
         [] c.op = "apply" -> comparing' = [comparing EXCEPT !.result = "applied"]
         [] OTHER -> UNCHANGED comparing
    /\ UNCHANGED page

(* A request that fails is a message; the dialog is as it was, and not     *)
(* busy. A revocation reads the list again all the same.                   *)
Failed(c) ==
    /\ page # "left" /\ c \in calls
    /\ IF c.op = "revoke" THEN ReceivedAndLoad(c) ELSE Received(c)
    /\ UNCHANGED <<page, list, secret, rotating, creating, revoking, comparing>>

-----------------------------------------------------------------------------
(* "I have stored the secret".                                             *)
Done ==
    /\ page = "open" /\ secret # NoSecret /\ secret' = NoSecret
    /\ UNCHANGED <<page, calls, made, list, rotating, creating, revoking, comparing, busy>>

(* Fifteen minutes without a sign of the user: the watcher raises `idle`,  *)
(* and an effect of the panel wipes the secret.                            *)
GoIdle ==
    /\ page = "open" /\ page' = "idle" /\ secret' = NoSecret
    /\ UNCHANGED <<calls, made, list, rotating, creating, revoking, comparing, busy>>

Resume ==
    /\ page = "idle" /\ page' = "open"
    /\ UNCHANGED <<calls, made, list, secret, rotating, creating, revoking, comparing, busy>>

(* Another page: the state of this one is no more.                         *)
Leave ==
    /\ page # "left" /\ page' = "left" /\ secret' = NoSecret
    /\ calls' = {} /\ busy' = {}
    /\ UNCHANGED <<made, list, rotating, creating, revoking, comparing>>

Next ==
    \/ Load \/ OpenDialog \/ CloseDialog
    \/ \E t \in Token : RefreshToken(t)
    \/ \E scope \in {"none", "project", "environment"}, p \in Project \union {Nothing} :
            Choose(scope, p)
    \/ SubmitCreate \/ SubmitRotate \/ ConfirmRevoke \/ ApplyRepairs
    \/ \E c \in calls : Answer(c) \/ Failed(c)
    \/ Done \/ GoIdle \/ Resume \/ Leave

-----------------------------------------------------------------------------
(* Nothing wipes a secret later than the idle threshold, and no answer     *)
(* brings one to a page that is idle or gone.                              *)
SecretsAreWiped == secret # NoSecret => page = "open"

(* The panel goes when the user says so, leaves or is long away; short of  *)
(* that, only another secret takes the place of one, and only that of a    *)
(* request made before the panel appeared.                                 *)
OnlyEarlierRequestsReplace ==
    [][secret # NoSecret /\ secret'.call \notin {0, secret.call}
            => secret'.call <= secret.over]_vars

(* The environments on offer are those of the project on screen, whatever  *)
(* order the lists arrive in, so that a grant names one of its project.    *)
EnvironmentsBelong == creating.listed \in {Nothing, creating.project}
=============================================================================
