----------------------------- MODULE ImportDialog -----------------------------
(***************************************************************************)
(* The import of a file of secrets in a browser: a preview is asked for,   *)
(* its difference shown, and the import applied, all while the text can be *)
(* edited, the dialog closed and opened again, a file chosen, an earlier   *)
(* save of the page refreshed, and other people write.                     *)
(*                                                                         *)
(* A text is the format it is in and the keys it sets; values, warnings,   *)
(* the limit on an environment's secrets, the time a file takes to be read *)
(* and the texts of failures are left out.                                 *)
(***************************************************************************)
EXTENDS Naturals

CONSTANTS Key, Nothing,
          Files,        \* the texts that are typed or chosen
          Kept,         \* the keys that are there to begin with
          MaxImports,   \* bound: requests of the dialog
          MaxWrites     \* bound: writes of other people

VARIABLES
    keys, rev, writes,       \* the environment; and the writes others have left
    seen, reading,           \* SecretsController.rev, and refreshes on their way
    open, format, replace,   \* the dialog
    text, preview, previewed,
    request, left            \* `running`; and the requests that are left

server == <<keys, rev, writes>>
form == <<open, format, replace, text, preview, previewed>>
vars == <<server, seen, reading, form, request, left>>

NoText == [as |-> "blank", keys |-> {}]
Quiet == [state |-> "no", rev |-> 0]
Asked == [state |-> "asked", rev |-> 0]

(* An earlier save of the page is still being refreshed.                   *)
Init ==
    /\ keys = Kept /\ rev = 1 /\ writes = MaxWrites
    /\ seen = 1
    /\ reading = [r \in {"save", "import"} |-> IF r = "save" THEN Asked ELSE Quiet]
    /\ open = FALSE /\ format = "env" /\ replace = FALSE
    /\ text = NoText /\ preview = Nothing /\ previewed = NoText
    /\ request = Nothing /\ left = MaxImports

-----------------------------------------------------------------------------
(* The form.  `loose` marks a preview, or the request for one, after       *)
(* something has changed that the dialog does not watch.                   *)

Loosened(p) == IF p = Nothing THEN Nothing ELSE [p EXCEPT !.loose = TRUE]
LoosenedRequest ==
    IF request # Nothing /\ request.dry THEN [request EXCEPT !.loose = TRUE] ELSE request

(* `loose` after an edit: the text of an answered preview is watched.      *)
Edit(t) ==
    /\ text' = t
    /\ request' = IF t = text THEN request ELSE LoosenedRequest

Reset ==
    /\ Edit(NoText)
    /\ preview' = Nothing /\ previewed' = NoText /\ replace' = FALSE

OpenDialog ==
    /\ ~open /\ open' = TRUE
    /\ UNCHANGED <<server, seen, reading, format, replace, text, preview, previewed,
                   request, left>>

(* Cancel, Escape or a click outside, whether a request is on its way or   *)
(* not: it is not called back, and `running` waits for it.                 *)
CloseDialog ==
    /\ open /\ open' = FALSE
    /\ Reset
    /\ UNCHANGED <<server, seen, reading, format, left>>

Type(t) ==
    /\ open /\ t # text
    /\ Edit(t)
    /\ UNCHANGED <<server, seen, reading, open, format, replace, preview, previewed,
                   left>>

Switch ==
    /\ open
    /\ \/ replace' = ~replace /\ UNCHANGED format
       \/ format' \in {"env", "json"} \ {format} /\ UNCHANGED replace
    /\ preview' = Loosened(preview) /\ request' = LoosenedRequest
    /\ UNCHANGED <<server, seen, reading, open, text, previewed, left>>

(* readFile, all at once: a file in JSON switches the format.              *)
ChooseFile(t) ==
    LET switched == t.as = "json" /\ format # "json" IN
    /\ open
    /\ text' = t
    /\ format' = IF switched THEN "json" ELSE format
    /\ preview' = Nothing
    /\ request' = IF t = text /\ ~switched THEN request ELSE LoosenedRequest
    /\ UNCHANGED <<server, seen, reading, open, replace, previewed, left>>

-----------------------------------------------------------------------------
(* The two buttons: run(true), whose revision nobody asks for, and         *)
(* run(false).                                                             *)

Run(dry) ==
    /\ open /\ request = Nothing /\ left > 0
    /\ left' = left - 1
    /\ request' = [state |-> "sent", dry |-> dry, format |-> format, text |-> text,
                   replace |-> replace, expected |-> IF dry THEN 0 ELSE seen, diff |-> Nothing,
                   promised |-> IF dry THEN Nothing ELSE preview, loose |-> FALSE]
    /\ UNCHANGED <<server, seen, reading, form>>

Preview == text # NoText /\ Run(TRUE)

stale == previewed # text
Apply == preview # Nothing /\ ~stale /\ Run(FALSE)

-----------------------------------------------------------------------------
(* importSecrets: the dry run, and the write, which is one batch.          *)

Parses(f, t) == t.as = f \/ (t = NoText /\ f = "env")

planWrite(r) ==
    [added |-> r.text.keys \ keys, changed |-> r.text.keys \cap keys,
     removed |-> IF r.replace THEN keys \ r.text.keys ELSE {}]
NoChange == [added |-> {}, changed |-> {}, removed |-> {}]

Answer(state, diff) ==
    request' = [request EXCEPT !.state = state, !.diff = diff]

DryRun(r) ==
    /\ Answer("answered", planWrite(r))
    /\ UNCHANGED <<keys, rev>>

Write(r) ==
    LET plan == planWrite(r) IN
    /\ r.expected = rev
    /\ keys' = (keys \ plan.removed) \union plan.added
    /\ rev' = IF plan = NoChange THEN rev ELSE rev + 1
    /\ Answer("answered", plan)

Refuse(r) ==
    /\ ~Parses(r.format, r.text) \/ (~r.dry /\ r.expected # rev)
    /\ Answer("refused", Nothing)
    /\ UNCHANGED <<keys, rev>>

Serve ==
    /\ request # Nothing /\ request.state = "sent"
    /\ \/ Refuse(request)
       \/ /\ Parses(request.format, request.text)
          /\ IF request.dry THEN DryRun(request) ELSE Write(request)
    /\ UNCHANGED <<writes, seen, reading, form, left>>

OtherWrites(k) ==
    /\ writes > 0 /\ writes' = writes - 1
    /\ keys' \in {keys \union {k}, keys \ {k}} /\ rev' = rev + 1
    /\ UNCHANGED <<seen, reading, form, request, left>>

-----------------------------------------------------------------------------
(* Answers. *)

(* It is the text at the answer that counts as previewed.                  *)
Previewed ==
    /\ request # Nothing /\ request.state = "answered" /\ request.dry
    /\ preview' = [diff |-> request.diff, loose |-> request.loose]
    /\ previewed' = text
    /\ request' = Nothing
    /\ UNCHANGED <<server, seen, reading, open, format, replace, text, left>>

Applied ==
    /\ request # Nothing /\ request.state = "answered" /\ ~request.dry
    /\ open' = FALSE
    /\ text' = NoText /\ preview' = Nothing /\ previewed' = NoText /\ replace' = FALSE
    /\ request' = [state |-> "refreshing", dry |-> FALSE, loose |-> FALSE]
    /\ reading' = [reading EXCEPT !["import"] = Asked]
    /\ UNCHANGED <<server, seen, format, left>>

(* A refusal, or a request or an answer that is lost: what was previewed   *)
(* stays on the screen.                                                    *)
Failed ==
    /\ request # Nothing /\ request.state # "refreshing"
    /\ request' = Nothing
    /\ UNCHANGED <<server, seen, reading, form, left>>

(* SecretsController.refresh.                                              *)
GetEnvironment(r) ==
    /\ reading[r].state = "asked"
    /\ reading' = [reading EXCEPT ![r] = [state |-> "read", rev |-> rev]]
    /\ UNCHANGED <<server, seen, form, request, left>>

EndRefresh(r) ==
    /\ reading[r].state # "no"
    /\ reading' = [reading EXCEPT ![r] = Quiet]
    /\ \/ /\ reading[r].state = "read" /\ seen' = reading[r].rev
          /\ LET moved == seen' # seen IN
             /\ preview' = IF moved THEN Loosened(preview) ELSE preview
             /\ request' = IF r = "import" THEN Nothing
                           ELSE IF moved THEN LoosenedRequest ELSE request
       \/ /\ UNCHANGED <<seen, preview>>
          /\ request' = IF r = "import" THEN Nothing ELSE request
    /\ UNCHANGED <<server, open, format, replace, text, previewed, left>>

Next ==
    \/ OpenDialog \/ CloseDialog \/ Switch
    \/ Type(NoText) \/ \E t \in Files : Type(t) \/ ChooseFile(t)
    \/ Preview \/ Apply
    \/ Serve \/ \E k \in Key : OtherWrites(k)
    \/ Previewed \/ Applied \/ Failed
    \/ \E r \in {"save", "import"} : GetEnvironment(r) \/ EndRefresh(r)

Spec == Init /\ [][Next]_vars

-----------------------------------------------------------------------------
(* "Nothing is written until you have seen the diff" (import-dialog.svelte *)
(* :147-148): an import does to the environment what its preview said it   *)
(* would, whoever has written in between and however often an answer was   *)
(* lost.  Short of what the dialog does not watch once a preview is asked  *)
(* for: the switches, the text until the answer comes, and the revision of *)
(* the page, which a refresh moves.                                        *)
ImportsDoAsPreviewed ==
    request # Nothing /\ request.state = "answered" /\ ~request.dry /\ ~request.promised.loose =>
        request.diff = request.promised.diff
=============================================================================
