--------------------------- MODULE SecretsScreen ---------------------------
(***************************************************************************)
(* The secrets of one environment in a browser tab: the page's controller  *)
(* and the store of revealed values, which outlives the page, against a    *)
(* server that other people write to as well.                              *)
(*                                                                         *)
(* A call is sent, served and answered in three steps, so answers come in  *)
(* any order and to a page that may have gone.  A value is the revision    *)
(* that wrote it, zero for a key that is not there.  Time is abstract: the *)
(* thirty seconds of a revealed value are over when they are, and the idle *)
(* watcher wipes when it likes; its dialog then only keeps the user from   *)
(* acting.  Left out: other environments, whose values have other ids;     *)
(* imports, which refresh as a save does; unreadable rows; copies, which   *)
(* show nothing; and the clipboard.                                        *)
(***************************************************************************)
EXTENDS Naturals

CONSTANTS
    Key,
    Slot,        \* calls under way at once
    Present,     \* the keys that are there to begin with
    MaxCalls,    \* bound on the calls that the tab makes
    MaxOthers,   \* bound on the writes of other people
    None

ASSUME PresentAssumption == Present \subseteq Key /\ MaxCalls \in Nat /\ MaxOthers \in Nat

VARIABLES
    val,     \* at the server: the value of each key,
    rev,     \* the revision of the environment,
    others,  \* and the writes that other people have left
    page,    \* what is open: the secrets, their history, or something else
    view,    \* the table is loading, shown, or replaced by an error
    rows,    \* its keys
    seen,    \* and the revision it has (SecretsController.rev)
    busy,    \* keys with a request in flight
    editor,  \* the open editors, by key
    shown,   \* revealed values: each with whether its time is up
    timer,   \* whether the sweep is armed
    call,    \* calls under way
    left,    \* calls left to make
    own,     \* the last value of each key that this tab knows it has saved
    mixed    \* keys that two calls have met on with no guard between them

server == <<val, rev, others>>
screen == <<page, view, rows, seen, editor>>
store == <<shown, timer>>
vars == <<val, rev, others, page, view, rows, seen, busy, editor, shown, timer, call, left, own, mixed>>

Call ==
    [op: {"load", "reveal", "edit", "save", "add", "remove", "rename", "rollback"},
     key: Key \cup {None}, to: Key \cup {None},
     pc: {"sent", "refused", "answered", "reading"},
     mine: BOOLEAN,                \* the page that made it is still open
     expected: Nat \cup {None},    \* expected_rev
     draft: Nat \cup {None},       \* the value that its editor was opened with
     steady: BOOLEAN,              \* the page's revision has not moved since then
     got: Nat,                     \* what was answered: a value or a revision,
     rows: (SUBSET Key) \cup {None}, \* and what the reading after a write has found
     env: Nat \cup {None}]

NewCall(op, k) ==
    [op |-> op, key |-> k, to |-> None, pc |-> "sent", mine |-> TRUE, expected |-> None,
     draft |-> None, steady |-> FALSE, got |-> 0, rows |-> None, env |-> None]
LoadCall == [NewCall("load", None) EXCEPT !.pc = "reading"]

Open == [draft: Nat, at: Nat]
Revealed == [value: Nat, due: BOOLEAN]

ASSUME NoneAssumption ==
    /\ None \notin Key \cup Nat
    /\ None \notin Call \cup Open \cup Revealed

Nothing(S) == [x \in S |-> None]

Init ==
    /\ val = [k \in Key |-> IF k \in Present THEN 1 ELSE 0]
    /\ rev = 1 /\ others = MaxOthers
    /\ page = "secrets" /\ view = "shown" /\ rows = Present /\ seen = 1
    /\ busy = {} /\ editor = Nothing(Key)
    /\ shown = Nothing(Key) /\ timer = FALSE
    /\ call = Nothing(Slot) /\ left = MaxCalls
    /\ own = [k \in Key |-> 0] /\ mixed = {}
----------------------------------------------------------------------------
(* The tab makes a call. *)

Table == page = "secrets" /\ view = "shown"
Cell(k) == Table /\ k \in rows
Unguarded == {"add", "remove", "rename"}
On(k) == {s \in Slot : call[s] # None /\ k \in {call[s].key, call[s].to} \ {None}}

Send(s, c) ==
    /\ call[s] = None /\ left > 0
    /\ call' = [call EXCEPT ![s] = c]
    /\ left' = left - 1
    /\ busy' = busy \cup ({c.key} \ {None})
    /\ mixed' = mixed \cup {k \in {c.key, c.to} \ {None} :
                   \E o \in On(k) : c.op \in Unguarded \/ call[o].op \in Unguarded}
    /\ UNCHANGED <<server, screen, store, own>>

RevealKey(s, k) ==
    /\ Cell(k) /\ editor[k] = None /\ shown[k] = None
    /\ k \notin busy
    /\ Send(s, NewCall("reveal", k))

BeginEdit(s, k) ==
    /\ Cell(k) /\ editor[k] = None
    /\ k \notin busy
    /\ Send(s, [NewCall("edit", k) EXCEPT !.expected = seen])

Commits(k) ==
    /\ Cell(k) /\ editor[k] # None
    /\ ~\E s \in On(k) : call[s].op = "save" /\ call[s].mine
SaveCall(k) ==
    [NewCall("save", k) EXCEPT !.expected = seen, !.draft = editor[k].draft,
                               !.steady = (editor[k].at = seen)]
CommitUnconditionally(s, k) == Commits(k) /\ Send(s, [SaveCall(k) EXCEPT !.expected = None])
Commit(s, k) == Commits(k) /\ Send(s, SaveCall(k))

AddSecret(s, k) ==
    /\ Table /\ k \notin rows
    /\ Send(s, [NewCall("add", k) EXCEPT !.expected = seen])

Remove(s, k) ==
    /\ Cell(k)
    /\ Send(s, [NewCall("remove", k) EXCEPT !.expected = seen])

Rename(s, k, to) ==
    /\ Cell(k) /\ to \notin rows
    /\ Send(s, [NewCall("rename", k) EXCEPT !.to = to])

\* The history page has a controller of its own.
Rollback(s, k) ==
    /\ page = "history"
    /\ call[s] = None /\ left > 0
    /\ call' = [call EXCEPT ![s] = [NewCall("rollback", k) EXCEPT !.mine = FALSE]]
    /\ left' = left - 1
    /\ UNCHANGED <<server, screen, store, busy, own, mixed>>
----------------------------------------------------------------------------
(* The server. *)

Goto(s, pc) == call' = [call EXCEPT ![s].pc = pc]
Reply(s, got) == call' = [call EXCEPT ![s].pc = "answered", ![s].got = got]
tab == <<screen, busy, store, left, own, mixed>>

Conflict(c) == c.expected # None /\ c.expected # rev

ServeReveal(s) ==
    /\ call[s].op \in {"reveal", "edit"}
    /\ IF val[call[s].key] = 0 THEN Goto(s, "refused") ELSE Reply(s, val[call[s].key])
    /\ UNCHANGED <<val, rev>>

Refuses(c) ==
    \/ c.op \in {"save", "add", "remove"} /\ Conflict(c)
    \/ c.op \in {"rename", "rollback"} /\ val[c.key] = 0
    \/ c.op = "rename" /\ val[c.to] # 0

ServeWrite(s) ==
    LET c == call[s] IN
    /\ c.op \notin {"load", "reveal", "edit"}
    /\ IF Refuses(c) THEN Goto(s, "refused") /\ UNCHANGED <<val, rev>>
       ELSE IF c.op = "remove" /\ val[c.key] = 0 THEN Reply(s, rev) /\ UNCHANGED <<val, rev>>
       ELSE /\ rev' = rev + 1
            /\ val' = [k \in Key |-> IF k = c.to \/ (k = c.key /\ c.op \notin {"remove", "rename"})
                                     THEN rev + 1
                                     ELSE IF k = c.key THEN 0 ELSE val[k]]
            /\ Reply(s, rev + 1)

Serve(s) ==
    /\ call[s] # None /\ call[s].pc = "sent"
    /\ ServeReveal(s) \/ ServeWrite(s)
    /\ UNCHANGED <<others, tab>>

\* listSecrets and getEnvironment are two requests, side by side.
ListSecrets(s) ==
    /\ call[s] # None /\ call[s].pc = "reading" /\ call[s].rows = None
    /\ call' = [call EXCEPT ![s].rows = {k \in Key : val[k] # 0}]
    /\ UNCHANGED <<server, tab>>

GetEnvironment(s) ==
    /\ call[s] # None /\ call[s].pc = "reading" /\ call[s].env = None
    /\ call' = [call EXCEPT ![s].env = rev]
    /\ UNCHANGED <<server, tab>>

Other(k) ==
    /\ others > 0
    /\ others' = others - 1 /\ rev' = rev + 1
    /\ \E v \in {0, rev + 1} : v # val[k] /\ val' = [val EXCEPT ![k] = v]
    /\ UNCHANGED <<tab, call>>
----------------------------------------------------------------------------
(* Revealed values. *)

Disarm == timer' = FALSE
DisarmIfEmpty == timer' = (timer /\ \E k \in Key : shown'[k] # None)
Hide(k) == shown' = [shown EXCEPT ![k] = None] /\ DisarmIfEmpty
Wipe == shown' = Nothing(Key) /\ DisarmIfEmpty

rest == <<server, screen, busy, call, left, own, mixed>>

HideKey(k) ==
    /\ Cell(k) /\ editor[k] = None /\ k \notin busy /\ shown[k] # None
    /\ Hide(k)
    /\ UNCHANGED rest

WipeAll ==
    /\ \E k \in Key : shown[k] # None
    /\ Wipe
    /\ UNCHANGED rest

Expire(k) ==
    /\ shown[k] # None /\ ~shown[k].due
    /\ shown' = [shown EXCEPT ![k].due = TRUE]
    /\ UNCHANGED <<timer, rest>>

Sweep ==
    /\ timer /\ \E k \in Key : shown[k] # None /\ shown[k].due
    /\ shown' = [k \in Key |-> IF shown[k] # None /\ shown[k].due THEN None ELSE shown[k]]
    /\ DisarmIfEmpty
    /\ UNCHANGED rest
----------------------------------------------------------------------------
(* Answers. *)

End(s) ==
    /\ call' = [call EXCEPT ![s] = None]
    /\ busy' = IF call[s].mine THEN busy \ {call[s].key} ELSE busy

ShowValue(s) ==
    /\ call[s].op = "reveal"
    /\ shown' = [shown EXCEPT ![call[s].key] = [value |-> call[s].got, due |-> FALSE]]
    /\ timer' = TRUE
    /\ End(s)
    /\ UNCHANGED <<screen, own>>

OpenEditor(s) ==
    /\ call[s].op = "edit"
    /\ editor' = IF call[s].mine /\ call[s].key \in rows
                 THEN [editor EXCEPT ![call[s].key] = [draft |-> call[s].got, at |-> call[s].expected]]
                 ELSE editor
    /\ End(s)
    /\ UNCHANGED <<page, view, rows, seen, store, own>>

WrittenAndShown(s) ==
    LET c == call[s] IN
    /\ c.op \notin {"reveal", "edit", "load"}
    /\ seen' = IF c.mine THEN c.got ELSE seen
    /\ Goto(s, "reading")
    /\ own' = IF c.op \in {"save", "add", "rollback"} THEN [own EXCEPT ![c.key] = c.got] ELSE own
    /\ UNCHANGED <<page, view, rows, editor, busy, store>>
Written(s) ==
    LET c == call[s] IN
    /\ c.op \notin {"reveal", "edit", "load"}
    /\ seen' = IF c.mine THEN c.got ELSE seen
    /\ Hide(c.key)
    /\ Goto(s, "reading")
    /\ own' = IF c.op \in {"save", "add", "rollback"} THEN [own EXCEPT ![c.key] = c.got] ELSE own
    /\ UNCHANGED <<page, view, rows, editor, busy>>

Answer(s) ==
    /\ call[s] # None /\ call[s].pc = "answered"
    /\ ShowValue(s) \/ OpenEditor(s) \/ Written(s)
    /\ UNCHANGED <<server, left, mixed>>

\* A row that is no longer listed takes its editor with it; a save closes its own.
Refreshed(s) ==
    LET c == call[s] IN
    /\ c # None /\ c.pc = "reading" /\ c.rows # None /\ c.env # None
    /\ IF c.mine
       THEN /\ rows' = c.rows /\ seen' = c.env
            /\ view' = IF c.op = "load" THEN "shown" ELSE view
            /\ editor' = [k \in Key |-> IF k \in c.rows /\ ~(c.op = "save" /\ k = c.key)
                                        THEN editor[k] ELSE None]
       ELSE UNCHANGED <<rows, seen, view, editor>>
    /\ End(s)
    /\ UNCHANGED <<server, page, store, left, own, mixed>>

\* A refusal, or a request or an answer that is lost.
Fail(s) ==
    /\ call[s] # None
    /\ view' = IF call[s].op = "load" /\ call[s].mine THEN "error" ELSE view
    /\ End(s)
    /\ UNCHANGED <<server, page, rows, seen, editor, store, left, own, mixed>>
----------------------------------------------------------------------------
(* The page. *)

CancelEdit(k) ==
    /\ Cell(k) /\ editor[k] # None
    /\ editor' = [editor EXCEPT ![k] = None]
    /\ UNCHANGED <<server, page, view, rows, seen, busy, store, call, left, own, mixed>>

Orphaned == [s \in Slot |-> IF call[s] = None THEN None ELSE [call[s] EXCEPT !.mine = FALSE]]
Turn(to) ==
    /\ page # to
    /\ page' = to /\ rows' = {} /\ seen' = 0 /\ busy' = {} /\ editor' = Nothing(Key)
    /\ mixed' = mixed \cup {k \in Key : On(k) # {}}
    /\ UNCHANGED <<server, own>>

OpenHistory ==
    /\ Turn("history")
    /\ view' = "shown" /\ call' = Orphaned
    /\ UNCHANGED <<store, left>>

OpenSecrets(s) ==
    /\ Turn("secrets")
    /\ call[s] = None /\ left > 0
    /\ view' = "loading" /\ call' = [Orphaned EXCEPT ![s] = LoadCall] /\ left' = left - 1
    /\ UNCHANGED store

Retry(s) ==
    /\ page = "secrets" /\ view = "error"
    /\ call[s] = None /\ left > 0
    /\ view' = "loading" /\ call' = [call EXCEPT ![s] = LoadCall] /\ left' = left - 1
    /\ UNCHANGED <<server, page, rows, seen, busy, editor, store, own, mixed>>

Leave ==
    /\ Turn("away")
    /\ view' = "shown" /\ call' = Orphaned
    /\ Wipe
    /\ UNCHANGED left

User ==
    \/ \E s \in Slot, k \in Key :
          \/ RevealKey(s, k) \/ BeginEdit(s, k) \/ Commit(s, k) \/ AddSecret(s, k)
          \/ Remove(s, k) \/ Rollback(s, k) \/ \E to \in Key : Rename(s, k, to)
    \/ \E k \in Key : HideKey(k) \/ CancelEdit(k)
    \/ \E s \in Slot : OpenSecrets(s) \/ Retry(s)
    \/ WipeAll \/ OpenHistory \/ Leave

Next ==
    \/ User
    \/ \E s \in Slot : \/ Serve(s) \/ ListSecrets(s) \/ GetEnvironment(s)
                       \/ Answer(s) \/ Refreshed(s) \/ Fail(s)
    \/ \E k \in Key : Other(k) \/ Expire(k)
    \/ Sweep

Spec == Init /\ [][Next]_vars
FairSpec == Spec /\ WF_vars(Sweep) /\ \A k \in Key : WF_vars(Expire(k))
----------------------------------------------------------------------------
(* What the screen keeps to. *)

TypeOK ==
    /\ val \in [Key -> Nat] /\ rev \in Nat /\ others \in Nat
    /\ page \in {"secrets", "history", "away"} /\ view \in {"loading", "shown", "error"}
    /\ rows \subseteq Key /\ seen \in Nat /\ busy \subseteq Key
    /\ editor \in [Key -> Open \cup {None}]
    /\ shown \in [Key -> Revealed \cup {None}]
    /\ timer \in BOOLEAN
    /\ call \in [Slot -> Call \cup {None}] /\ left \in Nat
    /\ own \in [Key -> Nat] /\ mixed \subseteq Key

\* "The old value is now historical and must not linger on screen as if it were
\* current" (secrets.svelte.ts:168-170): a value on the screen is no older than
\* what this tab knows it has saved.  The busy set sees to it, where every call
\* on a key goes through it: not for removals, renames and additions, which do
\* not ask it, nor across pages, each of which has its own.
NothingOldLingers ==
    \A k \in Key \ mixed : shown[k] # None => shown[k].value >= own[k]

\* "A merge that silently lands on top of somebody else's change" is refused
\* (secrets.svelte.ts:154-157): a save replaces the value that its editor was
\* opened with, provided nothing has moved the page's revision meanwhile.
SavesReplaceWhatWasSeen ==
    [][\A s \in Slot :
         call[s] # None /\ call[s].op = "save" /\ call[s].steady /\ call[s].pc = "sent"
         /\ call'[s] # None /\ call'[s].pc = "answered"
         => val[call[s].key] = call[s].draft]_vars

\* A revealed value is dropped in time, whatever page is open by then and even
\* if it arrived after the page or a wipe had dropped the others
\* (reveal.svelte.ts:95-121).
RevealedIsDropped == \A k \in Key : shown[k] # None ~> shown[k] = None
=============================================================================
