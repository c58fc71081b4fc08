------------------------ MODULE SecretsScreenProofs ------------------------
(***************************************************************************)
(* Proofs about the secrets of an environment in a browser tab, for any    *)
(* keys, any number of calls under way and any number of other writers: an *)
(* old value does not linger as if it were current, and a save replaces    *)
(* what its editor was opened with.                                        *)
(***************************************************************************)
EXTENDS SecretsScreen, TLAPS

(* Revisions only grow, so an edit that was answered at the present one has  *)
(* the present value.                                                        *)
CallOK(c, now, value) ==
    /\ c.op = "load" <=> c.key = None
    /\ c.op = "load" => c.pc = "reading"
    /\ c.to # None => c.op = "rename"
    /\ c.op \in {"edit", "save"} => c.expected # None
    /\ c.expected # None => c.expected <= now
    /\ c.got <= now
    /\ c.env # None => c.env <= now
    /\ c.op \in {"save", "add", "rollback"} /\ c.pc = "answered"
          => value[c.key] = 0 \/ c.got <= value[c.key]
    /\ c.op = "edit" /\ c.pc = "answered" /\ c.expected = now => value[c.key] = c.got
    /\ c.op = "save" /\ c.steady /\ c.pc = "sent" /\ c.expected = now
          => value[c.key] = c.draft

KeyOK(k) ==
    /\ val[k] <= rev /\ own[k] <= rev
    /\ val[k] = 0 \/ own[k] <= val[k]
    /\ editor[k] # None => /\ editor[k].at <= rev
                           /\ editor[k].at = rev => val[k] = editor[k].draft

RevisionsOK ==
    /\ seen <= rev
    /\ \A k \in Key : KeyOK(k)
    /\ \A s \in Slot : call[s] # None => CallOK(call[s], rev, val)

(* Where nothing has met, one call at a time is under way on a key, and no   *)
(* value of it is fetched beside an open editor.                             *)
TakesTurns(k) ==
    /\ \A s \in On(k) :
          IF call[s].op = "rollback" THEN page = "history"
          ELSE page = "secrets" /\ call[s].mine /\ (call[s].key = k => k \in busy)
    /\ page = "secrets" => \A s, t \in On(k) : s = t
    /\ editor[k] # None => \A s \in On(k) : call[s].op \notin {"reveal", "edit"}
    /\ \A s \in On(k) : call[s].op = "reveal" /\ call[s].pc = "answered" => call[s].got >= own[k]
    /\ shown[k] # None => shown[k].value >= own[k]

TurnsOK == \A k \in Key \ mixed : TakesTurns(k)

IInv == TypeOK /\ RevisionsOK /\ TurnsOK
----------------------------------------------------------------------------
(* Types. *)

LEMMA CallKept ==
    ASSUME TypeOK, NEW s \in Slot, NEW c \in Call \cup {None}
    PROVE  [call EXCEPT ![s] = c] \in [Slot -> Call \cup {None}]
  BY DEF TypeOK

LEMMA CallFields ==
    ASSUME NEW c \in Call
    PROVE  /\ \A p \in {"sent", "refused", "answered", "reading"} : [c EXCEPT !.pc = p] \in Call
           /\ [c EXCEPT !.mine = FALSE] \in Call
           /\ \A g \in Nat : [c EXCEPT !.pc = "answered", !.got = g] \in Call
           /\ \A r \in SUBSET Key : [c EXCEPT !.rows = r] \in Call
           /\ \A e \in Nat : [c EXCEPT !.env = e] \in Call
  BY ZenonT(40) DEF Call

LEMMA NewCalls ==
    ASSUME TypeOK, NEW k \in Key \cup {None}, 
           NEW op \in {"load", "reveal", "edit", "save", "add", "remove", "rename", "rollback"}
    PROVE  /\ NewCall(op, k) \in Call
           /\ [NewCall(op, k) EXCEPT !.expected = seen] \in Call
           /\ \A to \in Key : [NewCall(op, k) EXCEPT !.to = to] \in Call
           /\ [NewCall(op, k) EXCEPT !.mine = FALSE] \in Call
  BY DEF TypeOK, Call, NewCall

LEMMA LoadCallType == LoadCall \in Call
  BY DEF Call, NewCall, LoadCall

LEMMA SaveCalls ==
    ASSUME TypeOK, NEW k \in Key, editor[k] # None
    PROVE  SaveCall(k) \in Call
  BY DEF TypeOK, Call, NewCall, SaveCall, Open

LEMMA OrphanedType ==
    ASSUME TypeOK
    PROVE  Orphaned \in [Slot -> Call \cup {None}]
  BY CallFields DEF TypeOK, Orphaned

LEMMA SendKeepsType ==
    ASSUME TypeOK, NEW s \in Slot, NEW c \in Call, Send(s, c)
    PROVE  TypeOK'
<1>1. call' \in [Slot -> Call \cup {None}]
  BY CallKept DEF Send
<1>2. left' \in Nat
  BY DEF Send, TypeOK
<1>3. busy' \subseteq Key /\ mixed' \subseteq Key
  BY DEF Send, TypeOK, Call
<1> QED
  BY <1>1, <1>2, <1>3 DEF Send, TypeOK, server, screen, store

LEMMA UserKeepsType ==
    ASSUME TypeOK, User
    PROVE  TypeOK'
<1> USE NoneAssumption
<1>1. ASSUME NEW s \in Slot, NEW k \in Key, RevealKey(s, k)
      PROVE  TypeOK'
  BY <1>1, NewCalls, SendKeepsType DEF RevealKey
<1>2. ASSUME NEW s \in Slot, NEW k \in Key, BeginEdit(s, k)
      PROVE  TypeOK'
  BY <1>2, NewCalls, SendKeepsType DEF BeginEdit
<1>3. ASSUME NEW s \in Slot, NEW k \in Key, Commit(s, k)
      PROVE  TypeOK'
  BY <1>3, SaveCalls, SendKeepsType DEF Commit, Commits
<1>4. ASSUME NEW s \in Slot, NEW k \in Key, AddSecret(s, k)
      PROVE  TypeOK'
  BY <1>4, NewCalls, SendKeepsType DEF AddSecret
<1>5. ASSUME NEW s \in Slot, NEW k \in Key, Remove(s, k)
      PROVE  TypeOK'
  BY <1>5, NewCalls, SendKeepsType DEF Remove
<1>6. ASSUME NEW s \in Slot, NEW k \in Key, Rollback(s, k)
      PROVE  TypeOK'
  <2>1. call' \in [Slot -> Call \cup {None}]
    BY <1>6, NewCalls, CallKept DEF Rollback
  <2> QED
    BY <1>6, <2>1 DEF Rollback, TypeOK, server, screen, store
<1>7. ASSUME NEW s \in Slot, NEW k \in Key, NEW to \in Key, Rename(s, k, to)
      PROVE  TypeOK'
  BY <1>7, NewCalls, SendKeepsType DEF Rename
<1>8. ASSUME NEW k \in Key, HideKey(k) \/ CancelEdit(k) \/ WipeAll
      PROVE  TypeOK'
  BY <1>8 DEF TypeOK, HideKey, Hide, DisarmIfEmpty, CancelEdit, WipeAll, Wipe, Nothing,
              rest, server, screen, store
<1>9. ASSUME NEW s \in Slot, OpenSecrets(s)
      PROVE  TypeOK'
  <2>1. call' \in [Slot -> Call \cup {None}]
    BY <1>9, OrphanedType, LoadCallType DEF OpenSecrets
  <2> QED
    BY <1>9, <2>1 DEF OpenSecrets, Turn, TypeOK, Nothing, server, store
<1>10. ASSUME NEW s \in Slot, Retry(s)
       PROVE  TypeOK'
  <2>1. call' \in [Slot -> Call \cup {None}]
    BY <1>10, LoadCallType, CallKept DEF Retry
  <2> QED
    BY <1>10, <2>1 DEF Retry, TypeOK, server, store
<1>11. CASE OpenHistory
  BY <1>11, OrphanedType DEF OpenHistory, Turn, TypeOK, Nothing, server, store
<1>13. CASE Leave
  <2>1. shown' \in [Key -> Revealed \cup {None}] /\ timer' \in BOOLEAN
    BY <1>13 DEF Leave, Wipe, DisarmIfEmpty, TypeOK, Nothing
  <2> QED
    BY <1>13, <2>1, OrphanedType DEF Leave, Turn, TypeOK, Nothing, server
<1>12. CASE WipeAll
  BY <1>12 DEF TypeOK, WipeAll, Wipe, DisarmIfEmpty, Nothing, rest, server, screen
<1> QED
  BY <1>1, <1>2, <1>3, <1>4, <1>5, <1>6, <1>7, <1>8, <1>9, <1>10, <1>11, <1>12, <1>13 DEF User

LEMMA ServedCall ==
    ASSUME TypeOK, RevisionsOK, NEW s \in Slot, Serve(s) \/ ListSecrets(s) \/ GetEnvironment(s)
    PROVE  \E c \in Call : call' = [call EXCEPT ![s] = c]
<1>1. call[s] \in Call /\ CallOK(call[s], rev, val)
  BY DEF Serve, ListSecrets, GetEnvironment, TypeOK, RevisionsOK
<1>2. CASE Serve(s)
  <2>1. Goto(s, "refused") \/ \E got \in Nat : Reply(s, got)
    <3>1. CASE ServeReveal(s)
      BY <1>1, <3>1, NoneAssumption DEF ServeReveal, TypeOK, Call, CallOK
    <3>2. CASE ServeWrite(s)
      BY <3>2 DEF ServeWrite, TypeOK
    <3> QED
      BY <1>2, <3>1, <3>2 DEF Serve
  <2>2. ASSUME NEW got \in Nat, Reply(s, got)
        PROVE  \E c \in Call : call' = [call EXCEPT ![s] = c]
    BY <1>1, <2>2, CallFields DEF Reply
  <2>3. ASSUME Goto(s, "refused")
        PROVE  \E c \in Call : call' = [call EXCEPT ![s] = c]
    BY <1>1, <2>3, CallFields DEF Goto
  <2> QED
    BY <2>1, <2>2, <2>3
<1>3. CASE ListSecrets(s) \/ GetEnvironment(s)
  <2> DEFINE found == {k \in Key : val[k] # 0}
  <2>1. [call[s] EXCEPT !.rows = found] \in Call /\ [call[s] EXCEPT !.env = rev] \in Call
    BY <1>1, CallFields DEF TypeOK
  <2> QED
    BY <1>3, <2>1 DEF ListSecrets, GetEnvironment
<1> QED
  BY <1>2, <1>3

LEMMA ServerKeepsType ==
    ASSUME TypeOK, RevisionsOK, NEW s \in Slot, Serve(s) \/ ListSecrets(s) \/ GetEnvironment(s)
    PROVE  TypeOK'
<1>1. call' \in [Slot -> Call \cup {None}]
  BY ServedCall, CallKept
<1>2. CASE Serve(s)
  <2>1. rev' \in Nat /\ val' \in [Key -> Nat]
    BY <1>2 DEF Serve, ServeReveal, ServeWrite, TypeOK
  <2> QED
    BY <1>1, <1>2, <2>1 DEF Serve, TypeOK, tab, screen, store
<1>3. CASE ListSecrets(s) \/ GetEnvironment(s)
  BY <1>1, <1>3 DEF ListSecrets, GetEnvironment, TypeOK, tab, server, screen, store
<1> QED
  BY <1>2, <1>3

LEMMA AnswersKeepType ==
    ASSUME TypeOK, RevisionsOK, NEW s \in Slot, Answer(s) \/ Refreshed(s) \/ Fail(s)
    PROVE  TypeOK'
<1>1. call[s] \in Call /\ CallOK(call[s], rev, val)
  BY DEF Answer, Refreshed, Fail, TypeOK, RevisionsOK
<1>2. CASE Answer(s)
  <2>1. call[s].key \in Key
    BY <1>1, <1>2, NoneAssumption DEF Answer, Call, CallOK
  <2>2. CASE ShowValue(s)
    BY <1>1, <1>2, <2>1, <2>2, CallKept
    DEF Answer, ShowValue, End, TypeOK, Revealed, Call, server, screen
  <2>3. CASE OpenEditor(s)
    <3>1. [draft |-> call[s].got, at |-> call[s].expected] \in Open
      BY <1>1, <2>3 DEF OpenEditor, CallOK, Call, Open
    <3> QED
      BY <1>1, <1>2, <2>1, <2>3, <3>1, CallKept
      DEF Answer, OpenEditor, End, TypeOK, server, store
  <2>4. CASE Written(s)
    <3>1. call' \in [Slot -> Call \cup {None}]
      BY <1>1, <2>4, CallKept, CallFields DEF Written, Goto
    <3> QED
      BY <1>1, <1>2, <2>1, <2>4, <3>1
      DEF Answer, Written, Hide, DisarmIfEmpty, TypeOK, Call, server
  <2> QED
    BY <1>2, <2>2, <2>3, <2>4 DEF Answer
<1>3. CASE Refreshed(s)
  BY <1>1, <1>3, CallKept
  DEF Refreshed, End, TypeOK, Call, server, store
<1>4. CASE Fail(s)
  BY <1>1, <1>4, CallKept
  DEF Fail, End, TypeOK, Call, server, store
<1> QED
  BY <1>2, <1>3, <1>4

LEMMA RestKeepsType ==
    ASSUME TypeOK, (\E k \in Key : Other(k) \/ Expire(k)) \/ Sweep
    PROVE  TypeOK'
<1>1. CASE \E k \in Key : Other(k)
  BY <1>1 DEF Other, TypeOK, tab, screen, store
<1>2. CASE \E k \in Key : Expire(k)
  <2>1. PICK k \in Key : Expire(k)
    BY <1>2
  <2>2. [shown[k] EXCEPT !.due = TRUE] \in Revealed
    BY <2>1 DEF Expire, TypeOK, Revealed
  <2>3. shown' \in [Key -> Revealed \cup {None}]
    BY <2>1, <2>2 DEF Expire, TypeOK
  <2> QED
    BY <2>1, <2>3 DEF Expire, TypeOK, rest, server, screen
<1>3. CASE Sweep
  BY <1>3 DEF Sweep, DisarmIfEmpty, TypeOK, rest, server, screen
<1> QED
  BY <1>1, <1>2, <1>3
----------------------------------------------------------------------------
(* Revisions. *)

LEMMA CallStaysOK ==
    ASSUME TypeOK, NEW c \in Call, CallOK(c, rev, val), rev' = rev + 1, val' \in [Key -> Nat],
           \A k \in Key : val'[k] \in {val[k], 0, rev + 1}
    PROVE  CallOK(c, rev', val')
<1>1. c.op # "load" => c.key \in Key
  BY NoneAssumption DEF Call, CallOK
<1>2. /\ rev \in Nat /\ c.got \in Nat
      /\ c.expected # None => c.expected \in Nat
      /\ c.env # None => c.env \in Nat
  BY DEF TypeOK, Call
<1>3. c.op # "load" => val[c.key] \in Nat /\ val'[c.key] \in {val[c.key], 0, rev + 1}
  BY <1>1 DEF TypeOK
<1>4. c.op \in {"edit", "save"} => c.expected # None /\ c.expected <= rev
  BY DEF CallOK
<1> QED
  BY <1>2, <1>3, <1>4 DEF CallOK

LEMMA KeyStaysOK ==
    ASSUME TypeOK, NEW k \in Key, KeyOK(k), rev' = rev + 1, UNCHANGED <<own, editor>>,
           val'[k] \in {val[k], 0, rev + 1}
    PROVE  KeyOK(k)'
<1>1. /\ rev \in Nat /\ val[k] \in Nat /\ own[k] \in Nat
      /\ editor[k] # None => editor[k].at \in Nat
  BY DEF TypeOK, Open
<1> QED
  BY <1>1 DEF KeyOK

LEMMA SendKeepsRevisions ==
    ASSUME TypeOK, RevisionsOK, NEW s \in Slot, NEW c \in Call, CallOK(c, rev, val), Send(s, c)
    PROVE  RevisionsOK'
  BY NoneAssumption DEF Send, RevisionsOK, KeyOK, TypeOK, server, screen

(* What leaves the server and the editors as they are, or closes some.       *)
LEMMA QuietStep ==
    ASSUME TypeOK, RevisionsOK, UNCHANGED <<val, rev, own>>,
           seen' = seen \/ seen' = 0,
           \A k \in Key : editor'[k] \in {editor[k], None},
           \A s \in Slot : call'[s] # None => CallOK(call'[s], rev, val)
    PROVE  RevisionsOK'
  BY DEF RevisionsOK, KeyOK, TypeOK

LEMMA UserKeepsRevisions ==
    ASSUME TypeOK, RevisionsOK, User
    PROVE  RevisionsOK'
<1> USE NoneAssumption
<1>0. seen \in Nat /\ rev \in Nat /\ seen <= rev
  BY DEF TypeOK, RevisionsOK
<1>1. ASSUME NEW s \in Slot, NEW k \in Key, RevealKey(s, k)
      PROVE  RevisionsOK'
  <2>1. CallOK(NewCall("reveal", k), rev, val)
    BY <1>0 DEF CallOK, NewCall
  <2> QED
    BY <1>1, <2>1, NewCalls, SendKeepsRevisions DEF RevealKey
<1>2. ASSUME NEW s \in Slot, NEW k \in Key, BeginEdit(s, k)
      PROVE  RevisionsOK'
  <2>1. CallOK([NewCall("edit", k) EXCEPT !.expected = seen], rev, val)
    BY <1>0 DEF CallOK, NewCall
  <2> QED
    BY <1>2, <2>1, NewCalls, SendKeepsRevisions DEF BeginEdit
<1>3. ASSUME NEW s \in Slot, NEW k \in Key, Commit(s, k)
      PROVE  RevisionsOK'
  <2>1. editor[k] # None /\ KeyOK(k)
    BY <1>3 DEF Commit, Commits, RevisionsOK
  <2>2. /\ SaveCall(k).op = "save" /\ SaveCall(k).key = k /\ SaveCall(k).to = None
        /\ SaveCall(k).pc = "sent" /\ SaveCall(k).got = 0 /\ SaveCall(k).env = None
        /\ SaveCall(k).expected = seen /\ SaveCall(k).draft = editor[k].draft
        /\ SaveCall(k).steady = (editor[k].at = seen)
    BY DEF SaveCall, NewCall
  <2>3. SaveCall(k).steady /\ SaveCall(k).expected = rev => val[k] = SaveCall(k).draft
    <3>1. editor[k].at = seen /\ seen = rev => val[k] = editor[k].draft
      BY <2>1 DEF KeyOK
    <3> QED
      BY <2>2, <3>1
  <2>4. CallOK(SaveCall(k), rev, val)
    BY <1>0, <2>2, <2>3 DEF CallOK
  <2> QED
    BY <1>3, <2>1, <2>4, SaveCalls, SendKeepsRevisions DEF Commit
<1>4. ASSUME NEW s \in Slot, NEW k \in Key, AddSecret(s, k)
      PROVE  RevisionsOK'
  <2>1. CallOK([NewCall("add", k) EXCEPT !.expected = seen], rev, val)
    BY <1>0 DEF CallOK, NewCall
  <2> QED
    BY <1>4, <2>1, NewCalls, SendKeepsRevisions DEF AddSecret
<1>5. ASSUME NEW s \in Slot, NEW k \in Key, Remove(s, k)
      PROVE  RevisionsOK'
  <2>1. CallOK([NewCall("remove", k) EXCEPT !.expected = seen], rev, val)
    BY <1>0 DEF CallOK, NewCall
  <2> QED
    BY <1>5, <2>1, NewCalls, SendKeepsRevisions DEF Remove
<1>6. ASSUME NEW s \in Slot, NEW k \in Key, Rollback(s, k)
      PROVE  RevisionsOK'
  <2>1. CallOK([NewCall("rollback", k) EXCEPT !.mine = FALSE], rev, val)
    BY <1>0 DEF CallOK, NewCall
  <2>2. \A t \in Slot : call'[t] # None => CallOK(call'[t], rev, val)
    BY <1>6, <2>1 DEF Rollback, RevisionsOK, TypeOK
  <2> QED
    BY <1>6, <2>2, QuietStep DEF Rollback, server, screen
<1>7. ASSUME NEW s \in Slot, NEW k \in Key, NEW to \in Key, Rename(s, k, to)
      PROVE  RevisionsOK'
  <2>1. CallOK([NewCall("rename", k) EXCEPT !.to = to], rev, val)
    BY <1>0 DEF CallOK, NewCall
  <2> QED
    BY <1>7, <2>1, NewCalls, SendKeepsRevisions DEF Rename
<1>8. ASSUME NEW k \in Key, HideKey(k) \/ WipeAll \/ CancelEdit(k)
      PROVE  RevisionsOK'
  BY <1>8, QuietStep DEF HideKey, WipeAll, CancelEdit, rest, server, screen, TypeOK, RevisionsOK
<1>9. CallOK(LoadCall, rev, val)
  BY <1>0 DEF CallOK, LoadCall, NewCall
<1>10. \A t \in Slot : call[t] # None => CallOK([call[t] EXCEPT !.mine = FALSE], rev, val)
  BY DEF RevisionsOK, CallOK, TypeOK, Call
<1>11. ASSUME NEW s \in Slot, OpenSecrets(s)
       PROVE  RevisionsOK'
  <2>1. \A t \in Slot : call'[t] # None => CallOK(call'[t], rev, val)
    BY <1>9, <1>10, <1>11, OrphanedType DEF OpenSecrets, Orphaned
  <2> QED
    BY <1>11, <2>1, QuietStep DEF OpenSecrets, Turn, Nothing, server
<1>12. ASSUME NEW s \in Slot, Retry(s)
       PROVE  RevisionsOK'
  <2>1. \A t \in Slot : call'[t] # None => CallOK(call'[t], rev, val)
    BY <1>9, <1>12 DEF Retry, RevisionsOK, TypeOK
  <2> QED
    BY <1>12, <2>1, QuietStep DEF Retry, server
<1>13. CASE OpenHistory \/ Leave
  <2>1. \A t \in Slot : call'[t] # None => CallOK(call'[t], rev, val)
    BY <1>10, <1>13 DEF OpenHistory, Leave, Orphaned
  <2> QED
    BY <1>13, <2>1, QuietStep DEF OpenHistory, Leave, Turn, Nothing, server
<1>14. CASE WipeAll
  BY <1>14, QuietStep DEF WipeAll, rest, server, screen, RevisionsOK
<1> QED
  BY <1>1, <1>2, <1>3, <1>4, <1>5, <1>6, <1>7, <1>8, <1>11, <1>12, <1>13, <1>14 DEF User

LEMMA ServerKeepsRevisions ==
    ASSUME TypeOK, RevisionsOK, NEW s \in Slot, Serve(s) \/ ListSecrets(s) \/ GetEnvironment(s)
    PROVE  RevisionsOK'
<1> USE NoneAssumption
<1> DEFINE c == call[s]
<1>1. c # None /\ c \in Call /\ CallOK(c, rev, val) /\ rev \in Nat
  BY DEF Serve, ListSecrets, GetEnvironment, TypeOK, RevisionsOK
<1>2. CASE ListSecrets(s) \/ GetEnvironment(s)
  <2> DEFINE found == {k \in Key : val[k] # 0}
  <2>1. CallOK([c EXCEPT !.rows = found], rev, val) /\ CallOK([c EXCEPT !.env = rev], rev, val)
    BY <1>1 DEF CallOK, Call
  <2>2. \A t \in Slot : call'[t] # None => CallOK(call'[t], rev, val)
    BY <1>2, <2>1 DEF ListSecrets, GetEnvironment, RevisionsOK, TypeOK
  <2> QED
    BY <1>2, <2>2, QuietStep DEF ListSecrets, GetEnvironment, server, tab, screen
<1>3. CASE Serve(s) /\ UNCHANGED <<val, rev>>
  <2>1. c.op # "load" /\ c.key \in Key /\ c.pc = "sent"
    BY <1>1, <1>3 DEF Serve, ServeReveal, ServeWrite, CallOK, Call
  <2>2. \/ call' = [call EXCEPT ![s].pc = "refused"]
        \/ /\ c.op \in {"reveal", "edit"}
           /\ call' = [call EXCEPT ![s].pc = "answered", ![s].got = val[c.key]]
        \/ /\ c.op = "remove"
           /\ call' = [call EXCEPT ![s].pc = "answered", ![s].got = rev]
    BY <1>1, <1>3 DEF Serve, ServeReveal, ServeWrite, Goto, Reply
  <2>3. val[c.key] \in Nat /\ val[c.key] <= rev
    BY <2>1 DEF TypeOK, RevisionsOK, KeyOK
  <2>4. CallOK([c EXCEPT !.pc = "refused"], rev, val)
    BY <1>1, <2>1 DEF CallOK, Call
  <2>5. c.op \in {"reveal", "edit"} =>
           CallOK([c EXCEPT !.pc = "answered", !.got = val[c.key]], rev, val)
    BY <1>1, <2>1, <2>3 DEF CallOK, Call
  <2>6. c.op = "remove" => CallOK([c EXCEPT !.pc = "answered", !.got = rev], rev, val)
    BY <1>1, <2>1 DEF CallOK, Call
  <2>7. \A t \in Slot : call'[t] # None => CallOK(call'[t], rev, val)
    BY <2>2, <2>4, <2>5, <2>6 DEF RevisionsOK, TypeOK
  <2> QED
    BY <1>3, <2>7, QuietStep DEF Serve, tab, screen
<1>4. CASE Serve(s) /\ ~UNCHANGED <<val, rev>>
  <2>1. c.op \notin {"load", "reveal", "edit"} /\ c.key \in Key
    BY <1>1, <1>4 DEF Serve, ServeReveal, ServeWrite, CallOK, Call
  <2>2. /\ rev' = rev + 1
        /\ val' = [k \in Key |-> IF k = c.to \/ (k = c.key /\ c.op \notin {"remove", "rename"})
                                 THEN rev + 1
                                 ELSE IF k = c.key THEN 0 ELSE val[k]]
        /\ call' = [call EXCEPT ![s].pc = "answered", ![s].got = rev + 1]
    BY <1>4, <2>1 DEF Serve, ServeReveal, ServeWrite, Goto, Reply
  <2>3. val' \in [Key -> Nat] /\ \A k \in Key : val'[k] \in {val[k], 0, rev + 1}
    BY <1>1, <2>2 DEF TypeOK
  <2>4. CallOK(c, rev', val')
    BY <1>1, <2>2, <2>3, CallStaysOK
  <2>5. CallOK([c EXCEPT !.pc = "answered", !.got = rev + 1], rev', val')
    <3>1. c.op \in {"save", "add", "rollback"} => val'[c.key] = rev + 1
      BY <2>1, <2>2
    <3> QED
      BY <1>1, <2>1, <2>2, <2>4, <3>1 DEF CallOK, Call
  <2>6. \A t \in Slot : call'[t] # None => CallOK(call'[t], rev', val')
    BY <2>2, <2>3, <2>5, CallStaysOK DEF RevisionsOK, TypeOK
  <2>7. \A k \in Key : KeyOK(k)'
    BY <1>4, <2>2, <2>3, KeyStaysOK DEF RevisionsOK, Serve, tab, screen
  <2>8. seen' <= rev'
    BY <1>1, <1>4, <2>2 DEF RevisionsOK, Serve, tab, screen, TypeOK
  <2> QED
    BY <2>6, <2>7, <2>8 DEF RevisionsOK
<1> QED
  BY <1>2, <1>3, <1>4

LEMMA AnswersKeepRevisions ==
    ASSUME TypeOK, RevisionsOK, NEW s \in Slot, Answer(s) \/ Refreshed(s) \/ Fail(s)
    PROVE  RevisionsOK'
<1> USE NoneAssumption
<1> DEFINE c == call[s]
<1>1. c # None /\ c \in Call /\ CallOK(c, rev, val) /\ rev \in Nat
  BY DEF Answer, Refreshed, Fail, TypeOK, RevisionsOK
<1>2. CASE End(s)
  <2>1. \A t \in Slot : call'[t] # None => CallOK(call'[t], rev, val)
    BY <1>2 DEF End, RevisionsOK, TypeOK
  <2>2. CASE (Answer(s) /\ ShowValue(s)) \/ Fail(s)
    BY <2>1, <2>2, QuietStep DEF Answer, ShowValue, Fail, server, screen
  <2>3. CASE Answer(s) /\ OpenEditor(s)
    <3>1. /\ c.op = "edit" /\ c.pc = "answered" /\ c.key \in Key
          /\ UNCHANGED <<val, rev, own, seen>>
          /\ editor' = editor
             \/ editor' = [editor EXCEPT ![c.key] = [draft |-> c.got, at |-> c.expected]]
      BY <1>1, <2>3 DEF Answer, OpenEditor, CallOK, Call, server
    <3>2. c.expected # None /\ c.expected <= rev /\ (c.expected = rev => val[c.key] = c.got)
      BY <1>1, <3>1 DEF CallOK
    <3>3. \A k \in Key : KeyOK(k)'
      BY <3>1, <3>2 DEF RevisionsOK, KeyOK, TypeOK
    <3> QED
      BY <2>1, <3>1, <3>3 DEF RevisionsOK
  <2>4. CASE Refreshed(s)
    <3>1. /\ UNCHANGED <<val, rev, own>>
          /\ seen' = seen \/ (seen' = c.env /\ c.env # None)
          /\ \A k \in Key : editor'[k] \in {editor[k], None}
      BY <2>4 DEF Refreshed, server, TypeOK
    <3>2. seen' <= rev'
      BY <1>1, <3>1 DEF CallOK, RevisionsOK
    <3>3. \A k \in Key : KeyOK(k)'
      BY <3>1 DEF RevisionsOK, KeyOK
    <3> QED
      BY <2>1, <3>1, <3>2, <3>3 DEF RevisionsOK
  <2>5. ~Written(s)
    <3>1. [c EXCEPT !.pc = "reading"] # None
      BY <1>1, CallFields
    <3> QED
      BY <1>2, <3>1 DEF Written, Goto, End, TypeOK
  <2> QED
    BY <2>2, <2>3, <2>4, <2>5 DEF Answer
<1>3. CASE Answer(s) /\ Written(s)
  <2>1. /\ c.pc = "answered" /\ c.op \notin {"reveal", "edit", "load"} /\ c.key \in Key
        /\ UNCHANGED <<val, rev, editor>>
        /\ call' = [call EXCEPT ![s].pc = "reading"]
        /\ seen' = seen \/ seen' = c.got
        /\ own' = IF c.op \in {"save", "add", "rollback"} THEN [own EXCEPT ![c.key] = c.got]
                  ELSE own
    BY <1>1, <1>3 DEF Answer, Written, Goto, CallOK, Call, server
  <2>2. /\ c.got <= rev
        /\ c.op \in {"save", "add", "rollback"} => val[c.key] = 0 \/ c.got <= val[c.key]
    BY <1>1, <2>1 DEF CallOK
  <2>3. \A k \in Key : KeyOK(k)'
    BY <2>1, <2>2 DEF RevisionsOK, KeyOK, TypeOK
  <2>4. CallOK([c EXCEPT !.pc = "reading"], rev, val)
    BY <1>1, <2>1 DEF CallOK, Call
  <2>5. \A t \in Slot : call'[t] # None => CallOK(call'[t], rev', val')
    BY <2>1, <2>4 DEF RevisionsOK, TypeOK
  <2> QED
    BY <2>1, <2>2, <2>3, <2>5 DEF RevisionsOK
<1> QED
  BY <1>2, <1>3 DEF Answer, ShowValue, OpenEditor, Refreshed, Fail

LEMMA RestKeepsRevisions ==
    ASSUME TypeOK, RevisionsOK, (\E k \in Key : Other(k) \/ Expire(k)) \/ Sweep
    PROVE  RevisionsOK'
<1>1. CASE \E k \in Key : Other(k)
  <2>1. /\ rev' = rev + 1 /\ UNCHANGED <<own, editor, seen, call>>
        /\ val' \in [Key -> Nat] /\ \A k \in Key : val'[k] \in {val[k], 0, rev + 1}
    BY <1>1 DEF Other, TypeOK, tab, screen
  <2>2. \A k \in Key : KeyOK(k)'
    BY <2>1, KeyStaysOK DEF RevisionsOK
  <2>3. \A t \in Slot : call'[t] # None => CallOK(call'[t], rev', val')
    BY <2>1, CallStaysOK DEF RevisionsOK, TypeOK
  <2> QED
    BY <2>1, <2>2, <2>3 DEF RevisionsOK, TypeOK
<1>2. CASE (\E k \in Key : Expire(k)) \/ Sweep
  <2>1. UNCHANGED <<val, rev, own, seen, editor, call>>
    BY <1>2 DEF Expire, Sweep, rest, server, screen
  <2> QED
    BY <2>1, QuietStep DEF RevisionsOK
<1> QED
  BY <1>1, <1>2
----------------------------------------------------------------------------
(* Turns. To a key that nothing has met on, a step is quiet, or a call of its *)
(* own begins or ends.                                                       *)

IsOn(c, k) == c # None /\ k \in {c.key, c.to} \ {None}

(* A call as it was, or further, short of a value that it did not have.      *)
Goes(c, d) ==
    /\ d # None
    /\ c.op = d.op /\ c.key = d.key /\ c.to = d.to /\ c.mine = d.mine
    /\ c.op = "reveal" /\ c.pc = "answered" => d.pc = "answered" /\ c.got = d.got

LEMMA OnIsOn ==
    ASSUME NEW k
    PROVE  /\ \A s \in Slot : s \in On(k) <=> IsOn(call[s], k)
           /\ \A s \in Slot : s \in On(k)' <=> IsOn(call'[s], k)
           /\ On(k) \subseteq Slot /\ On(k)' \subseteq Slot
  BY DEF On, IsOn

LEMMA QuietTurn ==
    ASSUME NEW k \in Key, TakesTurns(k), page' = page, own'[k] = own[k],
           editor'[k] \in {editor[k], None},
           shown'[k] # None => shown[k] # None /\ shown'[k].value = shown[k].value,
           \A s \in Slot : IsOn(call'[s], k) => Goes(call'[s], call[s]) /\ (k \in busy => k \in busy')
    PROVE  TakesTurns(k)'
<1>1. \A s \in On(k)' : s \in On(k) /\ Goes(call'[s], call[s]) /\ (k \in busy => k \in busy')
  BY OnIsOn DEF IsOn, Goes
<1>2. \A s \in On(k)' :
         IF call'[s].op = "rollback" THEN page' = "history"
         ELSE page' = "secrets" /\ call'[s].mine /\ (call'[s].key = k => k \in busy')
  BY <1>1 DEF TakesTurns, Goes
<1>3. page' = "secrets" => \A s, t \in On(k)' : s = t
  BY <1>1 DEF TakesTurns
<1>4. editor'[k] # None => \A s \in On(k)' : call'[s].op \notin {"reveal", "edit"}
  BY <1>1 DEF TakesTurns, Goes
<1>5. \A s \in On(k)' : call'[s].op = "reveal" /\ call'[s].pc = "answered" => call'[s].got >= own'[k]
  BY <1>1 DEF TakesTurns, Goes
<1>6. shown'[k] # None => shown'[k].value >= own'[k]
  BY DEF TakesTurns
<1> QED
  BY <1>2, <1>3, <1>4, <1>5, <1>6 DEF TakesTurns

(* The first call on a key.                                                  *)
LEMMA TurnBegins ==
    ASSUME NEW k \in Key, TakesTurns(k), On(k) = {}, NEW s \in Slot, On(k)' \subseteq {s},
           page' = "secrets", own'[k] = own[k], editor'[k] = editor[k], shown'[k] = shown[k],
           call'[s].mine, call'[s].op # "rollback", call'[s].pc = "sent",
           call'[s].key = k => k \in busy',
           editor[k] # None => call'[s].op \notin {"reveal", "edit"}
    PROVE  TakesTurns(k)'
  BY DEF TakesTurns

(* The last call on a key has ended.                                         *)
LEMMA TurnsOver ==
    ASSUME NEW k \in Key, On(k)' = {}, shown'[k] # None => shown'[k].value >= own'[k]
    PROVE  TakesTurns(k)'
  BY DEF TakesTurns

LEMMA CallsOnKeys ==
    ASSUME TypeOK, RevisionsOK, NEW k \in Key, NEW s \in On(k)
    PROVE  /\ s \in Slot /\ call[s] # None /\ call[s] \in Call
           /\ call[s].key \in Key /\ call[s].op # "load"
           /\ call[s].key # k => call[s].op = "rename" /\ call[s].to = k
           /\ call[s].op # "rename" => call[s].to = None
  BY NoneAssumption DEF On, RevisionsOK, CallOK, TypeOK, Call

(* While a table is shown, a key with no request in flight has no call, but  *)
(* for one that moves another key there.                                     *)
LEMMA FreeKeys ==
    ASSUME TypeOK, RevisionsOK, NEW k \in Key, TakesTurns(k), page = "secrets", k \notin busy
    PROVE  \A s \in On(k) : call[s].op = "rename"
  BY CallsOnKeys DEF TakesTurns

LEMMA SendKeepsTurn ==
    ASSUME TypeOK, RevisionsOK, NEW k \in Key \ mixed', TakesTurns(k),
           NEW s \in Slot, NEW c \in Call, Send(s, c), page = "secrets",
           c.mine, c.op # "rollback", c.pc = "sent",
           \/ c.op \in Unguarded
           \/ c.to = None /\ (c.key = k => On(k) \subseteq {t \in Slot : call[t].op \in Unguarded}),
           c.key = k /\ editor[k] # None => c.op \notin {"reveal", "edit"},
           c.to # None => c.op = "rename"
    PROVE  TakesTurns(k)'
<1> USE NoneAssumption
<1>1. /\ call[s] = None /\ call' = [call EXCEPT ![s] = c] /\ c # None
      /\ UNCHANGED <<page, editor, shown, own>>
      /\ busy' = busy \cup ({c.key} \ {None})
  BY DEF Send, screen, store
<1>2. CASE k \in {c.key, c.to}
  <2>1. On(k) = {}
    <3>1. \A o \in On(k) : c.op \notin Unguarded /\ call[o].op \notin Unguarded
      BY <1>2 DEF Send
    <3> QED
      BY <1>2, <3>1 
  <2>2. On(k)' \subseteq {s}
    BY <1>1, <2>1, OnIsOn DEF TypeOK
  <2>3. editor[k] # None => c.op \notin {"reveal", "edit"}
    BY <1>2
  <2> QED
    BY <1>1, <2>1, <2>2, <2>3, TurnBegins DEF TypeOK
<1>3. CASE k \notin {c.key, c.to}
  <2>1. \A t \in Slot : IsOn(call'[t], k) => Goes(call'[t], call[t]) /\ (k \in busy => k \in busy')
    BY <1>1, <1>3 DEF IsOn, Goes, TypeOK
  <2> QED
    BY <1>1, <2>1, QuietTurn
<1> QED
  BY <1>2, <1>3

LEMMA UserKeepsTurn ==
    ASSUME TypeOK, RevisionsOK, NEW k \in Key \ mixed', TakesTurns(k), User
    PROVE  TakesTurns(k)'
<1> USE NoneAssumption
<1>0. ASSUME NEW s \in Slot, k \in busy => k \in busy',
             IsOn(call'[s], k) => call'[s] = call[s]
      PROVE  IsOn(call'[s], k) => Goes(call'[s], call[s]) /\ (k \in busy => k \in busy')
  BY <1>0 DEF IsOn, Goes
<1>1. ASSUME NEW s \in Slot, NEW j \in Key, RevealKey(s, j)
      PROVE  TakesTurns(k)'
  <2> DEFINE c == NewCall("reveal", j)
  <2>1. c.op = "reveal" /\ c.key = j /\ c.to = None /\ c.mine /\ c.pc = "sent" /\ c \in Call
    BY NewCalls DEF NewCall
  <2>2. page = "secrets" /\ Send(s, c) /\ j \notin busy /\ editor[j] = None
    BY <1>1 DEF RevealKey, Cell, Table
  <2>3. j = k => On(k) \subseteq {t \in Slot : call[t].op \in Unguarded}
    BY <2>2, FreeKeys, CallsOnKeys DEF Unguarded
  <2> HIDE DEF c
  <2> QED
    BY <2>1, <2>2, <2>3, SendKeepsTurn
<1>2. ASSUME NEW s \in Slot, NEW j \in Key, BeginEdit(s, j)
      PROVE  TakesTurns(k)'
  <2> DEFINE c == [NewCall("edit", j) EXCEPT !.expected = seen]
  <2>1. c.op = "edit" /\ c.key = j /\ c.to = None /\ c.mine /\ c.pc = "sent" /\ c \in Call
    BY NewCalls DEF NewCall
  <2>2. page = "secrets" /\ Send(s, c) /\ j \notin busy /\ editor[j] = None
    BY <1>2 DEF BeginEdit, Cell, Table
  <2>3. j = k => On(k) \subseteq {t \in Slot : call[t].op \in Unguarded}
    BY <2>2, FreeKeys, CallsOnKeys DEF Unguarded
  <2> HIDE DEF c
  <2> QED
    BY <2>1, <2>2, <2>3, SendKeepsTurn
<1>3. ASSUME NEW s \in Slot, NEW j \in Key, Commit(s, j)
      PROVE  TakesTurns(k)'
  <2> DEFINE c == SaveCall(j)
  <2>1. c.op = "save" /\ c.key = j /\ c.to = None /\ c.mine /\ c.pc = "sent"
    BY DEF SaveCall, NewCall
  <2>2. /\ page = "secrets" /\ Send(s, c) /\ editor[j] # None /\ c \in Call
        /\ \A t \in On(j) : ~(call[t].op = "save" /\ call[t].mine)
    BY <1>3, SaveCalls DEF Commit, Commits, Cell, Table
  <2>3. ASSUME j = k, NEW t \in On(k)
        PROVE  t \in Slot /\ call[t].op \in Unguarded
    <3>1. call[t].op \notin {"rollback", "reveal", "edit", "save", "load"}
      BY <2>2, <2>3, CallsOnKeys DEF TakesTurns
    <3> QED
      BY <2>3, <3>1, CallsOnKeys DEF Unguarded, Call
  <2> HIDE DEF c
  <2> QED
    BY <2>1, <2>2, <2>3, SendKeepsTurn
<1>4. ASSUME NEW s \in Slot, NEW j \in Key, AddSecret(s, j)
      PROVE  TakesTurns(k)'
  <2> DEFINE c == [NewCall("add", j) EXCEPT !.expected = seen]
  <2>1. c.op = "add" /\ c.to = None /\ c.mine /\ c.pc = "sent" /\ c \in Call
    BY NewCalls DEF NewCall
  <2>2. page = "secrets" /\ Send(s, c)
    BY <1>4 DEF AddSecret, Table
  <2> HIDE DEF c
  <2> QED
    BY <2>1, <2>2, SendKeepsTurn DEF Unguarded
<1>5. ASSUME NEW s \in Slot, NEW j \in Key, Remove(s, j)
      PROVE  TakesTurns(k)'
  <2> DEFINE c == [NewCall("remove", j) EXCEPT !.expected = seen]
  <2>1. c.op = "remove" /\ c.to = None /\ c.mine /\ c.pc = "sent" /\ c \in Call
    BY NewCalls DEF NewCall
  <2>2. page = "secrets" /\ Send(s, c)
    BY <1>5 DEF Remove, Cell, Table
  <2> HIDE DEF c
  <2> QED
    BY <2>1, <2>2, SendKeepsTurn DEF Unguarded
<1>6. ASSUME NEW s \in Slot, NEW j \in Key, NEW to \in Key, Rename(s, j, to)
      PROVE  TakesTurns(k)'
  <2> DEFINE c == [NewCall("rename", j) EXCEPT !.to = to]
  <2>1. c.op = "rename" /\ c.mine /\ c.pc = "sent" /\ c \in Call
    BY NewCalls DEF NewCall
  <2>2. page = "secrets" /\ Send(s, c)
    BY <1>6 DEF Rename, Cell, Table
  <2> HIDE DEF c
  <2> QED
    BY <2>1, <2>2, SendKeepsTurn DEF Unguarded
<1>7. ASSUME NEW s \in Slot, NEW j \in Key, Rollback(s, j)
      PROVE  TakesTurns(k)'
  <2> DEFINE c == [NewCall("rollback", j) EXCEPT !.mine = FALSE]
  <2>1. c.op = "rollback"
    BY DEF NewCall
  <2>2. /\ page = "history" /\ UNCHANGED <<page, own, editor, shown, busy>>
        /\ call[s] = None /\ call' = [call EXCEPT ![s] = c]
    BY <1>7 DEF Rollback, screen, store
  <2> HIDE DEF c
  <2>3. \A t \in On(k)' : t = s \/ (t \in On(k) /\ call'[t] = call[t])
    BY <2>2, OnIsOn DEF TypeOK
  <2>4. \A t \in On(k)' : call'[t].op = "rollback"
    BY <2>1, <2>2, <2>3, OnIsOn DEF TypeOK, TakesTurns
  <2> QED
    BY <2>2, <2>4 DEF TakesTurns
<1>8. ASSUME NEW j \in Key, HideKey(j) \/ WipeAll \/ CancelEdit(j)
      PROVE  TakesTurns(k)'
  <2>1. /\ UNCHANGED <<page, own, busy, call>>
        /\ editor'[k] \in {editor[k], None} /\ shown'[k] \in {shown[k], None}
    BY <1>8 DEF HideKey, Hide, WipeAll, Wipe, Nothing, CancelEdit, TypeOK, rest, screen, store
  <2> QED
    BY <1>0, <2>1, QuietTurn
<1>9. ASSUME NEW to, Turn(to), shown'[k] \in {shown[k], None},
             \A s \in Slot : IsOn(call'[s], k) => IsOn(call[s], k)
      PROVE  TakesTurns(k)'
  <2>1. On(k) = {}
    BY <1>9 DEF Turn
  <2>2. On(k)' = {}
    BY <1>9, <2>1, OnIsOn
  <2>3. shown'[k] # None => shown'[k].value >= own'[k]
    BY <1>9 DEF Turn, TakesTurns
  <2> QED
    BY <2>2, <2>3, TurnsOver
<1>10. \A s \in Slot : IsOn(Orphaned[s], k) => IsOn(call[s], k)
  BY DEF Orphaned, IsOn, TypeOK, Call
<1>11. ~IsOn(LoadCall, k)
  BY DEF IsOn, LoadCall, NewCall
<1>12. ASSUME NEW s \in Slot, OpenSecrets(s)
       PROVE  TakesTurns(k)'
  <2>1. \A t \in Slot : IsOn(call'[t], k) => IsOn(call[t], k)
    BY <1>10, <1>11, <1>12, OrphanedType DEF OpenSecrets
  <2> QED
    BY <1>9, <1>12, <2>1 DEF OpenSecrets, store
<1>13. ASSUME NEW s \in Slot, Retry(s)
       PROVE  TakesTurns(k)'
  <2>1. UNCHANGED <<page, own, busy, editor, shown>>
    BY <1>13 DEF Retry, store
  <2>2. \A t \in Slot : IsOn(call'[t], k) => call'[t] = call[t]
    BY <1>11, <1>13 DEF Retry, TypeOK
  <2> QED
    BY <1>0, <2>1, <2>2, QuietTurn
<1>14. CASE OpenHistory
  BY <1>9, <1>10, <1>14 DEF OpenHistory, store
<1>15. CASE Leave
  BY <1>9, <1>10, <1>15 DEF Leave, Wipe, Nothing
<1>16. CASE WipeAll
  BY <1>8, <1>16
<1> QED
  BY <1>1, <1>2, <1>3, <1>4, <1>5, <1>6, <1>7, <1>8, <1>12, <1>13, <1>14, <1>15, <1>16 DEF User

LEMMA ServerKeepsTurn ==
    ASSUME TypeOK, RevisionsOK, NEW k \in Key \ mixed', TakesTurns(k),
           NEW s \in Slot, Serve(s) \/ ListSecrets(s) \/ GetEnvironment(s)
    PROVE  TakesTurns(k)'
<1> USE NoneAssumption
<1> DEFINE c == call[s]
<1>1. c # None /\ c \in Call /\ CallOK(c, rev, val)
  BY DEF Serve, ListSecrets, GetEnvironment, TypeOK, RevisionsOK
<1>2. /\ UNCHANGED <<page, own, editor, shown, busy>>
      /\ \A t \in Slot \ {s} : call'[t] = call[t]
      /\ call'[s].op = c.op /\ call'[s].key = c.key /\ call'[s].to = c.to
      /\ call'[s].mine = c.mine
      /\ call'[s].op = "reveal" /\ call'[s].pc = "answered" =>
            \/ c.pc = "answered" /\ call'[s].got = c.got
            \/ call'[s].got = val[c.key] /\ val[c.key] # 0
  BY <1>1 DEF Serve, ServeReveal, ServeWrite, Goto, Reply, ListSecrets, GetEnvironment, TypeOK, Call,
              server, tab, screen, store
<1>3. On(k)' = On(k)
  <2>1. call'[s] # None
    BY ServedCall DEF TypeOK
  <2> QED
    <3>1. \A t \in Slot : IsOn(call'[t], k) <=> IsOn(call[t], k)
      BY <1>1, <1>2, <2>1 DEF IsOn
    <3> QED
      BY <3>1, OnIsOn
<1>4. ASSUME NEW t \in On(k), call'[t].op = "reveal", call'[t].pc = "answered"
      PROVE  call'[t].got >= own'[k]
  <2>1. t # s => call'[t] = call[t]
    BY <1>2, OnIsOn
  <2>2. call[t].op = "reveal" /\ call[t].key = k
    BY <1>2, <1>4, <2>1, CallsOnKeys
  <2>3. val[k] # 0 => val[k] >= own[k]
    BY DEF RevisionsOK, KeyOK, TypeOK
  <2> QED
    BY <1>2, <1>4, <2>1, <2>2, <2>3 DEF TakesTurns
<1>5. \A t \in On(k) : call'[t].op = call[t].op /\ call'[t].key = call[t].key
                      /\ call'[t].mine = call[t].mine
  BY <1>2, OnIsOn
<1> QED
  BY <1>2, <1>3, <1>4, <1>5 DEF TakesTurns

LEMMA EndedCall ==
    ASSUME TypeOK, RevisionsOK, NEW k \in Key \ mixed, TakesTurns(k),
           NEW s \in Slot, call[s] # None, End(s),
           page' = page, own' = own, editor'[k] \in {editor[k], None}, shown'[k] = shown[k]
    PROVE  TakesTurns(k)'
<1> USE NoneAssumption
<1>1. \A t \in On(k)' : t \in On(k) /\ t # s /\ call'[t] = call[t]
  BY OnIsOn DEF End, IsOn, TypeOK
<1>2. CASE page = "secrets"
  <2>1. CASE s \in On(k)
    <3>1. On(k)' = {}
      BY <1>1, <1>2, <2>1 DEF TakesTurns
    <3> QED
      BY <3>1, TurnsOver DEF TakesTurns
  <2>2. CASE s \notin On(k)
    <3>1. k \in busy => k \in busy'
      BY <2>2, OnIsOn DEF End, IsOn, TypeOK
    <3> QED
      BY <1>1, <3>1, QuietTurn, OnIsOn DEF Goes, IsOn
  <2> QED
    BY <2>1, <2>2
<1>3. CASE page # "secrets"
  BY <1>1, <1>3 DEF TakesTurns
<1> QED
  BY <1>2, <1>3

LEMMA AnswersKeepTurn ==
    ASSUME TypeOK, RevisionsOK, NEW k \in Key \ mixed', TakesTurns(k),
           NEW s \in Slot, Answer(s) \/ Refreshed(s) \/ Fail(s)
    PROVE  TakesTurns(k)'
<1> USE NoneAssumption
<1> DEFINE c == call[s]
<1>1. c # None /\ c \in Call /\ CallOK(c, rev, val) /\ k \in Key \ mixed
  BY DEF Answer, Refreshed, Fail, TypeOK, RevisionsOK
<1>2. CASE Refreshed(s) \/ Fail(s)
  <2>1. /\ End(s) /\ page' = page /\ own' = own /\ shown'[k] = shown[k]
        /\ editor'[k] \in {editor[k], None}
    BY <1>2 DEF Refreshed, Fail, store
  <2> QED
    BY <1>1, <2>1, EndedCall
<1>3. CASE Answer(s) /\ ShowValue(s)
  <2>1. /\ c.op = "reveal" /\ c.pc = "answered" /\ c.key \in Key /\ c.to = None
        /\ End(s) /\ UNCHANGED <<page, editor, own>>
        /\ shown' = [shown EXCEPT ![c.key] = [value |-> c.got, due |-> FALSE]]
    BY <1>1, <1>3 DEF Answer, ShowValue, CallOK, Call, screen
  <2>2. CASE k = c.key
    <3>1. s \in On(k)
      BY <1>1, <2>2, OnIsOn DEF IsOn
    <3>2. On(k) = {s} /\ c.got >= own[k]
      BY <2>1, <3>1 DEF TakesTurns
    <3>3. On(k)' = {}
      BY <2>1, <3>2, OnIsOn DEF End, IsOn, TypeOK
    <3>4. shown'[k].value >= own'[k]
      BY <2>1, <2>2, <3>2 DEF TypeOK
    <3> QED
      BY <3>3, <3>4, TurnsOver
  <2>3. CASE k # c.key
    BY <1>1, <2>1, <2>3, EndedCall DEF TypeOK
  <2> QED
    BY <2>2, <2>3
<1>4. CASE Answer(s) /\ OpenEditor(s)
  <2>1. /\ c.op = "edit" /\ c.key \in Key /\ c.to = None
        /\ End(s) /\ UNCHANGED <<page, own, shown>>
        /\ k # c.key => editor'[k] = editor[k]
    BY <1>1, <1>4 DEF Answer, OpenEditor, CallOK, Call, store, TypeOK
  <2>2. CASE k = c.key
    <3>1. s \in On(k)
      BY <1>1, <2>2, OnIsOn DEF IsOn
    <3>2. On(k) = {s}
      BY <2>1, <3>1 DEF TakesTurns
    <3>3. On(k)' = {}
      BY <2>1, <3>2, OnIsOn DEF End, IsOn, TypeOK
    <3> QED
      BY <2>1, <3>3, TurnsOver DEF TakesTurns
  <2>3. CASE k # c.key
    BY <1>1, <2>1, <2>3, EndedCall
  <2> QED
    BY <2>2, <2>3
<1>5. CASE Answer(s) /\ Written(s)
  <2>1. /\ c.op \notin {"reveal", "edit", "load"} /\ c.key \in Key
        /\ call' = [call EXCEPT ![s].pc = "reading"]
        /\ UNCHANGED <<page, editor, busy>>
        /\ shown'[c.key] = None
        /\ k # c.key => shown'[k] = shown[k] /\ own'[k] = own[k]
    BY <1>1, <1>5 DEF Answer, Written, Goto, Hide, CallOK, Call, TypeOK
  <2>2. \A t \in Slot : IsOn(call'[t], k) => Goes(call'[t], call[t])
    BY <1>1, <2>1 DEF IsOn, Goes, TypeOK, Call
  <2>3. CASE k = c.key
    <3>1. s \in On(k)
      BY <1>1, <2>3, OnIsOn DEF IsOn
    <3>2. \A t \in On(k)' : t \in On(k) /\ Goes(call'[t], call[t])
      BY <2>2, OnIsOn DEF IsOn, Goes
    <3>3. \A t \in On(k) : call[t].op # "reveal"
      BY <2>1, <3>1 DEF TakesTurns
    <3> QED
      BY <2>1, <2>3, <3>2, <3>3 DEF TakesTurns, Goes
  <2>4. CASE k # c.key
    BY <2>1, <2>2, <2>4, QuietTurn
  <2> QED
    BY <2>3, <2>4
<1> QED
  BY <1>2, <1>3, <1>4, <1>5 DEF Answer

LEMMA RestKeepsTurn ==
    ASSUME TypeOK, NEW k \in Key, TakesTurns(k),
           (\E j \in Key : Other(j) \/ Expire(j)) \/ Sweep
    PROVE  TakesTurns(k)'
<1>1. UNCHANGED <<page, own, editor, busy, call>>
  BY DEF Other, Expire, Sweep, tab, rest, screen
<1>2. shown'[k] # None => shown[k] # None /\ shown'[k].value = shown[k].value
  BY DEF Other, Expire, Sweep, tab, store, TypeOK, Revealed
<1>3. \A s \in Slot : IsOn(call'[s], k) => Goes(call'[s], call[s])
  BY <1>1 DEF IsOn, Goes
<1> QED
  BY <1>1, <1>2, <1>3, QuietTurn
----------------------------------------------------------------------------
(* The invariant, and what follows.                                          *)

LEMMA MixedGrows == Next => mixed \subseteq mixed'
  BY DEF Next, User, RevealKey, BeginEdit, Commit, AddSecret, Remove, Rollback, Rename, Send,
         HideKey, CancelEdit, OpenSecrets, Retry, WipeAll, OpenHistory, Leave, Turn, Serve,
         ListSecrets, GetEnvironment, Answer, Refreshed, Fail, Other, Expire, Sweep, rest, tab

LEMMA InitIInv == Init => IInv
<1> SUFFICES ASSUME Init
             PROVE  IInv
  OBVIOUS
<1> USE PresentAssumption, NoneAssumption
<1>1. TypeOK
  BY DEF Init, TypeOK, Nothing
<1>2. RevisionsOK
  BY DEF Init, RevisionsOK, KeyOK, Nothing
<1>3. TurnsOK
  BY DEF Init, TurnsOK, TakesTurns, On, Nothing
<1> QED
  BY <1>1, <1>2, <1>3 DEF IInv

LEMMA NextIInv == IInv /\ [Next]_vars => IInv'
<1> SUFFICES ASSUME IInv, [Next]_vars
             PROVE  IInv'
  OBVIOUS
<1>1. TypeOK /\ RevisionsOK /\ \A k \in Key \ mixed : TakesTurns(k)
  BY DEF IInv, TurnsOK
<1>2. CASE Next
  <2>1. TypeOK'
    BY <1>1, <1>2, UserKeepsType, ServerKeepsType, AnswersKeepType, RestKeepsType DEF Next
  <2>2. RevisionsOK'
    BY <1>1, <1>2, UserKeepsRevisions, ServerKeepsRevisions, AnswersKeepRevisions,
       RestKeepsRevisions DEF Next
  <2>3. ASSUME NEW k \in Key \ mixed'
        PROVE  TakesTurns(k)'
    <3>1. TakesTurns(k)
      BY <1>1, <1>2, MixedGrows
    <3> QED
      BY <1>1, <1>2, <3>1, UserKeepsTurn, ServerKeepsTurn, AnswersKeepTurn, RestKeepsTurn DEF Next
  <2> QED
    BY <2>1, <2>2, <2>3 DEF IInv, TurnsOK
<1>3. CASE UNCHANGED vars
  BY <1>3 DEF vars, IInv, TypeOK, RevisionsOK, KeyOK, TurnsOK, TakesTurns, On
<1> QED
  BY <1>2, <1>3

THEOREM ScreenInvariant == FairSpec => []IInv
  BY InitIInv, NextIInv, PTL DEF FairSpec, Spec

(* The screen's state is of its type, whatever is written elsewhere and in   *)
(* whichever order the answers come.                                         *)
THEOREM ScreenTypes == FairSpec => []TypeOK
<1>1. IInv => TypeOK
  BY DEF IInv
<1> QED
  BY <1>1, ScreenInvariant, PTL

(* A value on the screen is no older than what this tab knows it has saved,  *)
(* where every call on its key went through the busy set.                    *)
THEOREM OldValuesDoNotLinger == FairSpec => []NothingOldLingers
<1>1. IInv => NothingOldLingers
  BY DEF IInv, TurnsOK, TakesTurns, NothingOldLingers
<1> QED
  BY <1>1, ScreenInvariant, PTL

LEMMA AnsweredByTheServer ==
    ASSUME TypeOK, RevisionsOK, NEW s \in Slot, call[s] # None, call[s].pc = "sent",
           call'[s] # None, call'[s].pc = "answered", Next
    PROVE  Serve(s)
<1>1. call[s] \in Call
  BY DEF TypeOK
<1>2. ASSUME call'[s] \in {call[s], None}
      PROVE  FALSE
  BY <1>2
<1>3. ASSUME call'[s] = Orphaned[s]
      PROVE  FALSE
  BY <1>1, <1>3 DEF Orphaned, Call
<1>4. ASSUME User
      PROVE  FALSE
  <2>1. call' = call \/ call' = Orphaned
        \/ \E t \in Slot : \E c \in Call :
              call[t] = None /\ call' \in {[call EXCEPT ![t] = c], [Orphaned EXCEPT ![t] = c]}
    <3>1. ASSUME NEW t \in Slot, OpenSecrets(t) \/ Retry(t)
          PROVE  /\ call[t] = None
                 /\ call' \in {[call EXCEPT ![t] = LoadCall], [Orphaned EXCEPT ![t] = LoadCall]}
      BY <3>1 DEF OpenSecrets, Retry
    <3>2. ASSUME NEW t \in Slot, NEW k \in Key,
                 RevealKey(t, k) \/ BeginEdit(t, k) \/ Commit(t, k) \/ AddSecret(t, k)
                 \/ Remove(t, k) \/ Rollback(t, k) \/ \E to \in Key : Rename(t, k, to)
          PROVE  call[t] = None /\ \E c \in Call : call' = [call EXCEPT ![t] = c]
      BY <3>2, NewCalls, SaveCalls
      DEF RevealKey, BeginEdit, Commit, Commits, AddSecret, Remove, Rollback, Rename, Send
    <3> QED
      BY <1>4, <3>1, <3>2, LoadCallType
      DEF User, HideKey, CancelEdit, WipeAll, OpenHistory, Leave, rest
  <2> QED
    BY <1>2, <1>3, <2>1, OrphanedType DEF TypeOK
<1>5. ASSUME NEW t \in Slot, t # s,
             Serve(t) \/ ListSecrets(t) \/ GetEnvironment(t) \/ Answer(t) \/ Refreshed(t) \/ Fail(t)
      PROVE  FALSE
  <2>1. call'[s] = call[s]
    BY <1>5 DEF Serve, ServeReveal, ServeWrite, Goto, Reply, ListSecrets, GetEnvironment, Answer,
       ShowValue, OpenEditor, Written, End, Refreshed, Fail, TypeOK
  <2> QED
    BY <1>2, <2>1
<1>6. ASSUME ListSecrets(s) \/ GetEnvironment(s) \/ Answer(s) \/ Refreshed(s) \/ Fail(s)
      PROVE  FALSE
  BY <1>6 DEF ListSecrets, GetEnvironment, Answer, Refreshed, Fail, End, TypeOK
<1>7. ASSUME (\E k \in Key : Other(k) \/ Expire(k)) \/ Sweep
      PROVE  FALSE
  <2>1. call' = call
    BY <1>7 DEF Other, Expire, Sweep, rest
  <2> QED
    BY <1>2, <2>1
<1> QED
  BY <1>4, <1>5, <1>6, <1>7 DEF Next

(* A save whose editor the page's revision has not moved under replaces the  *)
(* value that the editor was opened with, or is refused.                     *)
THEOREM SavesMeetWhatWasSeen == FairSpec => SavesReplaceWhatWasSeen
<1> DEFINE Meets(s) ==
      call[s] # None /\ call[s].op = "save" /\ call[s].steady /\ call[s].pc = "sent"
      /\ call'[s] # None /\ call'[s].pc = "answered"
      => val[call[s].key] = call[s].draft
<1>1. ASSUME IInv, [Next]_vars, NEW s \in Slot
      PROVE  Meets(s)
  <2> SUFFICES ASSUME call[s] # None, call[s].op = "save", call[s].steady, call[s].pc = "sent",
                      call'[s] # None, call'[s].pc = "answered"
               PROVE  val[call[s].key] = call[s].draft
    OBVIOUS
  <2>1. call[s] \in Call /\ CallOK(call[s], rev, val)
    BY <1>1 DEF IInv, RevisionsOK, TypeOK
  <2>2. Serve(s)
    BY <1>1, <2>1, AnsweredByTheServer DEF vars, IInv
  <2>3. Refuses(call[s]) => Goto(s, "refused")
    BY <2>2 DEF Serve, ServeReveal, ServeWrite
  <2>4. Goto(s, "refused") => call'[s].pc = "refused"
    BY <1>1, <2>1 DEF Goto, IInv, TypeOK, Call
  <2>5. ~Refuses(call[s])
    BY <2>3, <2>4
  <2> QED
    BY <2>1, <2>5 DEF Refuses, Conflict, CallOK
<1>2. IInv /\ [Next]_vars => [\A s \in Slot : Meets(s)]_vars
  BY <1>1
<1> QED
  BY <1>2, ScreenInvariant, PTL DEF FairSpec, Spec, SavesReplaceWhatWasSeen
=============================================================================
