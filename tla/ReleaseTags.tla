----------------------------- MODULE ReleaseTags -----------------------------
(* Cutting a release: the tags of one release line on one day, numbered from *)
(* zero, claimed by pushing them (scripts/version.mjs, and the cut command   *)
(* of cli-release.mjs, docs.mjs and app.mjs). A maintainer may cut from two  *)
(* terminals of one clone; a cut may be killed between any two of its git    *)
(* commands, and the answer to a push may be lost.                           *)
(*                                                                           *)
(* A tag is its number and the cut that made it, which its annotation names: *)
(* two tags of one number are two objects. The lines are told apart by their *)
(* prefixes and count for themselves; one is modelled. Not modelled: the     *)
(* dates, which a cut reads once.                                            *)
EXTENDS Naturals, FiniteSets

CONSTANTS Cut,      \* The cuts.
          Clone,    \* The clones they run in.
          Home(_),  \* The clone of a cut.
          Attempts, \* How often a cut tries (5 in the code).
          MaxFaults \* Kills and lost answers.

VARIABLES remote, \* The tags of the origin.
          local,  \* Those of each clone.
          cut,    \* What each cut is doing.
          faults

vars == <<remote, local, cut, faults>>

Tag == [n : Nat, by : Cut]
Numbers(tags) == {t.n : t \in tags}
At(tags, n) == {t \in tags : t.n = n}

Started == [at |-> "fetch", attempt |-> 1, plan |-> 0, shown |-> 0]
Idle == [at |-> "idle", attempt |-> 0, plan |-> 0, shown |-> 0]

Init ==
    /\ remote = {}
    /\ local = [k \in Clone |-> {}]
    /\ cut = [c \in Cut |-> Idle]
    /\ faults = 0

Goes(c, at) == cut' = [cut EXCEPT ![c].at = at]

-----------------------------------------------------------------------------
(* The number after those that are taken, or a refusal: the count and the    *)
(* highest must agree, so a hole is never filled nor skipped.                *)

ComputePatch(tags) ==
    LET next == Cardinality(Numbers(tags))
    IN  IF \A n \in Numbers(tags) : n < next THEN {next} ELSE {}

(* The plan shown before the cut is made from the clone as it stands.        *)
Main(c) ==
    /\ cut[c].at = "idle"
    /\ \/ \E n \in ComputePatch(local[Home(c)]) :
              cut' = [cut EXCEPT ![c] = [Idle EXCEPT !.at = "shown", !.shown = n]]
       \/ ComputePatch(local[Home(c)]) = {} /\ Goes(c, "refused")
    /\ UNCHANGED <<remote, local, faults>>

(* The tag is typed, or --yes was given; or it is neither.                   *)
Confirm(c) ==
    /\ cut[c].at = "shown"
    /\ \/ cut' = [cut EXCEPT ![c] = [Started EXCEPT !.shown = cut[c].shown]]
       \/ Goes(c, "aborted")
    /\ UNCHANGED <<remote, local, faults>>

(* git fetch --tags --force --prune: the origin's tags replace those of      *)
(* their name; a tag the origin does not have stays.                         *)
Fetch(c) ==
    /\ cut[c].at = "fetch"
    /\ local' = [local EXCEPT ![Home(c)] =
                    remote \union {t \in @ : t.n \notin Numbers(remote)}]
    /\ Goes(c, "plan")
    /\ UNCHANGED <<remote, faults>>

Plan(c) ==
    /\ cut[c].at = "plan"
    /\ \/ \E n \in ComputePatch(local[Home(c)]) :
              cut' = [cut EXCEPT ![c].at = "create", ![c].plan = n]
       \/ ComputePatch(local[Home(c)]) = {} /\ Goes(c, "refused")
    /\ UNCHANGED <<remote, local, faults>>

(* After a failure the tag is dropped from the clone, whoever made it, and   *)
(* the cut tries again.                                                      *)
Retry(c) ==
    /\ local' = [local EXCEPT ![Home(c)] = @ \ At(@, cut[c].plan)]
    /\ IF cut[c].attempt < Attempts
       THEN cut' = [cut EXCEPT ![c].at = "fetch", ![c].attempt = @ + 1]
       ELSE Goes(c, "gave up")

Create(c) ==
    /\ cut[c].at = "create"
    /\ IF At(local[Home(c)], cut[c].plan) = {}
       THEN /\ local' = [local EXCEPT ![Home(c)] = @ \union {[n |-> cut[c].plan, by |-> c]}]
            /\ Goes(c, "push")
       ELSE Retry(c)
    /\ UNCHANGED <<remote, faults>>

(* git push of the tag: refused if the origin has another of its name, or    *)
(* the clone no longer has it.                                               *)
CanPush(c) == /\ At(local[Home(c)], cut[c].plan) # {}
              /\ At(remote, cut[c].plan) \subseteq local[Home(c)]

Push(c) ==
    /\ cut[c].at = "push" /\ CanPush(c)
    /\ remote' = remote \union At(local[Home(c)], cut[c].plan)
    /\ Goes(c, "done")
    /\ UNCHANGED <<local, faults>>

PushRejected(c) ==
    /\ cut[c].at = "push" /\ ~CanPush(c)
    /\ Retry(c)
    /\ UNCHANGED <<remote, faults>>

(* The push arrives and its answer does not, or neither does.                *)
PushLost(c) ==
    /\ cut[c].at = "push" /\ faults < MaxFaults
    /\ \/ CanPush(c) /\ remote' = remote \union At(local[Home(c)], cut[c].plan)
       \/ UNCHANGED remote
    /\ Retry(c)
    /\ faults' = faults + 1

Kill(c) ==
    /\ cut[c].at \in {"fetch", "plan", "create", "push"} /\ faults < MaxFaults
    /\ Goes(c, "idle")
    /\ faults' = faults + 1
    /\ UNCHANGED <<remote, local>>

Next ==
    \E c \in Cut : \/ Main(c) \/ Confirm(c) \/ Fetch(c) \/ Plan(c) \/ Create(c)
                   \/ Push(c) \/ PushRejected(c) \/ PushLost(c) \/ Kill(c)

Spec == Init /\ [][Next]_vars

-----------------------------------------------------------------------------
Alone(c) == \A d \in Cut \ {c} : Home(d) # Home(c)

(* A number is released once. A cut that reports a tag has it on the origin, *)
(* and it is that cut's own if no other runs in its clone: two people that   *)
(* cut at once do not both take it. (Two cuts in one clone may both report   *)
(* one tag: a fetch of the one replaces the tag the other is about to push,  *)
(* and git calls pushing what is there already a success.)                   *)
NoNumberIsReused ==
    /\ \A t, u \in remote : t.n = u.n => t = u
    /\ \A c \in Cut : cut[c].at = "done" =>
           /\ At(remote, cut[c].plan) # {}
           /\ Alone(c) => \A t \in At(remote, cut[c].plan) : t.by = c
=============================================================================
