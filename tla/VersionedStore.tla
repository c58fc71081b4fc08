-------------------------- MODULE VersionedStore --------------------------
(***************************************************************************)
(* What the secret store promises, with no transaction, row or request in  *)
(* sight: one environment that holds, per key, the whole sequence of       *)
(* values it ever had, with a mark for every deletion; the keys that are   *)
(* live; and a revision that counts mutations.  Every operation happens    *)
(* in one instant and appends: no value is ever replaced or dropped while  *)
(* the environment exists.                                                 *)
(***************************************************************************)
EXTENDS Naturals, Sequences

CONSTANTS Key, Value, Deleted

VARIABLES exists, rev, history, live

store == <<exists, rev, history, live>>

Empty == [k \in Key |-> <<>>]
Latest(k) == history[k][Len(history[k])]

Init == exists = TRUE /\ rev = 0 /\ history = Empty /\ live = {}

(* Some keys get a value, some live keys are deleted, all at once. *)
Write(set, gone) ==
    /\ exists
    /\ gone \subseteq live \ DOMAIN set
    /\ history' = [k \in Key |->
         IF k \in DOMAIN set THEN Append(history[k], set[k])
         ELSE IF k \in gone THEN Append(history[k], Deleted)
         ELSE history[k]]
    /\ live' = (live \cup DOMAIN set) \ gone
    /\ rev' = rev + 1
    /\ UNCHANGED exists

(* An earlier value of the key is appended again; what is live stays so. *)
Rollback(k, i) ==
    /\ exists
    /\ history[k][i] # Deleted
    /\ history' = [history EXCEPT ![k] = Append(@, history[k][i])]
    /\ rev' = rev + 1
    /\ UNCHANGED <<exists, live>>

(* The value a live key has now moves to a key that is not live. *)
Rename(old, new) ==
    /\ exists
    /\ old \in live
    /\ new \notin live
    /\ history' = [history EXCEPT ![new] = Append(@, Latest(old)), ![old] = Append(@, Deleted)]
    /\ live' = (live \cup {new}) \ {old}
    /\ rev' = rev + 1
    /\ UNCHANGED exists

Reset(present) ==
    /\ exists = ~present
    /\ exists' = present
    /\ rev' = 0
    /\ history' = Empty
    /\ live' = {}

Next ==
    \/ \E K \in SUBSET Key : \E set \in [K -> Value], gone \in SUBSET live : Write(set, gone)
    \/ \E k \in Key : \E i \in DOMAIN history[k] : Rollback(k, i)
    \/ \E old, new \in Key : Rename(old, new)
    \/ \E present \in BOOLEAN : Reset(present)

Spec == Init /\ [][Next]_store
=============================================================================
