--------------------------- MODULE MCSecretStore ---------------------------
(***************************************************************************)
(* Small instances of SecretStore: two keys, two plaintexts, two request   *)
(* slots that are reused until the revision reaches its bound.  The bodies *)
(* are grouped by what they disturb in each other, and the run plays each  *)
(* group in turn; and, by itself, the column that keeps one sealed value.  *)
(***************************************************************************)
EXTENDS SecretStore, TLC

CONSTANTS a, b, x, y, c1, c2,
          Rows, Plaintexts, Malformed, KidOf, Ivs, Bytes, MaxLength, Nowhere,
          KID_BYTES, IV_BYTES, TAG_BYTES

VARIABLES theme,  \* what is played, chosen at the start
          sealed, written, stored, opened

Column == INSTANCE Envelope WITH MaxBytes <- MaxLength, Absent <- Nowhere

ASSUME ColumnAssumption == Column!LayoutFits

column == <<sealed, written, stored, opened>>

Body(mode, set, del, guarded) ==
    [kind |-> "write", mode |-> mode, set |-> set, delete |-> del, guarded |-> guarded]
Slots == Permutations(Client)
Nothing == [k \in {} |-> x]

(* Writers that collide on one key, replace the whole, delete and recreate. *)
WriteInputs ==
    {Body("merge", a :> x, {}, FALSE),
     Body("merge", (a :> y) @@ (b :> x), {}, FALSE),
     Body("merge", b :> y, {a}, FALSE),
     Body("merge", a :> x, {a}, FALSE),
     Body("replace", b :> x, {}, FALSE),
     Body("replace", Nothing, {}, FALSE)}

(* Moves against writes, with the environment deleted under them. *)
MoveInputs ==
    {Body("merge", a :> x, {}, FALSE),
     Body("replace", b :> y, {}, FALSE)}
    \cup [kind: {"rollback"}, key: {a, b}, to: {1, 2}]
    \cup [kind: {"rename"}, old: {a}, new: {b}]
    \cup [kind: {"rename"}, old: {b}, new: {a}]
    \cup [kind: {"delete_env"}]

(* Conditional writes against the listing they were conditioned on, while  *)
(* the slug is deleted and created again.                                  *)
GuardedInputs ==
    {Body("replace", a :> x, {}, TRUE),
     Body("merge", b :> x, {}, TRUE),
     Body("merge", b :> x, {a}, FALSE)}
    \cup [kind: {"list", "delete_env", "create_env"}]
    \cup [kind: {"rename"}, old: {b}, new: {a}]

SafetyInputs == WriteInputs \cup MoveInputs \cup GuardedInputs

(* Two rows differ by their version, and two by where a field ends. *)
Row(p, e, k, v) == [purpose |-> p, environment |-> e, key |-> k, version |-> v]
MCRows == {Row(<<1>>, <<2>>, <<3, 0, 1>>, 1), Row(<<1>>, <<2>>, <<3, 0, 1>>, 257),
           Row(<<1>>, <<2, 3>>, <<0, 1>>, 1), Row(<<1, 2>>, <<3>>, <<0, 1>>, 1)}
(* One is a byte order mark, and one is longer than fits.                   *)
MCPlaintexts == {<<>>, <<7>>, <<239, 187, 191>>, <<239, 187, 191, 7>>}
MCMalformed == {<<255>>}
MCKidOf == ("old" :> <<0>>) @@ ("new" :> <<255>>)
MCIvs == {<<0>>}

(* The bodies, revisions and lifetimes of the slug that a theme plays with. *)
Theme ==
    [writes  |-> [inputs |-> WriteInputs,   revs |-> 3, envs |-> 1],
     moves   |-> [inputs |-> MoveInputs,    revs |-> 3, envs |-> 1],
     guarded |-> [inputs |-> GuardedInputs, revs |-> 2, envs |-> 2]]

InTheme ==
    /\ env'.id <= Theme[theme].envs
    /\ \A c \in Client :
        req[c].pc = "idle" /\ req'[c].pc # "idle"
            => /\ req'[c].input \in Theme[theme].inputs
               /\ env.rev < Theme[theme].revs

ThemedInit == Init /\ Column!Init /\ theme \in DOMAIN Theme \union {"column"}

ThemedNext ==
    \/ theme \in DOMAIN Theme /\ Next /\ InTheme /\ UNCHANGED <<theme, column>>
    \/ theme = "column" /\ Column!Next /\ UNCHANGED <<theme, vars>>

(* Every behaviour of it is one of SecretStore, or of the column. *)
ThemedSpec ==
    /\ ThemedInit
    /\ [][ThemedNext]_<<vars, theme, column>>

(* A column that was altered is not read as if it were the one written, and *)
(* a value opens for its row and under its key only, as itself but for a    *)
(* byte order mark it starts with.                                          *)
ValuesOpenAsSealed ==
    Column!AlteredIsNotRead /\ Column!OpensAsSealed /\ Column!AlphabetsAgree
=============================================================================
