------------------------------- MODULE Dotenv --------------------------------
(* What a .env file says, to its three readers and writers: the import,      *)
(* which parses it strictly (core/dotenv.ts); the diff of the MCP server,    *)
(* which scans it for names and builds no value (dotenv-keys.ts); and the    *)
(* export of the web interface, which writes one (client/dotenv.ts).         *)
(*                                                                           *)
(* A text is a sequence of symbols. A symbol is a character the code treats  *)
(* in a way of its own, or one that stands for a class: "x" for the letters, *)
(* "n" for the letters an escape gives a meaning, "-" for what no name may   *)
(* hold, "export" for that word, "bell" for the other controls. Not          *)
(* modelled: the byte order mark, the tab (treated as the space is), the     *)
(* warning about $NAME, and the wording and line numbers of the refusals.    *)
EXTENDS Naturals, Sequences, SequencesExt

CONSTANTS Texts,     \* The files the import and the diff are given.
          Values     \* The values an environment that is exported may hold.

VARIABLES file,      \* The text.
          exported,  \* The values it was written from, or <<>> if it was not.
          imported,  \* What the import reads in it.
          scanned    \* What the diff reads in it.

vars == <<file, exported, imported, scanned>>

Name == {"x", "n", "export"}
Blank == {"sp", "cr"}
Unread == [state |-> "unread"]

(* Where the line that holds position i ends: at its newline or past the     *)
(* text.                                                                     *)
RECURSIVE EndOfLine(_, _)
EndOfLine(t, i) == IF i > Len(t) \/ t[i] = "nl" THEN i ELSE EndOfLine(t, i + 1)

(* The first position that is neither blank nor in a comment.                *)
RECURSIVE SkipBlank(_, _)
SkipBlank(t, i) ==
    IF i > Len(t) THEN i
    ELSE IF t[i] \in Blank \union {"nl"} THEN SkipBlank(t, i + 1)
    ELSE IF t[i] = "hash" THEN SkipBlank(t, EndOfLine(t, i))
    ELSE i

RECURSIVE SkipSpaces(_, _)
SkipSpaces(t, i) ==
    IF i <= Len(t) /\ t[i] = "sp" THEN SkipSpaces(t, i + 1) ELSE i

(* The text without the blanks at its two ends.                              *)
Trim(t) ==
    LET solid == {k \in DOMAIN t : t[k] \notin Blank}
        edge(P(_, _)) == CHOOSE k \in solid : \A l \in solid : P(k, l)
    IN  IF solid = {} THEN <<>>
        ELSE SubSeq(t, edge(LAMBDA k, l : k <= l), edge(LAMBDA k, l : k >= l))

Line(t, i) == SubSeq(t, i, EndOfLine(t, i) - 1)

(* The name a line assigns, without the word export before it.               *)
NameOn(line, equals) ==
    LET name == Trim(SubSeq(line, 1, equals - 1))
    IN  IF Len(name) > 1 /\ name[1] = "export" /\ name[2] = "sp" THEN Trim(Tail(name)) ELSE name

EqualsOn(line) ==
    IF \E k \in DOMAIN line : line[k] = "eq"
    THEN CHOOSE k \in DOMAIN line : line[k] = "eq" /\ \A l \in 1..(k - 1) : line[l] # "eq"
    ELSE 0

ValidName(name) == name # <<>> /\ \A k \in DOMAIN name : name[k] \in Name

-----------------------------------------------------------------------------
(* The strict parser. A reader of a value returns the value and the position *)
(* after it, or a refusal.                                                   *)

Refused == [ok |-> FALSE]
Read(v, i) == [ok |-> TRUE, value |-> v, next |-> i]

(* A # after whitespace makes an unquoted value ambiguous.                   *)
ReadUnquoted(t, i) ==
    LET raw == Line(t, i)
    IN  IF \E k \in 1..(Len(raw) - 1) : raw[k] = "sp" /\ raw[k + 1] = "hash" THEN Refused
        ELSE Read(Trim(raw), EndOfLine(t, i))

(* After a closing quote: blanks, and a comment or the end of the line.      *)
NothingAfterClose(v, t, i) ==
    LET rest == Line(t, i)
        comment == {k \in DOMAIN rest : rest[k] = "hash"}
    IN  IF \A k \in DOMAIN rest : rest[k] \in Blank \/ \E c \in comment : c <= k
        THEN Read(v, i) ELSE Refused

(* A carriage return before a newline is not part of a quoted value.         *)
Dropped(t, i) == t[i] = "cr" /\ i < Len(t) /\ t[i + 1] = "nl"

RECURSIVE ReadSingleQuoted(_, _, _)
ReadSingleQuoted(t, i, out) ==
    IF i > Len(t) THEN Refused
    ELSE IF t[i] = "sq" THEN NothingAfterClose(out, t, i + 1)
    ELSE ReadSingleQuoted(t, i + 1, IF Dropped(t, i) THEN out ELSE Append(out, t[i]))

(* What an escape stands for; "none" for one that is not recognised.         *)
Escapes(c) ==
    CASE c = "n" -> "nl"
      [] c = "r" -> "cr"
      [] c \in {"dq", "sq", "bs", "$", "tick"} -> c
      [] OTHER -> "none"

RECURSIVE ReadDoubleQuoted(_, _, _)
ReadDoubleQuoted(t, i, out) ==
    IF i > Len(t) \/ (t[i] = "bs" /\ i = Len(t)) THEN Refused
    ELSE IF t[i] = "bs" /\ t[i + 1] = "nl" THEN ReadDoubleQuoted(t, i + 2, out)
    ELSE IF t[i] = "bs"
         THEN IF Escapes(t[i + 1]) = "none" THEN Refused
              ELSE ReadDoubleQuoted(t, i + 2, Append(out, Escapes(t[i + 1])))
    ELSE IF t[i] = "dq" THEN NothingAfterClose(out, t, i + 1)
    ELSE ReadDoubleQuoted(t, i + 1, IF Dropped(t, i) THEN out ELSE Append(out, t[i]))

ReadValue(t, i) ==
    LET peek == SkipSpaces(t, i)
        opener == IF peek > Len(t) THEN "end" ELSE t[peek]
    IN  CASE opener = "dq" -> ReadDoubleQuoted(t, peek + 1, <<>>)
          [] opener = "sq" -> ReadSingleQuoted(t, peek + 1, <<>>)
          [] opener = "tick" -> Refused
          [] OTHER -> ReadUnquoted(t, i)

(* The entries of the file from position i on, after those already read. One *)
(* line that cannot be read, or one name assigned twice, refuses the file.   *)
RECURSIVE ParseFrom(_, _, _)
ParseFrom(t, i, entries) ==
    LET start == SkipBlank(t, i)
        line == Line(t, start)
        equals == EqualsOn(line)
        name == NameOn(line, equals)
        value == ReadValue(t, start + equals)
    IN  IF start > Len(t) THEN [state |-> "read", entries |-> entries]
        ELSE IF \/ equals = 0
                \/ ~ValidName(name)
                \/ ~value.ok
                \/ \E k \in DOMAIN entries : entries[k].key = name
             THEN [state |-> "refused"]
        ELSE ParseFrom(t, value.next, Append(entries, [key |-> name, value |-> value.value]))

ParseDotenv(t) == ParseFrom(t, 1, <<>>)

-----------------------------------------------------------------------------
(* The scanner of names. It only looks for where a value ends.               *)

RECURSIVE AfterQuote(_, _, _)
AfterQuote(t, i, quote) ==
    IF i > Len(t) THEN Len(t) + 1
    ELSE IF t[i] = "bs" /\ quote = "dq" THEN AfterQuote(t, i + 2, quote)
    ELSE IF t[i] = quote THEN EndOfLine(t, i + 1)
    ELSE AfterQuote(t, i + 1, quote)

SkipValue(t, i) ==
    LET start == SkipSpaces(t, i)
    IN  IF start <= Len(t) /\ t[start] \in {"dq", "sq"} THEN AfterQuote(t, start + 1, t[start])
        ELSE EndOfLine(t, start)

NoNames == [state |-> "read", keys |-> <<>>, duplicates |-> {}, invalid |-> {}, malformed |-> 0]

(* A line it cannot read is reported and does not stop it.                   *)
RECURSIVE ScanFrom(_, _, _)
ScanFrom(t, i, found) ==
    LET start == SkipBlank(t, i)
        line == Line(t, start)
        equals == EqualsOn(line)
        name == NameOn(line, equals)
    IN  IF start > Len(t) THEN found
        ELSE IF equals = 0
             THEN ScanFrom(t, EndOfLine(t, start), [found EXCEPT !.malformed = @ + 1])
        ELSE ScanFrom(t, SkipValue(t, start + equals),
                      IF ~ValidName(name) THEN [found EXCEPT !.invalid = @ \union {name}]
                      ELSE IF Contains(found.keys, name)
                           THEN [found EXCEPT !.duplicates = @ \union {name}]
                      ELSE [found EXCEPT !.keys = Append(@, name)])

ScanDotenvKeys(t) == ScanFrom(t, 1, NoNames)

-----------------------------------------------------------------------------
(* The export.                                                               *)

Unrepresentable(v) == Contains(v, "bell")

(* The mistake of escaping the quotes and not the backslash.                 *)
EscapeSymbolButBackslash(c) ==
    CASE c = "dq" -> <<"bs", c>>
      [] c = "nl" -> <<"bs", "n">>
      [] c = "cr" -> <<"bs", "r">>
      [] OTHER -> <<c>>

EscapeSymbol(c) ==
    CASE c \in {"bs", "dq"} -> <<"bs", c>>
      [] c = "nl" -> <<"bs", "n">>
      [] c = "cr" -> <<"bs", "r">>
      [] OTHER -> <<c>>

EscapeValue(v) == FlattenSeq([k \in DOMAIN v |-> EscapeSymbol(v[k])])

(* One line for each value, under the names x, xx, ... in their order.       *)
KeyOf(k) == [i \in 1..k |-> "x"]
ToDotenv(values) ==
    FlattenSeq([k \in DOMAIN values |->
        KeyOf(k) \o <<"eq", "dq">> \o EscapeValue(values[k]) \o <<"dq", "nl">>])

-----------------------------------------------------------------------------
Init ==
    /\ file \in Texts
    /\ exported = <<>>
    /\ imported = Unread
    /\ scanned = Unread

(* An environment is exported over the file, unless a value of it cannot be  *)
(* written.                                                                  *)
Export ==
    /\ file = <<>> /\ exported = <<>> /\ imported = Unread
    /\ \E v, w \in {u \in Values : ~Unrepresentable(u)} :
           /\ exported' = <<v, w>>
           /\ file' = ToDotenv(<<v, w>>)
    /\ UNCHANGED <<imported, scanned>>

Import ==
    /\ imported = Unread
    /\ imported' = ParseDotenv(file)
    /\ UNCHANGED <<file, exported, scanned>>

Scan ==
    /\ imported # Unread /\ scanned = Unread
    /\ scanned' = ScanDotenvKeys(file)
    /\ UNCHANGED <<file, exported, imported>>

Next == Export \/ Import \/ Scan

Spec == Init /\ [][Next]_vars

-----------------------------------------------------------------------------
(* The two readers agree on every file the import accepts: the diff shows    *)
(* the names the import would set, in their order, and complains of nothing. *)
(* A value that spans lines, holds a = or hides a quote behind a backslash   *)
(* ends at the same place for both.                                          *)
ReadersAgree ==
    imported.state = "read" /\ scanned # Unread =>
        scanned = [NoNames EXCEPT !.keys = [k \in DOMAIN imported.entries |->
                                                imported.entries[k].key]]

(* An exported environment is imported as it was, every value whole.         *)
ExportsReadBack ==
    exported # <<>> /\ imported # Unread =>
        imported = [state |-> "read",
                    entries |-> [k \in DOMAIN exported |->
                                    [key |-> KeyOf(k), value |-> exported[k]]]]
=============================================================================
