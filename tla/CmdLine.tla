------------------------------ MODULE CmdLine -------------------------------
(* How an argument is carried to a batch file: escaped for cmd.exe, which    *)
(* interprets the line, and for the program behind it, which splits the line *)
(* into its arguments again. The characters are told apart as far as one of  *)
(* the two treats them differently.                                          *)
EXTENDS Naturals, SequencesExt

CONSTANT MaxLength

VARIABLE arg

(* `&` stands for all that cmd.exe acts upon outside quotes, `cd:~,` for the *)
(* text between the two last percents of the guard.                          *)
Char == {"a", "space", "&", "quote", "\\", "%", "line break"}

-----------------------------------------------------------------------------
Refused(text) == \E i \in DOMAIN text : text[i] = "line break"

NeedsQuoting(text) ==
    \/ text = <<>>
    \/ Last(text) = "\\"
    \/ \E i \in DOMAIN text : text[i] \in {"space", "&", "quote", "%"}

Repeat(c, n) == [i \in 1 .. n |-> c]

PercentGuard == <<"%", "%", "cd:~,">>

(* One character: a quote is doubled, and so are the backslashes before it.  *)
Escape(state, c) ==
    [out |-> state.out \o (CASE c = "quote" -> Repeat("\\", state.slashes) \o <<"quote">>
                             [] c = "%" -> PercentGuard
                             [] OTHER -> <<>>) \o <<c>>,
     slashes |-> IF c = "\\" THEN state.slashes + 1 ELSE 0]

AppendArgument(text) ==
    LET escaped == FoldLeft(Escape, [out |-> <<>>, slashes |-> 0], text) IN
    IF NeedsQuoting(text)
    THEN <<"quote">> \o escaped.out \o Repeat("\\", escaped.slashes) \o <<"quote">>
    ELSE escaped.out

-----------------------------------------------------------------------------
(* What cmd.exe makes of a line: it replaces %name% by a value -- cd:~, is   *)
(* empty -- and acts on what stands outside quotes.                          *)
Expand(state, c) ==
    CASE state.name = <<>> /\ c = "%" -> [state EXCEPT !.name = <<"%">>]
      [] state.name = <<>> /\ c # "%" -> [state EXCEPT !.out = Append(@, c)]
      [] state.name = <<"%">> /\ c = "%" -> [state EXCEPT !.out = Append(@, "%")]
      [] state.name = <<"%", "cd:~,">> /\ c = "%" -> [state EXCEPT !.name = <<>>]
      [] Len(state.name) > 1 /\ state.name # <<"%", "cd:~,">> /\ c = "%" ->
            [name |-> <<>>, out |-> Append(state.out, "a value")]
      [] OTHER -> [state EXCEPT !.name = Append(@, c)]

Expanded(line) ==
    LET read == FoldLeft(Expand, [name |-> <<>>, out |-> <<>>], line) IN
    read.out \o read.name

QuotesBefore(line, i) == Cardinality({j \in 1 .. i - 1 : line[j] = "quote"})

ActedUpon(line) ==
    \E i \in DOMAIN line : line[i] = "&" /\ QuotesBefore(line, i) % 2 = 0

(* What a program makes of one argument: backslashes count only before a     *)
(* quote, where every two are one; a quote after an odd one, or a second     *)
(* quote inside quotes, is the character itself.                             *)
Split(state, c) ==
    LET half == Repeat("\\", state.slashes \div 2)
        all == Repeat("\\", state.slashes)
        literal == state.slashes % 2 = 1
    IN
    CASE c = "\\" -> [state EXCEPT !.slashes = @ + 1, !.closing = FALSE]
      [] c = "quote" /\ state.closing ->
            [state EXCEPT !.out = Append(@, "quote"), !.inside = TRUE, !.closing = FALSE]
      [] c = "quote" /\ ~state.closing ->
            [state EXCEPT !.out = @ \o half \o (IF literal THEN <<"quote">> ELSE <<>>),
                          !.slashes = 0,
                          !.inside = IF literal THEN @ ELSE ~@,
                          !.closing = ~literal /\ state.inside]
      [] OTHER ->
            [state EXCEPT !.out = @ \o all \o (IF c = "space" /\ ~state.inside
                                               THEN <<"next">> ELSE <<c>>),
                          !.slashes = 0, !.closing = FALSE]

ReadBack(line) ==
    LET read == FoldLeft(Split, [out |-> <<>>, slashes |-> 0, inside |-> FALSE,
                                 closing |-> FALSE], line) IN
    read.out \o Repeat("\\", read.slashes)

-----------------------------------------------------------------------------
Init == arg = <<>>

Next == \E c \in Char : Len(arg) < MaxLength /\ arg' = Append(arg, c)

Spec == Init /\ [][Next]_arg

(* Whatever an argument holds, it reaches the program as it was given, and   *)
(* cmd.exe finds nothing in it to act upon -- or it is refused.              *)
ArgumentsSurvive ==
    ~Refused(arg) =>
        LET line == AppendArgument(arg) IN
        /\ ReadBack(Expanded(line)) = arg
        /\ ~ActedUpon(line)
        /\ QuotesBefore(line, Len(line) + 1) % 2 = 0
=============================================================================
