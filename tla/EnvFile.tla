------------------------------ MODULE EnvFile ------------------------------
(***************************************************************************)
(* The generated environment file (envfile).  A character is what the      *)
(* program tells apart of it: "plain" stands for any other than these and  *)
(* "space" for any white space but a tab.  A file maps a line to each key. *)
(***************************************************************************)
EXTENDS Sequences, SequencesExt

Controls    == {"CR", "LF", "NUL"}
Whitespace  == {"space", "tab", "CR", "LF"}
Escaped     == {"#", "\"", "'", "\\", "$"}
Error       == <<"error">>

\* str::replace of one character
Replaced(s, c, by) == FlattenSeq([i \in DOMAIN s |-> IF s[i] = c THEN by ELSE <<s[i]>>])

\* Mutant: the backslashes are doubled after the quotes got theirs.
EscapeLast(s) ==
  Replaced(Replaced(Replaced(Replaced(s, "\"", <<"\\", "\"">>), "$", <<"\\", "$">>),
                        "tab", <<"\\", "t">>), "\\", <<"\\", "\\">>)

Escape(s) ==
  Replaced(Replaced(Replaced(Replaced(s, "\\", <<"\\", "\\">>), "\"", <<"\\", "\"">>),
                        "$", <<"\\", "$">>), "tab", <<"\\", "t">>)

ValidValue(s) == \A i \in DOMAIN s : s[i] \notin Controls

EncodeValue(s) ==
  IF s = <<>> \/ \E i \in DOMAIN s : s[i] \in Whitespace \cup Escaped
  THEN <<"\"">> \o Escape(s) \o <<"\"">> ELSE s

\* write_generated: nothing is written if one of the values is invalid.
WriteGenerated(values) ==
  IF \A key \in DOMAIN values : ValidValue(values[key])
  THEN [key \in DOMAIN values |-> EncodeValue(values[key])]
  ELSE <<>>

\* What an escape within quotes stands for.
Unescape(c) ==
  CASE c \in {"\\", "\"", "$"} -> <<c>>
    [] c = "t" -> <<"tab">> [] c = "n" -> <<"LF">> [] c = "r" -> <<"CR">>
    [] OTHER -> <<"\\", c>>

\* One character between the quotes, after those read.
Step(read, c) ==
  CASE read.failed                -> read
    [] ~read.failed /\ read.escape -> [read EXCEPT !.escape = FALSE, !.value = @ \o Unescape(c)]
    [] OTHER -> CASE c = "\\" -> [read EXCEPT !.escape = TRUE]
                  [] c = "\"" -> [read EXCEPT !.failed = TRUE]
                  [] OTHER    -> [read EXCEPT !.value = Append(@, c)]

Unquote(s) ==
  LET read[n \in 0..Len(s)] ==
        IF n = 0 THEN [value |-> <<>>, escape |-> FALSE, failed |-> FALSE] ELSE Step(read[n - 1], s[n])
      all == read[Len(s)]
  IN IF all.escape \/ all.failed THEN Error ELSE all.value

DecodeValue(s) ==
  CASE s = <<>> \/ Head(s) # "\""         -> s
    [] Len(s) >= 2 /\ Head(s) = "\"" /\ Last(s) = "\"" -> Unquote(Tail(Front(s)))
    [] OTHER -> Error

\* str::trim of the line, of which the key is not a part
Trim(s) ==
  LET kept == {i \in DOMAIN s : s[i] \notin Whitespace}
  IN IF kept = {} THEN <<>> ELSE SubSeq(s, 1, CHOOSE i \in kept : \A j \in kept : j <= i)

ParseAssignment(line) ==
  LET value == DecodeValue(Trim(line)) IN IF ValidValue(value) THEN value ELSE Error

\* read: one line that cannot be parsed makes the file unreadable.
ReadFile(lines) ==
  LET values == [key \in DOMAIN lines |-> ParseAssignment(lines[key])]
  IN IF \E key \in DOMAIN values : values[key] = Error THEN <<>> ELSE values

\* rendered, with the secrets shown
Rendered(lines) ==
  LET values == ReadFile(lines) IN [key \in DOMAIN values |-> EncodeValue(values[key])]

-----------------------------------------------------------------------------
\* A file that was written is read, and what host commands then get is what was
\* written, whatever quotes, escapes, blanks or dollars the values hold.
RoundTrip(values) ==
  (\A key \in DOMAIN values : ValidValue(values[key])) => ReadFile(WriteGenerated(values)) = values

\* What env --print shows of a file that can be read, and perhaps was edited, has
\* the values the file has.
PrintedIsRead(lines) ==
  LET values == ReadFile(lines) IN ReadFile(Rendered(lines)) = values
=============================================================================
