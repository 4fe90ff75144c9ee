------------------------------ MODULE ConfigFile ------------------------------
(***************************************************************************)
(* The reader of configuration files (configlib.c) as operators.           *)
(*                                                                         *)
(* A line is a sequence of tokens: the characters the reader tells apart,  *)
(* and words, which it only copies.  A name or a value is a sequence of    *)
(* tokens too.                                                             *)
(***************************************************************************)
EXTENDS ConfigList, SequencesExt, FiniteSetsExt

Quote == "\""
NotAscii == "not ascii"

-----------------------------------------------------------------------------
(* _conf_strip_comment, one character.                                     *)
StripStep(s, c) ==
    IF s.comment \/ (c = "#" /\ ~s.quote) THEN [s EXCEPT !.comment = TRUE]
    ELSE [s EXCEPT !.new = Append(@, c), !.quote = IF c = Quote THEN ~@ ELSE @]

StripComment(line) ==
    FoldLeft(StripStep, [new |-> <<>>, quote |-> FALSE, comment |-> FALSE], line).new

-----------------------------------------------------------------------------
(* _conf_get_section, one character: before '[', inside, after ']'.        *)
SectionStep(s, c) ==
    IF s.at \in {"found", "error"} THEN s
    ELSE CASE c = "[" -> [s EXCEPT !.at = IF @ = "before" THEN "inside" ELSE "error"]
           [] c = "]" -> [s EXCEPT !.at = IF @ = "inside" THEN "found" ELSE "error"]
           [] OTHER -> IF s.at = "inside" THEN [s EXCEPT !.name = Append(@, c)] ELSE s

GetSection(line) == FoldLeft(SectionStep, [at |-> "before", name |-> <<>>], line)

IsSection(line) == GetSection(line).at = "found"

-----------------------------------------------------------------------------
(* A name or a value without its last spaces.                              *)
StripEnd(buf) ==
    SubSeq(buf, 1, Max({0} \cup {i \in DOMAIN buf : buf[i] # " "}))

(* Mutant: the first '=' ends the name, another belongs to the value.      *)
EqualsAgain(s) ==
    IF s.quote \/ s.var # Null THEN [s EXCEPT !.buf = Append(@, "=")]
    ELSE IF s.buf = <<>> THEN [s EXCEPT !.error = TRUE]
    ELSE [s EXCEPT !.var = StripEnd(s.buf), !.buf = <<>>]

(* _conf_parseLine at '=',                                                 *)
Equals(s) ==
    IF s.quote THEN [s EXCEPT !.buf = Append(@, "=")]
    ELSE IF s.buf = <<>> \/ s.var # Null THEN [s EXCEPT !.error = TRUE]
    ELSE [s EXCEPT !.var = StripEnd(s.buf), !.buf = <<>>]

(* and one character: a space is kept inside quotes, not at the start.     *)
LineStep(s, c) ==
    IF s.error THEN s
    ELSE CASE c = Quote -> [s EXCEPT !.quote = ~@]
           [] c = "=" -> Equals(s)
           [] c = " " -> IF s.quote /\ s.buf # <<>> THEN [s EXCEPT !.buf = Append(@, c)] ELSE s
           [] c = NotAscii -> [s EXCEPT !.error = TRUE]
           [] OTHER -> [s EXCEPT !.buf = Append(@, c)]

(* var is Null where _conf_parseLine returns NULL.                         *)
ParseLine(line) ==
    LET s == FoldLeft(LineStep, [buf |-> <<>>, var |-> Null, quote |-> FALSE, error |-> FALSE], line)
    IN  IF s.error \/ s.buf = <<>> \/ s.var = Null
        THEN [var |-> Null, val |-> Null]
        ELSE [var |-> s.var, val |-> StripEnd(s.buf)]

-----------------------------------------------------------------------------
(* _conf_parseConfig, one line with its terminator; _conf_setValue appends *)
(* to the list.                                                            *)
ConfigStep(s, text) ==
    LET line == StripComment(SelectSeq(text, LAMBDA c : c # "\r"))
        obj == ParseLine(line)
    IN  CASE IsSection(line) ->
                [s EXCEPT !.section = GetSection(line).name, !.any = TRUE]
          [] ~IsSection(line) /\ obj.var # Null /\ s.any ->
                [s EXCEPT !.config = Append(@, [section |-> s.section, var |-> obj.var, val |-> obj.val])]
          [] OTHER -> s

(* The list of a file; characters after the last terminator are not read.  *)
ParseConfig(lines) ==
    FoldLeft(ConfigStep, [section |-> Null, any |-> FALSE, config |-> <<>>], lines).config

-----------------------------------------------------------------------------
(* What a line means, without reading it from left to right.               *)

Quoted(line, i) == Cardinality({j \in 1 .. i - 1 : line[j] = Quote}) % 2 = 1

Comments(line) == {i \in DOMAIN line : line[i] = "#" /\ ~Quoted(line, i)}

Meant(line) ==
    IF Comments(line) = {} THEN line ELSE SubSeq(line, 1, Min(Comments(line)) - 1)

Brackets(line) == SetToSortSeq({i \in DOMAIN line : line[i] \in {"[", "]"}}, <)

HasHeader(line) ==
    LET b == Brackets(line) IN Len(b) >= 2 /\ line[b[1]] = "[" /\ line[b[2]] = "]"

Header(line) == LET b == Brackets(line) IN SubSeq(line, b[1] + 1, b[2] - 1)

Assigns(line) == {i \in DOMAIN line : line[i] = "=" /\ ~Quoted(line, i)}

(* The tokens from a to b that are neither quotes nor spaces outside them, *)
(* trimmed.                                                                *)
Content(line, a, b) ==
    LET kept == {i \in a .. b : line[i] # Quote /\ (line[i] = " " => Quoted(line, i))}
        solid == {i \in kept : line[i] # " "}
        ids == {i \in kept : \E x, y \in solid : x <= i /\ i <= y}
        order == SetToSortSeq(ids, <)
    IN  [n \in DOMAIN order |-> line[order[n]]]

Assignment(line) ==
    LET none == [var |-> Null, val |-> Null]
        at == CHOOSE i \in Assigns(line) : TRUE
        var == Content(line, 1, at - 1)
        val == Content(line, at + 1, Len(line))
    IN  IF Cardinality(Assigns(line)) # 1 \/ NotAscii \in ToSet(line) THEN none
        ELSE IF var = Null \/ val = Null THEN none
        ELSE [var |-> var, val |-> val]

=============================================================================
