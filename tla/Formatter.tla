------------------------------ MODULE Formatter ------------------------------
(***************************************************************************)
(* rootcause format-pattern: a pattern file is parsed and printed again in *)
(* one fixed layout (crates/cli/src/format/mod.rs), under the comment      *)
(* lines it opens with (crates/cli/src/commands/format_pattern.rs).  The   *)
(* text it writes is read by the same lexer and parser once more.          *)
(***************************************************************************)
EXTENDS Syntax

CONSTANT Columns   \* the width of a predicate printed on one line: 80

VARIABLE original  \* what has been formatted: <<>>, or its tree and its text

fileVars == <<vars, original>>

Indent == <<" ", " ", " ", " ">>
Line(symbols) == Indent \o symbols \o <<NewLine>>
CommaSpaced(texts) ==
    FlattenSeq([i \in DOMAIN texts |->
        IF i = 1 THEN texts[i] ELSE <<",", " ">> \o texts[i]])
Characters(text) == [i \in 1 .. Len(text) |-> SubSeq(text, i, i)]
Width(symbols) == FoldLeft(LAMBDA sum, symbol : sum + Len(symbol), 0, symbols)

(* quote: what the literal says, as it is. *)
Quoted(text) == <<Quote>> \o Characters(text) \o <<Quote>>

(* format_attr_value. *)
Printed(shape, text) ==
    CASE shape = "Str" -> Quoted(text)
      [] shape = "Int" -> Characters(text)
      [] OTHER -> <<text>>

(* format_metadata_entry, format_str_list. *)
PrintedEntry(entry) ==
    LET items == entry.value.items
    IN  Line(<<entry.key, ":", " ">> \o
             IF entry.value.shape = "StrList"
             THEN <<"[">> \o CommaSpaced([i \in DOMAIN items |-> Quoted(items[i])]) \o <<"]">>
             ELSE Printed(entry.value.shape, items[1]))

(* format_predicate: on one line if it fits, else an attribute a line. *)
PrintedPredicate(predicate) ==
    LET attrs == [i \in DOMAIN predicate.attributes |->
                    LET a == predicate.attributes[i]
                    IN  <<a.name, ":", " ">> \o Printed(a.value.shape, a.value.text)]
        inline == <<predicate.kind, "(">> \o CommaSpaced(attrs) \o <<")">>
        separator(i) == IF i = Len(attrs) THEN <<>> ELSE <<",">>
    IN  IF attrs = <<>> \/ 2 * Len(Indent) + Len("required ") + Width(inline) <= Columns
        THEN inline
        ELSE <<predicate.kind, "(", NewLine>>
                \o FlattenSeq([i \in DOMAIN attrs |->
                        Indent \o Indent \o Line(attrs[i] \o separator(i))])
                \o Indent \o Indent \o <<")">>

(* format_evidence_decl. *)
PrintedDeclaration(d) ==
    Indent \o Line(<<d.requiredness, " ", d.name, ":", " ">> \o PrintedPredicate(d.predicate))

(* A mutant of PrintedNames: the bound of a sequence is left out. *)
PrintedNamesUnbounded(title, s) ==
    Line(<<title, ":", " ", "[">> \o CommaSpaced([i \in DOMAIN s.items |-> <<s.items[i]>>])
            \o <<"]">>)

(* format_same_call, format_sequence. *)
PrintedNames(title, s) ==
    Line(<<title, ":", " ", "[">> \o CommaSpaced([i \in DOMAIN s.items |-> <<s.items[i]>>])
            \o <<"]">>
            \o IF s.within = <<>> THEN <<>>
               ELSE <<" ", "within", ":", " ">> \o Characters(s.within[1]))

(* format_bool_expr. *)
RECURSIVE PrintedExpression(_)
PrintedExpression(e) ==
    IF e.op = "REF" THEN <<e.name>>
    ELSE <<e.op, "(">> \o CommaSpaced([i \in DOMAIN e.items |-> PrintedExpression(e.items[i])])
            \o <<")">>

(* A section under an empty line, if there is one. *)
Optional(section, Lines(_)) ==
    IF section = <<>> THEN <<>> ELSE <<NewLine>> \o Lines(section[1])

(* format_pattern_body: the sections in a fixed order; evidence always. *)
PrintedBody ==
    <<"pattern", " ", tree.id, " ", "version", " ">> \o Characters(tree.version)
        \o <<" ", "{", NewLine>>
        \o FlattenSeq([i \in DOMAIN tree.metadata |-> PrintedEntry(tree.metadata[i])])
        \o <<NewLine>> \o Line(<<"evidence", " ", "{">>)
        \o FlattenSeq([i \in DOMAIN tree.evidence |-> PrintedDeclaration(tree.evidence[i])])
        \o Line(<<"}">>)
        \o Optional(tree.same_call, LAMBDA s : PrintedNames("same_call", s))
        \o Optional(tree.sequence, LAMBDA s : PrintedNames("sequence", s))
        \o Optional(tree.constraint,
                    LAMBDA e : Line(<<"constraint", ":", " ">> \o PrintedExpression(e)))
        \o <<"}", NewLine>>

(* split_leading_comments: the blank and comment lines before any other. *)
LeadingEnd ==
    LET lineEnd(p) == CHOOSE q \in p .. Len(source) + 1 :
                        /\ q > Len(source) \/ source[q] = NewLine
                        /\ \A i \in p .. q - 1 : source[i] # NewLine
        text(p) == SelectSeq(SubSeq(source, p, lineEnd(p) - 1), LAMBDA symbol : symbol # " ")
        leads(p) == text(p) = <<>> \/ SubSeq(text(p), 1, 2) = <<"/", "/">>
        after[p \in 1 .. Len(source) + 2] ==
            IF p <= Len(source) /\ leads(p) THEN after[lineEnd(p) + 1] ELSE p
    IN  IF after[1] > Len(source) THEN Len(source) ELSE after[1] - 1

(* format_file. *)
Formatted == SubSeq(source, 1, LeadingEnd) \o PrintedBody

FormatInit == Init /\ original = <<>>

(* format-pattern --write. *)
Write ==
    /\ Accepted /\ original = <<>>
    /\ original' = <<tree, source>>
    /\ source' = Formatted
    /\ at' = 1 /\ tokens' = <<>> /\ lexing' = "running"
    /\ parsing' = "lexing" /\ pos' = 1 /\ errors' = <<>> /\ declared' = <<>>
    /\ tree' = EmptyTree

FormatNext == (Next /\ UNCHANGED original) \/ Write

FormatSpec == FormatInit /\ [][FormatNext]_fileVars

----------------------------------------------------------------------------
(* Properties.                                                              *)

(* Whatever the file, the parser returns: every turn of every loop brings it
   nearer the end, be it of a well-formed phrase or of one just given up, and
   (the run looks for deadlocks) no turn is the last before it has. *)
EveryTurnMovesOn == [][TurnMovesOn \/ Write]_fileVars

(* The module's own promise (format/mod.rs): the text written is a pattern
   again, with the tree that was formatted. *)
FormattingReproduces ==
    original # <<>> /\ Returned => Accepted /\ tree = original[1]

(* The literals of a file say no quote, backslash or line break. *)
Plain(text) ==
    \A i \in 2 .. Len(text) : text[i - 1] # Backslash

(* A file whose literals need no escape is written as the same pattern, under
   the same opening comments; and it is then in order: formatting it once more
   changes nothing, so --check passes after --write (format_file). *)
FormatsToTheSame ==
    original # <<>> /\ Returned /\ Plain(original[2]) =>
        /\ FormattingReproduces
        /\ Formatted = source
        /\ SubSeq(source, 1, LeadingEnd) = SubSeq(original[2], 1, LeadingEnd)
=============================================================================
