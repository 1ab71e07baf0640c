------------------------------- MODULE Syntax -------------------------------
(***************************************************************************)
(* What the lexer and the parser promise, against a definition of the      *)
(* language that knows nothing of spans, recovery or diagnostics: the set  *)
(* of positions at which a phrase that starts at a given one may end.      *)
(***************************************************************************)
EXTENDS Parser, FiniteSets

(*------------------------------ the language ------------------------------*)
After(kinds, ends) == {p + 1 : p \in {q \in ends : tokens[q].kind \in kinds}}

(* One or more phrases with commas between them. *)
Separated(Phrase(_), from) ==
    LET list[p \in Positions] ==
            LET ends == Phrase(p)
            IN  ends \union UNION {list[q] : q \in After({","}, ends)}
    IN  UNION {list[p] : p \in from}

Listed(open, Phrase(_), close, from) ==
    LET inside == After({open}, from)
    IN  After({close}, inside \union Separated(Phrase, inside))

ExpressionEnds(from) ==
    LET ends[p \in Positions] ==
            LET open == After({"("}, After({"AND", "OR", "NOT"}, {p}))
                first == UNION {ends[q] : q \in open}
            IN  CASE tokens[p].kind = "Ident" -> {p + 1}
                  [] tokens[p].kind = "NOT" -> After({")"}, first)
                  [] tokens[p].kind \in {"AND", "OR"} ->
                        After({")"}, Separated(LAMBDA q : ends[q], After({","}, first)))
                  [] OTHER -> {}
    IN  UNION {ends[p] : p \in from}

NameEnds(p) == After({"Ident"}, {p})
StringEnds(p) == After({"StringLit"}, {p})
KeyEnds(from) == After({":"}, After({"Ident"}, from))
AttributeEnds(p) == After({"Ident", "StringLit", "IntLit", "BoolLit"}, KeyEnds({p}))
EntryEnds(p) ==
    After({"Ident", "StringLit"}, KeyEnds({p})) \union Listed("[", StringEnds, "]", KeyEnds({p}))
DeclarationEnds(p) ==
    Listed("(", AttributeEnds, ")",
           After({"Ident"}, KeyEnds(After({"required", "optional"}, {p}))))

(* Any number of phrases, one after another. *)
Repeated(Phrase(_), from) ==
    LET all[p \in Positions] == {p} \union UNION {all[q] : q \in Phrase(p)}
    IN  UNION {all[p] : p \in from}

SectionEnds(p) ==
    LET titled(title) == After({":"}, After({title}, {p}))
        steps == Listed("[", NameEnds, "]", titled("sequence"))
    IN  UNION { EntryEnds(p),
                After({"}"}, Repeated(DeclarationEnds, After({"{"}, After({"evidence"}, {p})))),
                ExpressionEnds(titled("constraint")),
                steps, After({"IntLit"}, After({":"}, After({"within"}, steps))),
                Listed("[", NameEnds, "]", titled("same_call")) }

PatternEnds ==
    After({"}"}, Repeated(SectionEnds,
        After({"{"}, After({"IntLit"}, After({"version"},
            After({"Ident"}, After({"pattern"}, {1})))))))

(*------------------------------ the tree's text ---------------------------*)
(* A tree's tokens, as pairs of kind and value. *)
Mark(kind) == << <<kind, "">> >>
Valued(kind, value) == << <<kind, value>> >>
CommaSeparated(texts) ==
    FlattenSeq([i \in DOMAIN texts |-> IF i = 1 THEN texts[i] ELSE Mark(",") \o texts[i]])
KindOf == [shape \in {"Ident", "Str", "Int", "Bool"} |->
            CASE shape = "Str" -> "StringLit" [] shape = "Int" -> "IntLit"
              [] shape = "Bool" -> "BoolLit" [] OTHER -> "Ident"]

AllValued(kind, values) ==
    CommaSeparated([i \in DOMAIN values |-> Valued(kind, values[i])])

EntryText(entry) ==
    Valued("Ident", entry.key) \o Mark(":") \o
        IF entry.value.shape = "StrList"
        THEN Mark("[") \o AllValued("StringLit", entry.value.items) \o Mark("]")
        ELSE Valued(KindOf[entry.value.shape], entry.value.items[1])

AttributeText(a) ==
    Valued("Ident", a.name) \o Mark(":") \o Valued(KindOf[a.value.shape], a.value.text)
DeclarationText(d) ==
    Mark(d.requiredness) \o Valued("Ident", d.name) \o Mark(":")
        \o Valued("Ident", d.predicate.kind) \o Mark("(")
        \o CommaSeparated([i \in DOMAIN d.predicate.attributes |->
                            AttributeText(d.predicate.attributes[i])]) \o Mark(")")

RECURSIVE ExpressionText(_)
ExpressionText(e) ==
    IF e.op = "REF" THEN Valued("Ident", e.name)
    ELSE Mark(e.op) \o Mark("(")
            \o CommaSeparated([i \in DOMAIN e.items |-> ExpressionText(e.items[i])]) \o Mark(")")

NamesText(title, s) ==
    Mark(title) \o Mark(":") \o Mark("[") \o AllValued("Ident", s.items) \o Mark("]")
        \o IF s.within = <<>> THEN <<>>
           ELSE Mark("within") \o Mark(":") \o Valued("IntLit", s.within[1])

SectionText(title) ==
    CASE title = "evidence" ->
            Mark("evidence") \o Mark("{")
                \o FlattenSeq([i \in DOMAIN tree.evidence |-> DeclarationText(tree.evidence[i])])
                \o Mark("}")
      [] title = "constraint" -> Mark(title) \o Mark(":") \o ExpressionText(tree.constraint[1])
      [] title = "sequence" -> NamesText(title, tree.sequence[1])
      [] title = "same_call" -> NamesText(title, tree.same_call[1])

(* The tokens from p on say this. *)
Says(p, text) ==
    /\ p + Len(text) <= Len(tokens)
    /\ \A i \in DOMAIN text : <<tokens[p + i - 1].kind, tokens[p + i - 1].value>> = text[i]

Titles(title) == {p \in Positions : p < pos /\ tokens[p].kind = title}

(* Where a metadata entry starts in an accepted file: a name and a colon that
   open neither a declaration nor an attribute. *)
Depth(p) == Cardinality({q \in 1 .. p : tokens[q].kind = "{"})
                - Cardinality({q \in 1 .. p : tokens[q].kind = "}"})
EntryStarts ==
    {p \in 2 .. pos - 2 : /\ tokens[p].kind = "Ident" /\ tokens[p + 1].kind = ":"
                          /\ Depth(p) = 1}

(*------------------------------- properties -------------------------------*)
(* The tokens tile the text: their spans are in order and disjoint, a name's
   or a number's value is the text of its span and could not be longer, and
   everything between two spans is white space or the inside of a comment.
   span.rs says of a span that it always recovers the exact text it covers. *)
Skippable(from, to) ==
    \A p \in from .. to - 1 :
        \/ source[p] \in Whitespace
        \/ \E q \in from .. p :
            /\ Comment(q) /\ q + 1 < to
            /\ \A i \in q .. p : source[i] # NewLine

TokensTileTheText ==
    \A i \in DOMAIN tokens :
        /\ Skippable(IF i = 1 THEN 1 ELSE tokens[i - 1].end, tokens[i].start)
        /\ tokens[i].kind \in {"Ident", "IntLit"} =>
            /\ tokens[i].value = Text(tokens[i].start, tokens[i].end)
            /\ ~SymbolIn(tokens[i].end, IF tokens[i].kind = "IntLit" THEN Digits
                                        ELSE Words \union Digits)
        /\ tokens[i].kind \in Keywords =>
            /\ tokens[i].kind = Text(tokens[i].start, tokens[i].end)
            /\ ~SymbolIn(tokens[i].end, Words \union Digits)

(* The parser accepts a file exactly if some prefix of its tokens is a
   pattern: recovering from one error never hides that there was one, and no
   file is turned down without a diagnostic ("guaranteed non-empty"). *)
AcceptsTheLanguage ==
    /\ parsing = "parsed" =>
        (errors = <<>>) = (PatternEnds # {})
    /\ parsing = "failed" => errors # <<>>

(* An accepted tree is the file's text: each section of it is, token for
   token, the last one of its kind, a kind the file lacks is absent, and the
   metadata is every entry in order. *)
TreeIsTheText ==
    Accepted =>
        /\ \A title \in {"evidence", "constraint", "sequence", "same_call"} :
            IF Titles(title) = {} THEN tree[title] = <<>>
            ELSE Says(CHOOSE p \in Titles(title) : \A q \in Titles(title) : q <= p,
                      SectionText(title))
        /\ Len(tree.metadata) = Cardinality(EntryStarts)
        /\ \A p \in EntryStarts :
            Says(p, EntryText(tree.metadata[Cardinality({q \in EntryStarts : q <= p})]))

(* A turn of a loop: what is left of the text, or of the stage, shrinks. *)
Stage == [lexing |-> 0, header |-> 1, body |-> 2, evidence |-> 2, parsed |-> 3, failed |-> 3]
Remaining ==
    IF parsing = "lexing"
    THEN 2 * (Len(source) - at) + (IF lexing = "running" THEN 1 ELSE 0)
    ELSE 2 * (Len(tokens) - pos) + (IF parsing = "evidence" THEN 1 ELSE 0)
TurnMovesOn ==
    \/ Stage[parsing'] > Stage[parsing]
    \/ Stage[parsing'] = Stage[parsing] /\ Remaining' < Remaining
=============================================================================
