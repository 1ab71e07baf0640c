------------------------------- MODULE Parser -------------------------------
(***************************************************************************)
(* Structural analysis of a pattern file (crates/dsl/src/parser.rs): a     *)
(* recursive-descent parser that reports an error and skips to a token     *)
(* from which it can go on.  It runs over the tokens of module Lexer and   *)
(* builds the syntax tree of crates/dsl/src/ast.rs.                        *)
(*                                                                         *)
(* The loops over the body's sections and over the evidence declarations   *)
(* are actions, one turn each; what a turn parses is a function from a     *)
(* token position to an outcome [pos, errs, ok, val]: the position         *)
(* reached, the positions of the errors reported on the way, whether the   *)
(* code returns Some, and the values read.  An Option is a sequence of at  *)
(* most one element.                                                       *)
(***************************************************************************)
EXTENDS Lexer

VARIABLES
    parsing,   \* "lexing", "header", "body", "evidence", "parsed" or "failed"
    pos,       \* the token under consideration
    errors,    \* the diagnostics, by the position they are reported at
    declared,  \* the declarations of the evidence section being read
    tree       \* the pattern read so far

parseVars == <<parsing, pos, errors, declared, tree>>
vars == <<lexVars, parseVars>>

(* crates/dsl/src/ast.rs. *)
MetadataValue == [shape : {"Ident", "Str", "StrList"}, items : Seq(STRING)]
MetadataEntry == [key : STRING, value : MetadataValue]
AttrValue == [shape : {"Ident", "Str", "Int", "Bool"}, text : STRING]
PredicateAttr == [name : STRING, value : AttrValue]
Predicate == [kind : STRING, attributes : Seq(PredicateAttr)]
EvidenceDecl == [requiredness : {"required", "optional"}, name : STRING,
                 predicate : Predicate]
NamedItems == [items : Seq(STRING), within : Seq(STRING)]

EmptyTree == [id |-> "", version |-> "", metadata |-> <<>>, evidence |-> <<>>,
              constraint |-> <<>>, sequence |-> <<>>, same_call |-> <<>>]

Positions == 1 .. Len(tokens)

(*--------------------------- steps over outcomes --------------------------*)
Start(p) == [pos |-> p, errs |-> <<>>, ok |-> TRUE, val |-> <<>>]
Sees(s, kinds) == tokens[s.pos].kind \in kinds

Advance(s) == [s EXCEPT !.pos = IF @ < Len(tokens) THEN @ + 1 ELSE @]
Yield(s, value) == [s EXCEPT !.val = Append(@, value)]

(* A mutant of Fail: `?` without a diagnostic. *)
FailSilently(s) == [s EXCEPT !.ok = FALSE]
Fail(s) == [s EXCEPT !.errs = Append(@, s.pos), !.ok = FALSE]

(* expect()?: nothing more happens once a step has failed. *)
Expect(kind, s) ==
    IF ~s.ok THEN s ELSE IF Sees(s, {kind}) THEN Advance(s) ELSE Fail(s)

(* expect_ident()?, expect_string()?, expect_int()?, or a choice of them. *)
ExpectValue(kinds, s) ==
    IF ~s.ok THEN s
    ELSE IF Sees(s, kinds) THEN Yield(Advance(s), tokens[s.pos].value) ELSE Fail(s)

(* recover_to: the next token of the kinds given, or the end. *)
RecoverTo(kinds, s) ==
    [s EXCEPT !.pos = CHOOSE p \in @ .. Len(tokens) :
        /\ tokens[p].kind \in kinds \union {"Eof"}
        /\ \A q \in @ .. p - 1 : tokens[q].kind \notin kinds \union {"Eof"}]

(* Another parse function, started where s stands. *)
Then(s, Parse(_)) ==
    IF ~s.ok THEN s
    ELSE LET r == Parse(s.pos)
         IN  [r EXCEPT !.errs = s.errs \o @, !.val = Append(s.val, @)]

(* The loop over comma-separated items: a failed one is skipped to the next
   comma or to the closing token, and is left out. *)
CommaList(Item(_), close, first) ==
    LET loop[p \in Positions] ==
            LET r == Item(p)
                item == IF r.ok THEN [r EXCEPT !.val = <<@>>]
                        ELSE [RecoverTo({",", close}, r) EXCEPT !.ok = TRUE, !.val = <<>>]
            IN  IF ~Sees(item, {","}) THEN item
                ELSE LET rest == loop[item.pos + 1]
                     IN  [rest EXCEPT !.errs = item.errs \o @, !.val = item.val \o @]
    IN  loop[first]

(* A list in brackets whose opening one has been read; it may be empty. *)
ListUpTo(close, Item(_), s) ==
    Expect(close, IF s.ok /\ Sees(s, {close}) THEN Yield(s, <<>>)
                  ELSE Then(s, LAMBDA p : CommaList(Item, close, p)))

NameItem(p) == LET s == ExpectValue({"Ident"}, Start(p)) IN [s EXCEPT !.val = tokens[p].value]
StringItem(p) == LET s == ExpectValue({"StringLit"}, Start(p)) IN [s EXCEPT !.val = tokens[p].value]

(*------------------------------- the grammar ------------------------------*)
Sections == {"evidence", "constraint", "sequence", "same_call", "}"}
(* A mutant of Declarations: a declaration's name starts the next one. *)
DeclarationsOrNames == {"required", "optional", "}", "Ident"}
Declarations == {"required", "optional", "}"}

ShapeOf == [Ident |-> "Ident", StringLit |-> "Str", IntLit |-> "Int", BoolLit |-> "Bool"]

(* parse_metadata_entry. *)
Entry(p) ==
    LET key == Expect(":", ExpectValue({"Ident"}, Start(p)))
        list == ListUpTo("]", StringItem, Advance(key))
        Value(shape, items) ==
            [key |-> tokens[p].value, value |-> [shape |-> shape, items |-> items]]
    IN  CASE ~key.ok -> key
          [] key.ok /\ Sees(key, {"["}) ->
                IF list.ok THEN [list EXCEPT !.val = Value("StrList", list.val[2])] ELSE list
          [] key.ok /\ Sees(key, {"StringLit", "Ident"}) ->
                [Advance(key) EXCEPT !.val = Value(ShapeOf[tokens[key.pos].kind],
                                                   <<tokens[key.pos].value>>)]
          [] OTHER -> RecoverTo(Sections, Fail(key))

(* parse_predicate_attr. *)
Attribute(p) ==
    LET name == Expect(":", ExpectValue({"Ident"}, Start(p)))
        value == ExpectValue(DOMAIN ShapeOf, name)
    IN  IF ~value.ok THEN value
        ELSE [value EXCEPT !.val =
                [name |-> value.val[1],
                 value |-> [shape |-> ShapeOf[tokens[name.pos].kind], text |-> value.val[2]]]]

(* One declaration of parse_evidence_section's loop, with parse_predicate. *)
Declaration(p) ==
    LET word == IF tokens[p].kind \in {"required", "optional"}
                THEN Advance(Start(p)) ELSE Fail(Start(p))
        kind == ExpectValue({"Ident"}, Expect(":", ExpectValue({"Ident"}, word)))
        decl == ListUpTo(")", Attribute, Expect("(", kind))
    IN  IF ~decl.ok THEN RecoverTo(Declarations, decl)
        ELSE [decl EXCEPT !.val =
                [requiredness |-> tokens[p].kind, name |-> decl.val[1],
                 predicate |-> [kind |-> decl.val[2], attributes |-> decl.val[3]]]]

(* parse_bool_expr.  Too few operands are reported and the node is built. *)
Expression(first) ==
    LET expr[p \in Positions] ==
            LET open == Expect("(", Advance(Start(p)))
                items == Expect(")", Then(open, LAMBDA q :
                            CommaList(LAMBDA i : expr[i], ")", q)))
                inner == expr[open.pos]
                closed == Expect(")", [inner EXCEPT !.ok = TRUE])
            IN  CASE tokens[p].kind \in {"AND", "OR"} ->
                        IF ~items.ok THEN items
                        ELSE [items EXCEPT
                                !.val = [op |-> tokens[p].kind, name |-> "",
                                         items |-> items.val[1]],
                                !.errs = IF Len(items.val[1]) < 2 THEN Append(@, p) ELSE @]
                  [] tokens[p].kind = "NOT" ->
                        IF ~open.ok THEN open
                        ELSE [closed EXCEPT
                                !.ok = @ /\ inner.ok,
                                !.val = [op |-> "NOT", name |-> "", items |-> <<@>>]]
                  [] tokens[p].kind = "Ident" ->
                        [Advance(Start(p)) EXCEPT
                            !.val = [op |-> "REF", name |-> tokens[p].value, items |-> <<>>]]
                  [] OTHER -> Fail(Start(p))
    IN  expr[first]

(* parse_sequence_section, parse_same_call_section. *)
Names(p) == ListUpTo("]", NameItem, Expect("[", Expect(":", Advance(Start(p)))))
Bound(s) ==
    IF s.ok /\ Sees(s, {"within"})
    THEN ExpectValue({"IntLit"}, Expect(":", Advance(s))) ELSE s
SequenceSection(p) ==
    LET s == Bound(Names(p))
    IN  IF s.ok THEN [s EXCEPT !.val = [items |-> @[1], within |-> Tail(@)]] ELSE s
SameCallSection(p) ==
    LET s == Names(p)
    IN  IF s.ok THEN [s EXCEPT !.val = [items |-> @[1], within |-> <<>>]] ELSE s

(*------------------------------- the parser -------------------------------*)
Init ==
    /\ InitLexer
    /\ parsing = "lexing"
    /\ pos = 1
    /\ errors = <<>>
    /\ declared = <<>>
    /\ tree = EmptyTree

Tokenize == parsing = "lexing" /\ NextToken /\ UNCHANGED parseVars

(* The lexer's first error is the only diagnostic. *)
Tokenized ==
    /\ parsing = "lexing" /\ lexing # "running"
    /\ \/ lexing = "done" /\ parsing' = "header" /\ UNCHANGED errors
       \/ lexing = "failed" /\ parsing' = "failed" /\ errors' = <<at>>
    /\ UNCHANGED <<lexVars, pos, declared, tree>>

(* Where an outcome leaves the parser. *)
Reach(s) == pos' = s.pos /\ errors' = errors \o s.errs

(* parse_pattern up to its loop: `?` gives the file up. *)
Header ==
    /\ parsing = "header"
    /\ LET s == Expect("{", ExpectValue({"IntLit"}, Expect("version",
                    ExpectValue({"Ident"}, Expect("pattern", Start(pos))))))
       IN  /\ Reach(s)
           /\ \/ s.ok /\ parsing' = "body"
                      /\ tree' = [tree EXCEPT !.id = s.val[1], !.version = s.val[2]]
              \/ ~s.ok /\ parsing' = "failed" /\ UNCHANGED tree
    /\ UNCHANGED <<lexVars, declared>>

InBody(kinds) == parsing = "body" /\ tokens[pos].kind \in kinds

(* A mutant of Section: the first of its kind stays. *)
SectionUnlessSet(s, field, value) ==
    /\ Reach(s)
    /\ tree' = IF s.ok /\ tree[field] = <<>> THEN [tree EXCEPT ![field] = value] ELSE tree
    /\ UNCHANGED <<lexVars, parsing, declared>>

(* A section's value replaces the one an earlier section of its kind gave. *)
Section(s, field, value) ==
    /\ Reach(s)
    /\ tree' = IF s.ok THEN [tree EXCEPT ![field] = value] ELSE tree
    /\ UNCHANGED <<lexVars, parsing, declared>>

Constraint ==
    /\ InBody({"constraint"})
    /\ LET s == Then(Expect(":", Advance(Start(pos))), Expression)
       IN  Section(s, "constraint", s.val)

Sequence ==
    /\ InBody({"sequence"})
    /\ LET s == SequenceSection(pos) IN Section(s, "sequence", <<s.val>>)

SameCall ==
    /\ InBody({"same_call"})
    /\ LET s == SameCallSection(pos) IN Section(s, "same_call", <<s.val>>)

Metadata ==
    /\ InBody({"Ident"})
    /\ LET s == Entry(pos) IN Section(s, "metadata", Append(tree.metadata, s.val))

OpenEvidence ==
    /\ InBody({"evidence"})
    /\ LET s == Expect("{", Advance(Start(pos)))
       IN  Reach(s) /\ parsing' = IF s.ok THEN "evidence" ELSE "body"
    /\ declared' = <<>>
    /\ UNCHANGED <<lexVars, tree>>

Declare ==
    /\ parsing = "evidence" /\ tokens[pos].kind \notin {"}", "Eof"}
    /\ LET s == Declaration(pos)
       IN  Reach(s) /\ declared' = IF s.ok THEN Append(declared, s.val) ELSE declared
    /\ UNCHANGED <<lexVars, parsing, tree>>

CloseEvidence ==
    /\ parsing = "evidence" /\ tokens[pos].kind \in {"}", "Eof"}
    /\ LET s == Expect("}", Start(pos))
       IN  Reach(s) /\ tree' = IF s.ok THEN [tree EXCEPT !.evidence = declared] ELSE tree
    /\ parsing' = "body"
    /\ UNCHANGED <<lexVars, declared>>

Unexpected ==
    /\ parsing = "body"
    /\ ~InBody(Sections \union {"Ident", "Eof"})
    /\ Reach(RecoverTo(Sections, Fail(Start(pos))))
    /\ UNCHANGED <<lexVars, parsing, declared, tree>>

(* What follows the closing brace is not looked at. *)
Close ==
    /\ InBody({"}", "Eof"})
    /\ Reach(Expect("}", Start(pos)))
    /\ parsing' = "parsed"
    /\ UNCHANGED <<lexVars, declared, tree>>

Returned == parsing \in {"parsed", "failed"}
Accepted == parsing = "parsed" /\ errors = <<>>

(* parse() has returned. *)
Rest == Returned /\ UNCHANGED vars

Next ==
    \/ Tokenize \/ Tokenized \/ Header
    \/ Constraint \/ Sequence \/ SameCall \/ Metadata
    \/ OpenEvidence \/ Declare \/ CloseEvidence \/ Unexpected \/ Close \/ Rest

Spec == Init /\ [][Next]_vars
=============================================================================
