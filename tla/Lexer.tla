-------------------------------- MODULE Lexer --------------------------------
(***************************************************************************)
(* Lexical analysis of a pattern file (crates/dsl/src/lexer.rs).           *)
(*                                                                         *)
(* The source is a sequence of symbols.  Most are one character; a symbol  *)
(* of Words or Digits stands for a run of letters or digits, and adjacent  *)
(* ones read as one longer run, so the longest match is still to be found. *)
(* Too large a digit run (Huge) does not fit the code's i64.               *)
(***************************************************************************)
EXTENDS Integers, Sequences, SequencesExt

CONSTANTS
    Sources,  \* the files under consideration
    Words,    \* runs of letters and underscores, the reserved words among them
    Digits,   \* runs of digits
    Huge      \* the runs of digits above i64::MAX

ASSUME HugeAssumption == Huge \subseteq Digits

VARIABLES
    source,   \* the text
    at,       \* the lexer's position in it
    tokens,   \* what has been read
    lexing    \* "running", "done" or "failed"

lexVars == <<source, at, tokens, lexing>>

NewLine == "\n"
Quote == "\""
Backslash == "\\"
Whitespace == {" ", NewLine}

Keywords == {"pattern", "version", "evidence", "required", "optional", "constraint",
             "sequence", "within", "same_call", "AND", "OR", "NOT"}
Punctuation == {"{", "}", "[", "]", "(", ")", ":", ","}
TokenKinds == {"Ident", "StringLit", "IntLit", "BoolLit", "Eof"}
                \union Keywords \union Punctuation

(* A token with its span: the symbols [start, end) of the source. *)
Token(kind, value, start, end) ==
    [kind |-> kind, value |-> value, start |-> start, end |-> end]

Text(from, to) == FoldLeft(LAMBDA text, symbol : text \o symbol, "",
                           SubSeq(source, from, to - 1))

SymbolIn(p, symbols) == p <= Len(source) /\ source[p] \in symbols

(* A mutant of RunEnd: the first symbol alone. *)
RunEndShort(p, symbols) == IF SymbolIn(p, symbols) THEN p + 1 ELSE p

(* The end of the longest run of the symbols given that starts at p. *)
RunEnd(p, symbols) ==
    CHOOSE q \in p .. Len(source) + 1 :
        /\ \A i \in p .. q - 1 : source[i] \in symbols
        /\ ~SymbolIn(q, symbols)

(* skip_whitespace_and_comments, from p: a comment ends before its newline. *)
Comment(p) == SymbolIn(p, {"/"}) /\ SymbolIn(p + 1, {"/"})
Skip(p) ==
    LET after[q \in p .. Len(source) + 1] ==
            IF SymbolIn(q, Whitespace) THEN after[q + 1]
            ELSE IF Comment(q)
                 THEN after[CHOOSE end \in q .. Len(source) + 1 :
                                /\ \A i \in q .. end - 1 : source[i] # NewLine
                                /\ end > Len(source) \/ source[end] = NewLine]
            ELSE q
    IN  after[p]

(* string_literal, after the opening quote: where it ends and what it says. *)
Escapes == [symbol \in {Quote, Backslash, "n", "t"} |->
                CASE symbol = "n" -> NewLine [] symbol = "t" -> "\t" [] OTHER -> symbol]
Unterminated(p) == [ok |-> FALSE, end |-> p, value |-> ""]
Literal(p) ==
    LET Following(symbol, rest) == [rest EXCEPT !.value = symbol \o @]
        scan[q \in p .. Len(source) + 1] ==
            CASE q > Len(source) -> Unterminated(Len(source) + 1)
              [] SymbolIn(q, {NewLine}) -> Unterminated(q + 1)
              [] SymbolIn(q, {Quote}) -> [ok |-> TRUE, end |-> q + 1, value |-> ""]
              [] SymbolIn(q, {Backslash}) ->
                    IF SymbolIn(q + 1, DOMAIN Escapes)
                    THEN Following(Escapes[source[q + 1]], scan[q + 2])
                    ELSE Unterminated(IF q < Len(source) THEN q + 2 ELSE q + 1)
              [] OTHER -> Following(source[q], scan[q + 1])
    IN  scan[p]

InitLexer ==
    /\ source \in Sources
    /\ at = 1
    /\ tokens = <<>>
    /\ lexing = "running"

Read(kind, value, start, end) ==
    /\ tokens' = Append(tokens, Token(kind, value, start, end))
    /\ at' = end
    /\ UNCHANGED <<source, lexing>>

LexError(p) ==
    /\ lexing' = "failed"
    /\ at' = p
    /\ UNCHANGED <<source, tokens>>

(* One turn of run()'s loop, by the first symbol that is not skipped. *)
ReadEof ==
    /\ lexing = "running"
    /\ Skip(at) > Len(source)
    /\ tokens' = Append(tokens, Token("Eof", "", Skip(at), Skip(at)))
    /\ at' = Skip(at)
    /\ lexing' = "done"
    /\ UNCHANGED source

ReadPunctuation ==
    /\ lexing = "running"
    /\ SymbolIn(Skip(at), Punctuation)
    /\ Read(source[Skip(at)], "", Skip(at), Skip(at) + 1)

ReadString ==
    /\ lexing = "running"
    /\ SymbolIn(Skip(at), {Quote})
    /\ LET literal == Literal(Skip(at) + 1)
       IN  IF literal.ok THEN Read("StringLit", literal.value, Skip(at), literal.end)
           ELSE LexError(literal.end)

(* number_literal: a sign needs a digit, and the value must fit. *)
DigitsStart(p) == IF SymbolIn(p, {"-"}) THEN p + 1 ELSE p
IsNumber(start, end) ==
    start < end /\ \A i \in start .. end - 1 : source[i] \notin Huge

ReadNumber ==
    /\ lexing = "running"
    /\ SymbolIn(Skip(at), Digits \union {"-"})
    /\ LET end == RunEnd(DigitsStart(Skip(at)), Digits)
       IN  IF IsNumber(DigitsStart(Skip(at)), end)
           THEN Read("IntLit", Text(Skip(at), end), Skip(at), end)
           ELSE LexError(end)

(* ident_or_keyword: a reserved word only if the whole run is one. *)
WordToken(text, start, end) ==
    CASE text \in Keywords -> Read(text, "", start, end)
      [] text \in {"true", "false"} -> Read("BoolLit", text, start, end)
      [] OTHER -> Read("Ident", text, start, end)

ReadWord ==
    /\ lexing = "running"
    /\ SymbolIn(Skip(at), Words)
    /\ LET end == RunEnd(Skip(at), Words \union Digits)
       IN  WordToken(Text(Skip(at), end), Skip(at), end)

ReadIllegal ==
    /\ lexing = "running"
    /\ Skip(at) <= Len(source)
    /\ ~SymbolIn(Skip(at), Punctuation \union Words \union Digits \union {Quote, "-"})
    /\ LexError(Skip(at) + 1)

NextToken ==
    \/ ReadEof \/ ReadPunctuation \/ ReadString \/ ReadNumber \/ ReadWord \/ ReadIllegal
=============================================================================
