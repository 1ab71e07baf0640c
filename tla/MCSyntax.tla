------------------------------ MODULE MCSyntax ------------------------------
(* Five files that use every construct, each with one edit anywhere: a token
   left out, replaced or added; the same files with nothing between their
   tokens; and every short string over the symbols the lexer tells apart. *)
EXTENDS Formatter

MCDigits == {"1", "9e18"}
MCHuge == {"9e18"}
MCWords == {"pattern", "version", "evidence", "required", "optional", "constraint",
            "sequence", "within", "same_call", "AND", "OR", "NOT", "true", "a", "b", "n"}

HeaderText == <<"pattern", "a", "version", "1", "{">>
String(word) == <<Quote, word, Quote>>

(* A file as a sequence of words, each a sequence of symbols. *)
Each(symbols) == [i \in DOMAIN symbols |-> <<symbols[i]>>]
Files ==
    { Each(HeaderText \o <<"a", ":", "b", "b", ":", "[">>) \o <<String("a")>>
        \o Each(<<",">>) \o <<String("b")>> \o Each(<<"]", "}">>),
      Each(HeaderText \o <<"evidence", "{", "required", "a", ":", "b", "(", "n", ":", "1", ",",
                           "b", ":">>) \o <<String("b")>>
        \o Each(<<")", "optional", "b", ":", "a", "(", ")", "}", "}">>),
      Each(HeaderText \o <<"constraint", ":", "AND", "(", "a", ",", "NOT", "(", "b", ")", ",",
                           "OR", "(", "a", ",", "b", ")", ")", "}">>),
      Each(HeaderText \o <<"sequence", ":", "[", "a", ",", "b", "]", "within", ":", "1",
                           "same_call", ":", "[", "b", ",", "a", "]", "}">>),
      Each(HeaderText \o <<"constraint", ":", "a", "evidence", "{", "optional", "a", ":", "b",
                           "(", ")", "}", "constraint", ":", "b", "evidence", "{", "}",
                           "a", ":", "b", "}", "}", "b">>) }

Edits == {<<symbol>> : symbol \in (MCWords \ {"n"}) \union Punctuation \union MCDigits}
            \union { String("a"), <<"/", "/">>, <<"?">>, <<"-", "1">>, <<"-">>, <<Quote>> }

Spaced(words) ==
    FlattenSeq([i \in DOMAIN words |-> words[i] \o <<IF i % 5 = 0 THEN NewLine ELSE " ">>])

Edited(words) ==
    {RemoveAt(words, i) : i \in DOMAIN words}
        \union {ReplaceAt(words, i, e) : i \in DOMAIN words, e \in Edits}
        \union {InsertAt(words, i, e) : i \in 5 .. Len(words), e \in Edits}

Symbols == {" ", NewLine, "/", Quote, Backslash, "n", "a", "1", "-", "9e18", "?", "{"}

(* Files that matter to the formatter: under opening comments, and with
   literals that hold an escape. *)
Commented ==
    {lead \o Spaced(file) : file \in Files,
        lead \in {<<"/", "/", "a", NewLine>>, <<NewLine, " ", NewLine>>,
                 <<" ", "/", "/", NewLine, NewLine, "/", "/", "1", NewLine>>}}
MCEscaping ==
    {Spaced(Each(HeaderText \o <<"a", ":">>)
            \o << <<Quote, "b", Backslash, symbol, Quote>>, <<"}">> >>) :
        symbol \in {Quote, Backslash, "n"}}

MCSources ==
    Commented \union MCEscaping \union
    UNION { {Spaced(words) : words \in Edited(file)} \union {FlattenSeq(file), Spaced(file)} :
                file \in Files }
        \union UNION {[1 .. n -> Symbols] : n \in 0 .. 4}
=============================================================================
