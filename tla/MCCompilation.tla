---------------------------- MODULE MCCompilation ----------------------------
(* A legal pattern with every defect validation knows in its header, and every
   pair of evidence sections, constraints and groups over at most two
   declarations, legal or not. *)
EXTENDS Compilation

Entry(key, shape, items) == [key |-> key, value |-> [shape |-> shape, items |-> items]]
Family == Entry("family", "Ident", <<"F">>)
Severity == Entry("severity", "Ident", <<"High">>)

MCHeaders ==
    { <<Family, Severity>>,
      <<Severity, Family, Entry("tags", "StrList", <<"y", "x", "y">>),
        Entry("references", "StrList", <<>>)>>,
      <<Family, Severity, Entry("author", "Str", <<"x">>)>>,
      <<Family, Severity, Severity>>,
      <<Family, Severity, Entry("tags", "StrList", <<"x">>), Entry("tags", "StrList", <<"y">>)>>,
      <<Family, Entry("severity", "Ident", <<"Extreme">>), Severity>>,
      <<Family, Entry("severity", "Str", <<"High">>)>>,
      <<Entry("family", "Str", <<"F">>), Severity>>,
      <<Family, Severity, Entry("references", "Ident", <<"x">>)>>,
      <<Family>>, <<Severity>>, <<>> }

A(name, shape, text) == [name |-> name, value |-> [shape |-> shape, text |-> text]]
Call(attributes) == [kind |-> "call", attributes |-> attributes]
External == A("kind", "Ident", "External")
Static == A("kind", "Ident", "StaticCall")
Reentrant(text) == A("reentrant", "Bool", text)

Predicates ==
    { Call(<<External, A("min_value", "Int", "1"), A("selector", "Str", "x")>>),
      Call(<<>>), Call(<<A("kind", "Ident", "Inwards")>>), Call(<<A("kind", "Str", "External")>>),
      Call(<<Static, Reentrant("true")>>), Call(<<Static, Reentrant("false")>>),
      Call(<<External, Static, Reentrant("true")>>), Call(<<External, A("gas", "Int", "1")>>),
      Call(<<External, A("min_value", "Bool", "true")>>),
      [kind |-> "storage", attributes |-> <<A("role", "Ident", "Balance")>>],
      [kind |-> "storage", attributes |-> <<A("changed", "Bool", "true"), A("slot", "Str", "x")>>],
      [kind |-> "value_flow", attributes |-> <<A("direction", "Ident", "In")>>],
      [kind |-> "token_transfer", attributes |-> <<A("direction", "Ident", "Out")>>],
      [kind |-> "transaction", attributes |-> <<A("status", "Ident", "Reverted")>>],
      [kind |-> "log", attributes |-> <<A("decoded", "Bool", "true"), A("topic0", "Str", "x")>>],
      [kind |-> "block", attributes |-> <<>>] }

Declared(name, word, predicate) ==
    [requiredness |-> word, name |-> name, predicate |-> predicate]
Words == {"required", "optional"}
Good == Call(<<External>>)

MCEvidence ==
    {<<>>} \union {<<Declared("a", word, p)>> : word \in Words, p \in Predicates}
        \union {<<Declared("a", v, Good), Declared(name, w, Good)>> :
                    name \in {"a", "b"}, v \in Words, w \in Words}
        \union {<<Declared("b", "required", Good), Declared("a", "optional", p),
                  Declared("c", "required", Good)>> : p \in {Good, Call(<<>>)}}

Ref(name) == [op |-> "REF", name |-> name, items |-> <<>>]
Over(op, items) == [op |-> op, name |-> "", items |-> items]

MCConstraints ==
    { <<>>, << <<Ref("a")>> >>, << <<Ref("a"), Over("NOT", <<1>>)>> >>,
      << <<Ref("b"), Ref("a"), Over("AND", <<1, 2>>)>> >>,
      << <<Ref("a"), Ref("b"), Over("NOT", <<2>>), Over("OR", <<1, 3>>)>> >>,
      << <<Ref("a"), Ref("z"), Over("OR", <<1, 2>>)>> >> }

Group(items, within) == << [items |-> items, within |-> within] >>
MCSequences ==
    { <<>>, Group(<<"b", "a">>, <<>>), Group(<<"a", "b">>, <<2>>), Group(<<"a", "b">>, <<9>>),
      Group(<<"a", "b">>, <<0>>), Group(<<"a">>, <<>>), Group(<<"a", "a">>, <<>>),
      Group(<<"a", "z">>, <<1>>) }
MCSameCalls ==
    { <<>>, Group(<<"b", "a">>, <<>>), Group(<<"a", "a">>, <<>>), Group(<<>>, <<>>),
      Group(<<"z", "b">>, <<>>) }

Tree(version, metadata, evidence, constraint, sequence, same_call) ==
    [id |-> "p", version |-> version, metadata |-> metadata, evidence |-> evidence,
     constraint |-> constraint, sequence |-> sequence, same_call |-> same_call]

MCTrees ==
    { Tree(v, h, e, <<>>, <<>>, <<>>) : v \in {-1, 0, 1, 3, 4}, h \in MCHeaders,
        e \in {<<Declared("a", "required", Good)>>, <<>>} }
    \union
    { Tree(1, <<Family, Severity>>, e, c, s, g) :
        e \in MCEvidence, c \in MCConstraints, s \in MCSequences, g \in MCSameCalls }
=============================================================================
