---------------------------- MODULE MCPredicates ----------------------------
(***************************************************************************)
(* Instances of Predicates: bytes of one digit pair, i128 ending at 7.     *)
(* MCNone is a value that no address, id or order equals.                  *)
(***************************************************************************)
EXTENDS Predicates

Sender == <<171>>
Other == <<2>>

CallOf(kind, from, to, value, selector, succeeded) ==
    [kind |-> kind, from |-> from, to |-> to, value |-> value,
     selector |-> selector, succeeded |-> succeeded]

MCCallShapes ==
    {CallOf("Call", Sender, Other, 2, <<175>>, TRUE),
     CallOf("Call", Other, Sender, 11, None, TRUE),
     CallOf("CallCode", Other, Other, 0, <<175>>, FALSE),
     CallOf("StaticCall", Other, Sender, 0, None, TRUE),
     CallOf("Create", Sender, None, 6, None, TRUE)}
MCChangeShapes == {[slot |-> <<10>>, before |-> <<0>>, after |-> <<1>>],
                   [slot |-> <<11>>, before |-> <<1>>, after |-> <<1>>]}
MCLogTopics == {<<>>, <<<<10>>>>, <<<<11>>, <<10>>>>}
MCTransferShapes == {[token |-> Sender, from |-> Other, to |-> Sender],
                     [token |-> Other, from |-> Sender, to |-> Other]}
MCTransactions == {[from |-> Sender, status |-> "Reverted", gasUsed |-> 3]}

Is(type, value) == [type |-> type, value |-> value]
Clause(kind, attrs) == [kind |-> kind, attrs |-> attrs]
One(name, v) == [n \in {name} |-> v]
Two(name, v, other, w) == [n \in {name, other} |-> IF n = name THEN v ELSE w]

Text10 == {<<"0", "x", "0", "a">>, <<"0", "A">>, <<"0", "X", "0", "a">>, <<"a">>}
MCQueries ==
    {Clause("call", One("kind", Is("ident", k))) :
        k \in {"External", "Internal", "Delegate", "Create"}}
    \union {Clause("call", Two("kind", Is("ident", "External"), name, v)) :
        name \in {"reentrant", "succeeded"}, v \in {Is("bool", b) : b \in BOOLEAN}}
    \union {Clause("call", Two("kind", Is("ident", "External"), "value_flow", Is("ident", d))) :
        d \in {"In", "Out"}}
    \union {Clause("call", One("min_value", Is("int", n))) : n \in {-1, 2, 3}}
    \union {Clause("call", One(name, Is("ident", "External"))) :
        name \in {"parent_kind", "ancestor_kind"}}
    \union {Clause("call", One("selector", Is("str", t))) :
        t \in {<<"0", "x", "A", "f">>, <<"a", "f", "f">>}}
    \union {Clause("storage", Two("changed", Is("bool", b), "role", Is("ident", "Balance"))) :
        b \in BOOLEAN}
    \union {Clause("storage", One("slot", Is("str", t))) : t \in Text10}
    \union {Clause("storage", One("call_kind", Is("ident", "Delegate")))}
    \union {Clause("value_flow", Two("direction", Is("ident", "In"), name, Is("int", n))) :
        name \in {"min", "max"}, n \in {-1, 2, 5}}
    \union {Clause("value_flow", One("direction", Is("ident", "Out")))}
    \union {Clause("token_transfer", Two("direction", Is("ident", d), "unexpected", Is("bool", TRUE))) :
        d \in {"In", "Out"}}
    \union {Clause("token_transfer", One("token", Is("str", <<"A", "b">>)))}
    \union {Clause("transaction", Two("status", Is("ident", s), "gas_used_min", Is("int", n))) :
        s \in {"Success", "Reverted"}, n \in {-1, 3, 4}}
    \union {Clause("log", Two("topic0", Is("str", t), "decoded", Is("bool", b))) :
        t \in Text10, b \in BOOLEAN}
=============================================================================
