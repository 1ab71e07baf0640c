---------------------------- MODULE MCGrounding -----------------------------
(* Patterns over up to three clauses, one for each thing that can decide a
   result; two calls with a fact each; one reference that does not resolve. *)
EXTENDS Grounding

MCFacts == {[call |-> 0, nth |-> 1], [call |-> 1, nth |-> 1]}
MCRootFact == [call |-> 0, nth |-> 1]
MCStrayFacts == {[call |-> 9, nth |-> 1]}
MCKinds == {"storage", "transaction"}

Fact == [kind |-> "storage", required |-> TRUE, unresolved |-> FALSE]
Extra == [kind |-> "storage", required |-> FALSE, unresolved |-> FALSE]
Role == [kind |-> "storage", required |-> TRUE, unresolved |-> TRUE]
Whole == [kind |-> "transaction", required |-> TRUE, unresolved |-> FALSE]

APattern(clauses, tree, steps, members) ==
    [evidence |-> clauses, constraint |-> tree, sequence |-> steps, sameCall |-> members]

Conjunction == <<Evidence(1), Evidence(2), And(<<1, 2>>)>>
Without == <<Evidence(1), Evidence(2), Not(2), And(<<1, 3>>)>>
(* OR(AND(a, b), AND(NOT(a), c)) *)
Either == <<Evidence(1), Evidence(2), And(<<1, 2>>), Not(1), Evidence(3),
            And(<<4, 5>>), Or(<<3, 6>>)>>

MCPatterns ==
    { APattern(<<Fact, Fact>>, Conjunction, <<1, 2>>, <<>>),
      APattern(<<Fact, Fact>>, Conjunction, <<>>, <<1, 2>>),
      APattern(<<Fact, Extra>>, <<Evidence(1)>>, <<1, 2>>, <<2, 1>>),
      APattern(<<Fact, Fact>>, Without, <<>>, <<>>),
      APattern(<<Fact, Fact>>, Without, <<1, 2>>, <<>>),
      APattern(<<Role, Fact>>, Conjunction, <<>>, <<>>),
      APattern(<<Fact, Whole>>, Conjunction, <<1, 2>>, <<>>),
      APattern(<<Fact, Fact, Fact>>, Either, <<>>, <<>>) }
=============================================================================
