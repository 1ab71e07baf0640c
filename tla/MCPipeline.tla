----------------------------- MODULE MCPipeline -----------------------------
(* Patterns over up to three clauses, for what the matcher searches by (Searched)
   and for the ways the two engines can differ:
   a clause the constraint does not name, an optional one it does, an OR, a
   NOT, an undecidable attribute, the whole transaction as a step, both groups
   at once, a same_call without an anchor; and the two kinds of pattern an
   engine refuses. *)
EXTENDS Pipeline

MCFacts == {[call |-> 0, nth |-> 1], [call |-> 1, nth |-> 1],
            [call |-> 1, nth |-> 2], [call |-> 2, nth |-> 1]}
MCRootFact == [call |-> 0, nth |-> 0]
MCKinds == {"storage", "transaction"}

Fact == [kind |-> "storage", required |-> TRUE, unresolved |-> FALSE]
Extra == [kind |-> "storage", required |-> FALSE, unresolved |-> FALSE]
Role == [kind |-> "storage", required |-> TRUE, unresolved |-> TRUE]
Whole == [kind |-> "transaction", required |-> TRUE, unresolved |-> FALSE]

APattern(clauses, tree, steps, members) ==
    [evidence |-> clauses, constraint |-> tree, sequence |-> steps, sameCall |-> members]

Conjunction == <<Evidence(1), Evidence(2), And(<<1, 2>>)>>
Triple == <<Evidence(1), Evidence(2), Evidence(3), And(<<1, 2, 3>>)>>
Disjunction == <<Evidence(1), Evidence(2), Or(<<1, 2>>)>>
Without == <<Evidence(1), Evidence(2), Not(2), And(<<1, 3>>)>>
Choice == <<Evidence(1), Evidence(2), Evidence(3), Not(3), And(<<2, 4>>), Or(<<1, 5>>)>>

Neither == <<Evidence(1), Not(1), Evidence(2), Not(3), And(<<2, 4>>)>>

(* What the matcher's search tells apart: steps out of the order of the clauses,
   one without an order key, members among the steps and beside them. *)
Searched ==
    { APattern(<<Fact, Fact>>, Conjunction, <<1, 2>>, <<>>),
      APattern(<<Fact, Fact, Fact>>, Triple, <<2, 1, 3>>, <<>>),
      APattern(<<Fact, Whole, Fact>>, Triple, <<1, 2, 3>>, <<>>),
      APattern(<<Fact, Fact>>, Conjunction, <<>>, <<2, 1>>),
      APattern(<<Fact, Fact, Fact>>, Conjunction, <<>>, <<3, 2>>),
      APattern(<<Fact, Fact, Fact>>, Triple, <<1, 2>>, <<1, 2, 3>>),
      APattern(<<Fact, Fact, Fact>>, Triple, <<1, 2, 3>>, <<2, 3>>),
      APattern(<<Fact, Fact, Fact>>, Choice, <<2, 3>>, <<>>),
      APattern(<<Whole, Fact>>, Conjunction, <<1, 2>>, <<>>) }

MCPatterns ==
    Searched \union
    { APattern(<<Fact, Fact, Fact>>, Conjunction, <<1, 2>>, <<2, 3>>),
      APattern(<<Fact, Extra>>, Conjunction, <<>>, <<>>),
      APattern(<<Fact, Fact>>, Disjunction, <<>>, <<>>),
      APattern(<<Fact, Fact, Fact>>, Choice, <<>>, <<>>),
      APattern(<<Fact, Fact>>, Without, <<1, 2>>, <<>>),
      APattern(<<Fact, Role>>, Conjunction, <<>>, <<2, 1>>),
      APattern(<<Fact, Whole>>, Conjunction, <<1, 2>>, <<>>),
      APattern(<<Fact, Fact, Whole>>, Conjunction, <<3, 1, 2>>, <<>>),
      APattern(<<Fact, Fact>>, <<Evidence(1), Not(1)>>, <<>>, <<>>),
      APattern(<<Fact>>, <<Evidence(1), Not(1), Or(<<1, 2>>)>>, <<>>, <<>>),
      APattern(<<Fact>>, Conjunction, <<>>, <<>>),
      APattern(<<Fact, Fact, Fact>>, <<Evidence(1), Not(1)>>, <<>>, <<2, 3>>),
      APattern(<<Fact, Fact>>, Neither, <<>>, <<1, 2>>) }
=============================================================================
