---------------------------- MODULE MCBenchmark ----------------------------
(***************************************************************************)
(* Instances of Benchmark: directories of one to three files.              *)
(***************************************************************************)
EXTENDS Benchmark

P == [id |-> "p", version |-> 1, family |-> "Reentrancy"]
P2 == [id |-> "p", version |-> 2, family |-> "Reentrancy"]
Q == [id |-> "q", version |-> 1, family |-> "OracleManipulation"]

Entry(set, pattern) == [set |-> set, pattern |-> pattern]
Expect(id, outcome) == [id |-> id, outcome |-> outcome]
File(id, patterns, expected) ==
    [json |-> TRUE, definition |-> [id |-> id, patterns |-> patterns, expected |-> expected]]
TraceFile == [json |-> FALSE, definition |-> Nothing]
TraceJson == [json |-> TRUE, definition |-> Nothing]

Two(expected) == File("a", <<Entry("source", P), Entry("file", Q)>>, expected)
Versions == File("a", <<Entry("source", P), Entry("source", P2)>>,
                 <<Expect("p", "Abstain"), Expect("p", "Grounded")>>)
Single(id, outcome) == File(id, <<Entry("file", P)>>, <<Expect("p", outcome)>>)

MCDirectories ==
    {<<Two(<<Expect("p", "Grounded"), Expect("q", "NoMatch")>>), TraceFile, Single("b", "Ungrounded")>>,
     <<Two(<<Expect("p", "Abstain"), Expect("absent", "Grounded")>>), Single("b", "Grounded")>>,
     <<Versions, Single("b", "NoMatch")>>,
     <<Single("a", "Grounded"), Single("a", "Abstain")>>,
     <<Single("a", "Grounded"), TraceJson>>,
     <<File("a", <<Entry("both", P)>>, <<>>)>>,
     <<File("a", <<Entry("neither", P)>>, <<>>)>>,
     <<Single("a", "Grounded"), File("b", <<Entry("source", Nothing)>>, <<>>)>>,
     <<TraceFile>>}
=============================================================================
