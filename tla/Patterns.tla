------------------------------ MODULE Patterns ------------------------------
(***************************************************************************)
(* Compiled patterns, as the matcher and the grounding crates read them    *)
(* (crates/dsl/src/ir.rs), and the two tree walks both crates share: does  *)
(* the constraint hold, and which clauses does it name under an even and   *)
(* under an odd number of NOTs.                                            *)
(*                                                                         *)
(* An evidence clause is its 1-based place in the pattern's list (the code *)
(* counts from 0).  A constraint is a sequence of nodes: the items of a    *)
(* node are the indices of earlier nodes and the last node is the root.    *)
(***************************************************************************)
EXTENDS Integers, Sequences, FiniteSets, SequencesExt

Node == [op : {"evidence", "and", "or", "not"}, evidence : Nat, items : Seq(Nat)]

Evidence(e) == [op |-> "evidence", evidence |-> e, items |-> <<>>]
And(items) == [op |-> "and", evidence |-> 0, items |-> items]
Or(items) == [op |-> "or", evidence |-> 0, items |-> items]
Not(item) == [op |-> "not", evidence |-> 0, items |-> <<item>>]

(* kind matters only as "transaction" or any other; unresolved says that the
   predicate names an attribute no fact can decide (storage.role,
   token_transfer.unexpected). *)
Clause == [kind : STRING, required : BOOLEAN, unresolved : BOOLEAN]

(* sequence and sameCall are <<>> when the pattern declares none. *)
Pattern == [evidence : Seq(Clause), constraint : Seq(Node),
            sequence : Seq(Nat), sameCall : Seq(Nat)]

(* constraint::holds, for the set of clauses that have a match. *)
Holds(tree, matched) ==
    LET value[n \in 1 .. Len(tree)] ==
            \/ tree[n].op = "evidence" /\ tree[n].evidence \in matched
            \/ /\ tree[n].op = "and"
               /\ \A i \in 1 .. Len(tree[n].items) : value[tree[n].items[i]]
            \/ /\ tree[n].op = "or"
               /\ \E i \in 1 .. Len(tree[n].items) : value[tree[n].items[i]]
            \/ tree[n].op = "not" /\ ~value[tree[n].items[1]]
    IN  value[Len(tree)]

(* collect_positive_leaves, started with either polarity: the clauses named
   under an even (sign TRUE) or odd (sign FALSE) number of NOTs, depth first,
   with repetitions. *)
LeavesOfSign(tree, sign) ==
    LET leaves[n \in 1 .. Len(tree)] ==
            [positive \in BOOLEAN |->
                IF tree[n].op = "evidence"
                THEN IF positive THEN <<tree[n].evidence>> ELSE <<>>
                ELSE IF tree[n].op = "not" THEN leaves[tree[n].items[1]][~positive]
                ELSE FlattenSeq([i \in 1 .. Len(tree[n].items) |->
                                    leaves[tree[n].items[i]][positive]])]
    IN  leaves[Len(tree)][sign]

PositiveLeaves(tree) == LeavesOfSign(tree, TRUE)
NegativeLeaves(tree) == LeavesOfSign(tree, FALSE)

Elements(list) == {list[i] : i \in 1 .. Len(list)}

(* The clauses a pattern's constraint, sequence and same_call name. *)
References(pattern) ==
    Elements(PositiveLeaves(pattern.constraint))
        \union Elements(NegativeLeaves(pattern.constraint))
        \union Elements(pattern.sequence) \union Elements(pattern.sameCall)
=============================================================================
