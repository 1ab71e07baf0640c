------------------------------- MODULE Traces -------------------------------
(***************************************************************************)
(* A trace as the matcher's engine and the grounding engine see it: the    *)
(* facts that can be cited, the call that produced each and its order key  *)
(* (crates/matcher/src/identity.rs, ordering.rs), and what evaluating a    *)
(* clause's predicate can return (predicate.rs).                           *)
(*                                                                         *)
(* A fact is [call, nth]: the call that produced it and its arena order    *)
(* among the facts of that call.                                           *)
(***************************************************************************)
EXTENDS Patterns

CONSTANTS
    Facts,      \* the facts of the trace
    RootFact,   \* the root call, which a transaction clause cites
    NoOrder     \* Option::None as an order key

ASSUME FactAssumption ==
    Facts \subseteq [call : Nat, nth : Nat] /\ RootFact \in [call : Nat, nth : Nat]
ASSUME NoOrderAssumption == NoOrder \notin Nat

Order == Nat \union {NoOrder}
Binding == [fact : Facts \union {RootFact}, order : Order]

(* identity::producing_call. *)
ProducingCall(fact) == fact.call

(* ordering::order_key: the arena index of the producing call, also of the
   root call that stands for a whole transaction. *)
OrderKey(fact) == fact.call

Before(f, g) == f.call < g.call \/ (f.call = g.call /\ f.nth < g.nth)

(* Two order keys in the order a sequence asks for: a binding without one is
   compatible with any position. *)
InOrder(first, second) == first = NoOrder \/ second = NoOrder \/ first <= second

(* The facts a predicate about calls, storage, value flows, transfers or logs
   may select, by order and then by arena order: any of them. *)
FactLists ==
    {list \in UNION {[1 .. n -> Facts] : n \in 0 .. Cardinality(Facts)} :
        \A i, j \in DOMAIN list : i < j => Before(list[i], list[j])}

(* What a transaction clause selects: the root call, standing for all of the
   transaction and without an order, or nothing. *)
WholeTransaction == {<<>>, <<[fact |-> RootFact, order |-> NoOrder]>>}

(* predicate::evaluate, for an arbitrary trace. *)
Evaluations(clause) ==
    IF clause.kind = "transaction" THEN WholeTransaction
    ELSE {[i \in DOMAIN list |-> [fact |-> list[i], order |-> list[i].call]] :
            list \in FactLists}

Least(S) == CHOOSE i \in S : \A j \in S : i <= j
=============================================================================
