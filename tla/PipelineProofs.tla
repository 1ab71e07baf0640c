--------------------------- MODULE PipelineProofs ---------------------------
(***************************************************************************)
(* What find_candidates promises, and then what the matcher and the        *)
(* grounding engine promise together, for every trace and every pattern.   *)
(*                                                                         *)
(* The matcher's invariant follows one attempt: which clauses it has bound,*)
(* that the bound steps are in order with lower the greatest of their      *)
(* keys, and that the greedy choice is never behind: whatever ordered      *)
(* assignment of the steps there is, lower does not exceed its keys so     *)
(* far.  The results of the attempts that have ended are kept beside it.   *)
(*                                                                         *)
(* The rest composes the two components' proofs: the matcher's invariants  *)
(* hold throughout, since nothing after the matcher touches its state, and *)
(* the grounding engine's holds from one candidate's hand-over to the      *)
(* next, since its steps are those of module Grounding.  What is new is    *)
(* the hand-over: what a candidate cites are matches of its clauses, and   *)
(* of a pattern with an anchor the very bindings the matcher found sound.  *)
(***************************************************************************)
EXTENDS Pipeline, SequenceProofs, FiniteSetTheorems, TLAPS

-----------------------------------------------------------------------------
(* The trace: order keys and what a clause's predicate selects.             *)

(* Least picks an element, and a least one. *)
LEMMA LeastIsLeast ==
    ASSUME NEW S \in SUBSET Nat, S # {}
    PROVE  Least(S) \in S /\ \A j \in S : Least(S) <= j
BY MinExists DEF Least

(* Whatever a clause's predicate selects is a list of bindings. *)
LEMMA EvaluationsAreBindings ==
    ASSUME NEW clause, NEW list \in Evaluations(clause)
    PROVE  list \in Seq(Binding)
<1>1. CASE clause.kind = "transaction"
  <2>1. [fact |-> RootFact, order |-> NoOrder] \in Binding
    BY DEF Binding, Order
  <2>2. \A b \in Binding : <<b>> \in Seq(Binding)
    OBVIOUS
  <2>3. list = <<>> \/ list = <<[fact |-> RootFact, order |-> NoOrder]>>
    BY <1>1 DEF Evaluations, WholeTransaction
  <2>4. <<>> \in Seq(Binding)
    OBVIOUS
  <2> QED BY <2>1, <2>2, <2>3, <2>4
<1>2. CASE clause.kind # "transaction"
  <2>1. PICK facts \in FactLists :
            list = [i \in DOMAIN facts |-> [fact |-> facts[i], order |-> facts[i].call]]
    BY <1>2 DEF Evaluations
  <2>2. PICK n \in 0 .. Cardinality(Facts) : facts \in [1 .. n -> Facts]
    BY DEF FactLists
  <2>3. n \in Nat
    BY <2>2
  <2>4. \A i \in 1 .. n : [fact |-> facts[i], order |-> facts[i].call] \in Binding
    BY <2>2, FactAssumption DEF Binding, Order
  <2>5. list \in [1 .. n -> Binding]
    BY <2>1, <2>2, <2>4
  <2> QED BY <2>3, <2>5
<1> QED BY <1>1, <1>2

(* The bindings of one clause are all without an order key, and then there is
   at most one, or they all have one and the keys never fall. *)
LEMMA EvaluationsAreSorted ==
    ASSUME NEW clause, NEW list \in Evaluations(clause)
    PROVE  \/ /\ Len(list) <= 1
              /\ \A i \in 1 .. Len(list) : list[i].order = NoOrder
           \/ /\ \A i \in 1 .. Len(list) : list[i].order \in Nat
              /\ \A i, j \in 1 .. Len(list) : i < j => list[i].order <= list[j].order
<1>1. CASE clause.kind = "transaction"
  <2>1. list = <<>> \/ list = <<[fact |-> RootFact, order |-> NoOrder]>>
    BY <1>1 DEF Evaluations, WholeTransaction
  <2>2. CASE list = <<>>
    BY <2>2
  <2>3. CASE list = <<[fact |-> RootFact, order |-> NoOrder]>>
    BY <2>3
  <2> QED BY <2>1, <2>2, <2>3
<1>2. CASE clause.kind # "transaction"
  <2>1. PICK facts \in FactLists :
            list = [i \in DOMAIN facts |-> [fact |-> facts[i], order |-> facts[i].call]]
    BY <1>2 DEF Evaluations
  <2>2. PICK n \in 0 .. Cardinality(Facts) : facts \in [1 .. n -> Facts]
    BY DEF FactLists
  <2>3. /\ n \in Nat /\ DOMAIN facts = 1 .. n /\ Len(list) = n
        /\ \A i \in 1 .. n : list[i].order = facts[i].call /\ facts[i].call \in Nat
    BY <2>1, <2>2, FactAssumption
  <2>4. \A i, j \in 1 .. n : i < j => facts[i].call <= facts[j].call
    BY <2>3 DEF FactLists, Before
  <2> QED BY <2>3, <2>4
<1> QED BY <1>1, <1>2

-----------------------------------------------------------------------------

InputsOK ==
    /\ pattern \in PatternSet
    /\ matches \in Seq(Seq(Binding))
    /\ Len(matches) <= Len(pattern.evidence)
    /\ \A c \in 1 .. Len(matches) : matches[c] \in Evaluations(pattern.evidence[c])

(* Everything an attempt starts from is there. *)
Anchored ==
    /\ HasAnchor
    /\ References(pattern) \subseteq Clauses
    /\ Len(matches) = Len(pattern.evidence)

Extending == {"sequence", "same_call", "members", "emit"}

ProgressOK ==
    /\ phase \in {"check", "failed", "evaluate", "attempt", "done"} \union Extending
    /\ phase \in {"check", "failed", "evaluate"} => candidates = <<>> /\ outcomes = <<>>
    /\ phase \notin {"check", "failed"} => References(pattern) \subseteq Clauses
    /\ phase \in {"attempt"} \union Extending => Anchored
    /\ phase = "done" => Len(matches) = Len(pattern.evidence)
    /\ phase \notin Extending => fixed = <<>> /\ lower = NoOrder /\ step = 1

(* What the attempt has bound are matches, the anchor's the occurrence. *)
AttemptOK ==
    /\ position <= Len(matches[Anchor])
    /\ Anchor \in DOMAIN fixed /\ fixed[Anchor] = AnchorBinding
    /\ DOMAIN fixed \subseteq Clauses
    /\ \A e \in DOMAIN fixed : fixed[e] \in Elements(matches[e])

Key(i) == fixed[Sequence[i]].order

StepsOrdered(n) ==
    /\ \A i \in 1 .. n : Sequence[i] \in DOMAIN fixed
    /\ \A i, j \in 1 .. n : i < j => InOrder(Key(i), Key(j))

(* lower is the greatest key of the steps bound, and no ordered assignment is
   before it. *)
ScanOK ==
    /\ step \in 1 .. Len(Sequence) + 1
    /\ StepsOrdered(step - 1)
    /\ lower = NoOrder => \A i \in 1 .. step - 1 : Key(i) = NoOrder
    /\ lower # NoOrder =>
        /\ lower \in Nat
        /\ \A i \in 1 .. step - 1 : Key(i) = NoOrder \/ Key(i) <= lower
        /\ \A f \in Assignments(position) :
                \E i \in 1 .. step - 1 : f[i].order \in Nat /\ lower <= f[i].order

Agreed(S) == \A d, e \in S : ProducingCall(fixed[d].fact) = ProducingCall(fixed[e].fact)

ResolvedOK ==
    /\ StepsOrdered(Len(Sequence))
    /\ Holds(pattern.constraint, MatchedClauses)

MembersOK ==
    /\ phase = "same_call" => step = 1 /\ pattern.sameCall # <<>>
    /\ phase = "members" =>
        /\ pattern.sameCall # <<>>
        /\ step \in 1 .. Len(pattern.sameCall) + 1
        /\ \A i \in 1 .. step - 1 : pattern.sameCall[i] \in DOMAIN fixed
        /\ \A e \in FixedMembers : ProducingCall(fixed[e].fact) = target
    /\ phase = "emit" => Members \subseteq DOMAIN fixed /\ Agreed(Members)

Outcome == {"no sequence", "unsatisfied", "fixed members disagree",
            "no first member", "no same call", "emitted"}

(* What the way the k-th attempt ended says. *)
OutcomeOK(k, outcome) ==
    /\ outcome \in Outcome
    /\ outcome \in {"no sequence", "unsatisfied", "emitted"} \/ pattern.sameCall # <<>>
    /\ outcome = "no sequence" => Sequence # <<>> /\ Assignments(k) = {}
    /\ outcome = "unsatisfied" => ~Holds(pattern.constraint, MatchedClauses)
    /\ outcome = "emitted" =>
        /\ Holds(pattern.constraint, MatchedClauses)
        /\ Sequence # <<>> => Assignments(k) # {}

HistoryOK ==
    /\ outcomes \in Seq(Outcome)
    /\ position = Len(outcomes) + 1
    /\ \A k \in 1 .. Len(outcomes) : OutcomeOK(k, outcomes[k])

Partial == UNION {[D -> Binding] : D \in SUBSET Nat}

ResultsOK ==
    /\ candidates \in Seq(Partial)
    /\ CandidatesSound
    /\ ~HasAnchor /\ phase = "done" =>
        Len(candidates) = IF Holds(pattern.constraint, MatchedClauses) THEN 1 ELSE 0

IInv ==
    /\ InputsOK
    /\ ProgressOK
    /\ phase \in Extending => AttemptOK
    /\ phase = "sequence" => ScanOK
    /\ phase \in Extending \ {"sequence"} => ResolvedOK
    /\ MembersOK
    /\ HistoryOK
    /\ ResultsOK

-----------------------------------------------------------------------------
(* What the inputs are.                                                     *)

LEMMA PatternFacts ==
    ASSUME InputsOK
    PROVE  /\ pattern.evidence \in Seq(Clause) /\ Len(pattern.evidence) \in Nat
           /\ Sequence \in Seq(Nat) /\ Len(Sequence) \in Nat
           /\ pattern.sameCall \in Seq(Nat) /\ Len(pattern.sameCall) \in Nat
           /\ \A i, j \in 1 .. Len(Sequence) : Sequence[i] = Sequence[j] => i = j
           /\ PositiveLeaves(pattern.constraint) \in Seq(Nat)
           /\ Sequence # <<>> => Anchor = Sequence[1]
<1>1. pattern \in Pattern
  BY PatternAssumption DEF InputsOK
<1>2. /\ pattern.evidence \in Seq(Clause)
      /\ pattern.sequence \in Seq(Nat) /\ pattern.sameCall \in Seq(Nat)
  BY <1>1 DEF Pattern
<1>3. /\ \A i, j \in 1 .. Len(pattern.sequence) :
            pattern.sequence[i] = pattern.sequence[j] => i = j
      /\ PositiveLeaves(pattern.constraint) \in Seq(Nat)
  BY StepsAssumption, LeavesAssumption DEF InputsOK
<1> QED BY <1>2, <1>3 DEF Sequence, Anchor, AnchorCandidates

LEMMA AnchoredFacts ==
    ASSUME InputsOK, Anchored
    PROVE  /\ Anchor \in Clauses
           /\ \A i \in 1 .. Len(Sequence) : Sequence[i] \in Clauses
           /\ Members \subseteq Clauses
           /\ Elements(PositiveLeaves(pattern.constraint)) \subseteq Clauses
           /\ Clauses \subseteq Nat
           /\ Clauses = 1 .. Len(matches)
<1>1. Len(matches) = Len(pattern.evidence) /\ Clauses = 1 .. Len(matches) /\ Clauses \subseteq Nat
  BY PatternFacts DEF Anchored, Clauses
<1>2. \A list \in Seq(Nat) : Elements(list) \subseteq References(pattern) =>
            \A i \in 1 .. Len(list) : list[i] \in Clauses
  BY DEF Anchored, Elements
<1>3. /\ Elements(Sequence) \subseteq References(pattern)
      /\ Elements(pattern.sameCall) \subseteq References(pattern)
      /\ Elements(PositiveLeaves(pattern.constraint)) \subseteq References(pattern)
  BY DEF References, Sequence
<1>4. AnchorCandidates \in Seq(Nat) /\ AnchorCandidates # <<>>
      /\ Elements(AnchorCandidates) \subseteq References(pattern)
  BY PatternFacts, <1>3 DEF AnchorCandidates, Sequence, Anchored, HasAnchor
<1>5. Anchor \in Clauses
  <2>1. 1 \in 1 .. Len(AnchorCandidates)
    BY <1>4
  <2> QED BY <1>2, <1>4, <2>1 DEF Anchor
<1>6. \A i \in 1 .. Len(Sequence) : Sequence[i] \in Clauses
  BY <1>2, <1>3, PatternFacts
<1> QED BY <1>1, <1>3, <1>5, <1>6 DEF Anchored, Members

(* The matches of a clause: bindings, without a key or sorted by key. *)
LEMMA MatchesFacts ==
    ASSUME InputsOK, NEW c \in 1 .. Len(matches)
    PROVE  /\ matches[c] \in Seq(Binding) /\ Len(matches[c]) \in Nat
           /\ \A i \in 1 .. Len(matches[c]) :
                    matches[c][i] \in Binding /\ matches[c][i] \in Elements(matches[c])
           /\ \A b \in Elements(matches[c]) : b \in Binding
           /\ \/ \A i \in 1 .. Len(matches[c]) : matches[c][i].order = NoOrder
              \/ /\ \A i \in 1 .. Len(matches[c]) : matches[c][i].order \in Nat
                 /\ \A i, j \in 1 .. Len(matches[c]) :
                        i < j => matches[c][i].order <= matches[c][j].order
<1>1. matches[c] \in Seq(Binding)
  BY DEF InputsOK
<1>2. matches[c] \in Evaluations(pattern.evidence[c])
  BY DEF InputsOK
<1>3. \/ \A i \in 1 .. Len(matches[c]) : matches[c][i].order = NoOrder
      \/ /\ \A i \in 1 .. Len(matches[c]) : matches[c][i].order \in Nat
         /\ \A i, j \in 1 .. Len(matches[c]) :
                i < j => matches[c][i].order <= matches[c][j].order
  BY <1>2, EvaluationsAreSorted
<1> QED BY <1>1, <1>3 DEF Elements

(* Nothing derived from the inputs changes while they do not. *)
LEMMA Kept ==
    ASSUME UNCHANGED <<pattern, matches>>
    PROVE  /\ Clauses' = Clauses /\ Sequence' = Sequence /\ Members' = Members
           /\ HasAnchor' = HasAnchor /\ Anchor' = Anchor
           /\ MatchedClauses' = MatchedClauses
           /\ InputsOK' = InputsOK /\ Anchored' = Anchored
           /\ \A k : Assignments(k)' = Assignments(k)
           /\ \A k, o : OutcomeOK(k, o)' <=> OutcomeOK(k, o)
           /\ \A c : Sound(c)' <=> Sound(c)
<1>1. /\ Clauses' = Clauses /\ Sequence' = Sequence /\ Members' = Members
      /\ HasAnchor' = HasAnchor /\ Anchor' = Anchor
  BY DEF Clauses, Sequence, Members, HasAnchor, Anchor, AnchorCandidates
<1>2. MatchedClauses' = MatchedClauses
  BY <1>1 DEF MatchedClauses
<1>3. InputsOK' = InputsOK /\ Anchored' = Anchored
  BY <1>1 DEF InputsOK, Anchored
<1>4. \A k : Assignments(k)' = Assignments(k)
  BY <1>1 DEF Assignments
<1>5. \A k, o : OutcomeOK(k, o)' <=> OutcomeOK(k, o)
  BY <1>1, <1>2, <1>4 DEF OutcomeOK
<1>6. \A c : Sound(c)' <=> Sound(c)
  BY <1>1, <1>2 DEF Sound
<1> QED BY <1>1, <1>2, <1>3, <1>4, <1>5, <1>6

LEMMA AppendFacts ==
    ASSUME NEW S, NEW list \in Seq(S), NEW e \in S
    PROVE  /\ Append(list, e) \in Seq(S) /\ Len(Append(list, e)) = Len(list) + 1
           /\ Append(list, e)[Len(list) + 1] = e
           /\ \A i \in 1 .. Len(list) : Append(list, e)[i] = list[i]
OBVIOUS

LEMMA BindFacts ==
    ASSUME NEW bound, NEW c, NEW b
    PROVE  /\ DOMAIN Bind(bound, c, b) = DOMAIN bound \union {c}
           /\ Bind(bound, c, b)[c] = b
           /\ \A d \in DOMAIN bound : d # c => Bind(bound, c, b)[d] = bound[d]
BY DEF Bind

-----------------------------------------------------------------------------
(* The sequence.                                                            *)

(* An assignment is a choice of matches, in order, that starts at the
   occurrence. *)
LEMMA AssignmentFacts ==
    ASSUME NEW k, NEW f \in Assignments(k)
    PROVE  /\ f[1] = matches[Anchor][k]
           /\ \A i \in 1 .. Len(Sequence) : f[i] \in Elements(matches[Sequence[i]])
           /\ \A i, j \in 1 .. Len(Sequence) : i < j => InOrder(f[i].order, f[j].order)
BY DEF Assignments

(* What the step under way may be bound to: the matches of its clause, or the
   occurrence alone, which is the first step. *)
LEMMA StepFacts ==
    ASSUME InputsOK, Anchored, AttemptOK, HistoryOK, step \in 1 .. Len(Sequence)
    PROVE  /\ Sequence[step] \in 1 .. Len(matches) /\ Sequence[step] \in Clauses
           /\ Sequence # <<>> /\ Anchor = Sequence[1]
           /\ AnchorBinding \in Elements(matches[Anchor]) /\ AnchorBinding \in Binding
           /\ step = 1 => StepBindings = <<AnchorBinding>>
           /\ step # 1 => /\ Sequence[step] # Anchor
                          /\ StepBindings = matches[Sequence[step]]
           /\ StepBindings \in Seq(Binding)
           /\ \A i \in 1 .. Len(StepBindings) :
                    StepBindings[i] \in Elements(matches[Sequence[step]])
<1>1. Sequence[step] \in Clauses /\ Sequence[step] \in 1 .. Len(matches)
  BY AnchoredFacts
<1>2. Sequence # <<>> /\ 1 \in 1 .. Len(Sequence)
  BY PatternFacts
<1>3. Anchor = Sequence[1] /\ Anchor \in 1 .. Len(matches)
  BY <1>2, PatternFacts, AnchoredFacts
<1>4. AnchorBinding \in Elements(matches[Anchor]) /\ AnchorBinding \in Binding
  <2>1. position \in 1 .. Len(matches[Anchor])
    BY <1>3, MatchesFacts DEF HistoryOK, AttemptOK
  <2> QED BY <1>3, <2>1, MatchesFacts DEF AnchorBinding
<1>5. step = 1 => StepBindings = <<AnchorBinding>>
  BY <1>3 DEF StepBindings
<1>6. step # 1 => Sequence[step] # Anchor /\ StepBindings = matches[Sequence[step]]
  BY <1>2, <1>3, PatternFacts DEF StepBindings
<1>7. /\ StepBindings \in Seq(Binding)
      /\ \A i \in 1 .. Len(StepBindings) : StepBindings[i] \in Elements(matches[Sequence[step]])
  <2>1. CASE step = 1
    <3>1. Sequence[step] = Anchor
      BY <2>1, <1>3
    <3>2. \A b \in Binding : <<b>> \in Seq(Binding) /\ Len(<<b>>) = 1 /\ <<b>>[1] = b
      OBVIOUS
    <3>3. /\ StepBindings \in Seq(Binding) /\ Len(StepBindings) = 1
          /\ StepBindings[1] \in Elements(matches[Sequence[step]])
      BY <2>1, <1>4, <1>5, <3>1, <3>2
    <3>4. \A i \in 1 .. Len(StepBindings) : i = 1
      BY <3>3
    <3> QED BY <3>3, <3>4
  <2>2. CASE step # 1
    BY <2>2, <1>1, <1>6, MatchesFacts
  <2> QED BY <2>1, <2>2
<1> QED BY <1>1, <1>2, <1>3, <1>4, <1>5, <1>6, <1>7

(* The greedy choice is never behind: what an ordered assignment has for the
   step under way is permitted. *)
LEMMA NeverBehind ==
    ASSUME InputsOK, Anchored, AttemptOK, HistoryOK, ScanOK, step \in 1 .. Len(Sequence),
           NEW f \in Assignments(position)
    PROVE  \E j \in PermittedAt(StepBindings) : f[step] = StepBindings[j]
<1>1. \A i \in 1 .. Len(Sequence) : f[i] \in Elements(matches[Sequence[i]])
  BY AssignmentFacts
<1>2. CASE step = 1
  <2>1. lower = NoOrder
    BY <1>2 DEF ScanOK
  <2>2. StepBindings = <<AnchorBinding>> /\ f[1] = AnchorBinding
    BY <1>2, StepFacts, AssignmentFacts DEF AnchorBinding
  <2>3. 1 \in PermittedAt(StepBindings)
    BY <2>1, <2>2 DEF PermittedAt, Permits
  <2> QED BY <1>2, <2>2, <2>3
<1>3. CASE step # 1
  <2>1. StepBindings = matches[Sequence[step]] /\ Sequence[step] \in 1 .. Len(matches)
    BY <1>3, StepFacts
  <2>2. PICK j \in 1 .. Len(StepBindings) : f[step] = StepBindings[j]
    BY <1>1, <2>1 DEF Elements
  <2>3. Permits(lower, f[step].order)
    <3>1. CASE lower = NoOrder
      BY <3>1 DEF Permits
    <3>2. CASE lower # NoOrder
      <4>1. PICK i \in 1 .. step - 1 : f[i].order \in Nat /\ lower <= f[i].order
        BY <3>2 DEF ScanOK
      <4>2. InOrder(f[i].order, f[step].order)
        <5>1. i \in 1 .. Len(Sequence) /\ i < step
          BY <4>1, PatternFacts
        <5> QED BY <5>1, AssignmentFacts
      <4>3. lower \in Nat /\ f[i].order # NoOrder
        BY <3>2, <4>1, NoOrderAssumption DEF ScanOK
      <4>4. f[step].order = NoOrder \/ f[step].order \in Nat
        <5>1. f[step] \in Binding
          BY <2>1, <2>2, MatchesFacts
        <5> QED BY <5>1 DEF Binding, Order
      <4> QED BY <4>1, <4>2, <4>3, <4>4 DEF InOrder, Permits
    <3> QED BY <3>1, <3>2
  <2> QED BY <2>2, <2>3 DEF PermittedAt
<1> QED BY <1>2, <1>3

(* What the step is bound to: a match the bound permits, and of those none
   with an earlier key. *)
LEMMA ChosenFacts ==
    ASSUME InputsOK, Anchored, AttemptOK, HistoryOK, ScanOK, step \in 1 .. Len(Sequence),
           PermittedAt(StepBindings) # {},
           NEW chosen, chosen = StepBindings[Least(PermittedAt(StepBindings))]
    PROVE  /\ chosen \in Elements(matches[Sequence[step]])
           /\ chosen.order = NoOrder \/ chosen.order \in Nat
           /\ Permits(lower, chosen.order)
           /\ step = 1 => chosen = AnchorBinding
           /\ chosen.order \in Nat => \A j \in PermittedAt(StepBindings) :
                    StepBindings[j].order \in Nat /\ chosen.order <= StepBindings[j].order
<1> DEFINE l == Least(PermittedAt(StepBindings))
<1>1. l \in PermittedAt(StepBindings) /\ \A j \in PermittedAt(StepBindings) : l <= j
  <2>1. PermittedAt(StepBindings) \in SUBSET Nat
    BY DEF PermittedAt
  <2> QED BY <2>1, LeastIsLeast
<1>2. l \in 1 .. Len(StepBindings) /\ Permits(lower, StepBindings[l].order)
  BY <1>1 DEF PermittedAt
<1>3. chosen = StepBindings[l]
  OBVIOUS
<1> HIDE DEF l
<1>4. chosen \in Elements(matches[Sequence[step]]) /\ chosen \in Binding
  BY <1>2, <1>3, StepFacts
<1>5. step = 1 => chosen = AnchorBinding
  <2> SUFFICES ASSUME step = 1 PROVE chosen = AnchorBinding
    OBVIOUS
  <2>1. StepBindings = <<AnchorBinding>>
    BY StepFacts
  <2>2. l = 1
    BY <1>2, <2>1
  <2> QED BY <1>3, <2>1, <2>2
<1>6. ASSUME chosen.order \in Nat, NEW j \in PermittedAt(StepBindings)
      PROVE  StepBindings[j].order \in Nat /\ chosen.order <= StepBindings[j].order
  <2>1. j \in 1 .. Len(StepBindings) /\ l <= j
    BY <1>1 DEF PermittedAt
  <2>2. CASE step = 1
    <3>1. Len(StepBindings) = 1
      BY <2>2, StepFacts
    <3>2. j = l
      BY <1>2, <2>1, <3>1
    <3> QED BY <1>3, <1>6, <3>2
  <2>3. CASE step # 1
    <3>1. StepBindings = matches[Sequence[step]] /\ Sequence[step] \in 1 .. Len(matches)
      BY <2>3, StepFacts
    <3>2. chosen.order # NoOrder
      BY <1>6, NoOrderAssumption
    <3>3. /\ \A i \in 1 .. Len(StepBindings) : StepBindings[i].order \in Nat
          /\ \A i, k \in 1 .. Len(StepBindings) :
                    i < k => StepBindings[i].order <= StepBindings[k].order
      BY <1>2, <1>3, <3>1, <3>2, MatchesFacts
    <3> QED BY <1>2, <1>3, <2>1, <3>3
  <2> QED BY <2>2, <2>3
<1> QED BY <1>2, <1>3, <1>4, <1>5, <1>6 DEF Binding, Order

-----------------------------------------------------------------------------
(* The invariant is inductive.                                              *)

LEMMA InitEstablishes == Init => IInv
<1> SUFFICES ASSUME Init PROVE IInv
  OBVIOUS
<1>1. InputsOK
  <2>1. pattern.evidence \in Seq(Clause)
    BY PatternAssumption DEF Init, Pattern
  <2> QED BY <2>1 DEF Init, InputsOK
<1>2. ProgressOK /\ phase = "check"
  BY DEF Init, ProgressOK, Extending
<1>3. HistoryOK
  BY DEF Init, HistoryOK
<1>4. ResultsOK
  BY DEF Init, ResultsOK, CandidatesSound
<1> QED BY <1>1, <1>2, <1>3, <1>4 DEF IInv, Extending, MembersOK

(* An attempt that ends with an outcome that is true, and with sound results,
   leaves everything as it should be for the next one. *)
LEMMA EndsAttempt ==
    ASSUME IInv, phase \in Extending, NEW outcome, OutcomeOK(position, outcome),
           EndAttempt(outcome), candidates' \in Seq(Partial),
           \A k \in 1 .. Len(candidates') : Sound(candidates'[k])
    PROVE  IInv'
<1> USE DEF EndAttempt
<1>1. InputsOK /\ Anchored /\ ProgressOK /\ HistoryOK
  BY DEF IInv, ProgressOK
<1>2. InputsOK' /\ Anchored' /\ HasAnchor'
  BY <1>1, Kept DEF Anchored
<1>3. ProgressOK' /\ phase' = "attempt"
  BY <1>1, <1>2 DEF ProgressOK, Extending, Anchored
<1>4. HistoryOK'
  <2>1. /\ outcomes' \in Seq(Outcome) /\ Len(outcomes') = Len(outcomes) + 1
        /\ outcomes'[position] = outcome /\ position = Len(outcomes) + 1
        /\ \A k \in 1 .. Len(outcomes) : outcomes'[k] = outcomes[k]
    <3>1. outcomes \in Seq(Outcome) /\ outcome \in Outcome /\ position = Len(outcomes) + 1
      BY <1>1 DEF HistoryOK, OutcomeOK
    <3>2. outcomes' = Append(outcomes, outcome)
      OBVIOUS
    <3> QED BY <3>1, <3>2, AppendFacts
  <2>2. \A k \in 1 .. Len(outcomes') : OutcomeOK(k, outcomes'[k])
    BY <1>1, <2>1 DEF HistoryOK
  <2>3. \A k, o : OutcomeOK(k, o)' <=> OutcomeOK(k, o)
    BY Kept
  <2>4. position' = Len(outcomes') + 1
    BY <1>1, <2>1 DEF HistoryOK
  <2> QED BY <2>1, <2>2, <2>3, <2>4 DEF HistoryOK
<1>5. ResultsOK'
  <2>1. \A c : Sound(c)' <=> Sound(c)
    BY Kept
  <2> QED BY <1>2, <2>1 DEF ResultsOK, CandidatesSound
<1> QED BY <1>2, <1>3, <1>4, <1>5 DEF IInv, Extending, MembersOK

(* The results stay as they are, whatever else the attempt under way does. *)
LEMMA ResultsKept ==
    ASSUME IInv, phase \in {"attempt"} \union Extending, phase' \in {"attempt", "done"} \union Extending,
           UNCHANGED <<pattern, matches, position, candidates, outcomes>>
    PROVE  /\ InputsOK' /\ Anchored' /\ HistoryOK' /\ ResultsOK'
           /\ References(pattern)' \subseteq Clauses'
<1>1. InputsOK /\ Anchored /\ HistoryOK /\ ResultsOK
  BY DEF IInv, ProgressOK
<1>2. InputsOK' /\ Anchored' /\ HasAnchor'
  BY <1>1, Kept DEF Anchored
<1>3. HistoryOK'
  <2>1. \A k, o : OutcomeOK(k, o)' <=> OutcomeOK(k, o)
    BY Kept
  <2> QED BY <1>1, <2>1 DEF HistoryOK
<1>4. ResultsOK'
  <2>1. \A c : Sound(c)' <=> Sound(c)
    BY Kept
  <2> QED BY <1>1, <1>2, <2>1 DEF ResultsOK, CandidatesSound, Anchored
<1> QED BY <1>2, <1>3, <1>4 DEF Anchored

LEMMA PreparationPreserves ==
    ASSUME IInv, CheckInBounds \/ Evaluate \/ GlobalCandidate \/ StartAttempts
    PROVE  IInv'
<1>1. InputsOK /\ ProgressOK /\ HistoryOK /\ ResultsOK /\ phase \in {"check", "evaluate"}
  BY DEF IInv, CheckInBounds, Evaluate, GlobalCandidate, StartAttempts
<1>2. candidates = <<>> /\ outcomes = <<>> /\ position = 1
  BY <1>1 DEF ProgressOK, HistoryOK
<1>3. CASE CheckInBounds
  <2>1. InputsOK' /\ Clauses' = Clauses /\ phase' \in {"evaluate", "failed"}
    BY <1>1, <1>3, Kept DEF CheckInBounds
  <2>2. ProgressOK'
    BY <1>1, <1>2, <1>3, <2>1 DEF CheckInBounds, ProgressOK, attempt, Extending
  <2>3. HistoryOK' /\ ResultsOK'
    BY <1>1, <1>2, <1>3, <2>1
       DEF CheckInBounds, HistoryOK, ResultsOK, CandidatesSound
  <2> QED BY <2>1, <2>2, <2>3 DEF IInv, Extending, MembersOK
<1>4. CASE Evaluate
  <2>1. PICK list \in Evaluations(pattern.evidence[Len(matches) + 1]) :
            matches' = Append(matches, list)
    BY <1>4 DEF Evaluate
  <2>2. list \in Seq(Binding)
    BY EvaluationsAreBindings
  <2>3. InputsOK'
    <3>1. /\ matches \in Seq(Seq(Binding)) /\ Len(matches) \in Nat
          /\ Len(matches) < Len(pattern.evidence) /\ Len(pattern.evidence) \in Nat
          /\ pattern' = pattern
      BY <1>1, <1>4, PatternFacts DEF Evaluate, InputsOK
    <3>2. /\ matches' \in Seq(Seq(Binding)) /\ Len(matches') = Len(matches) + 1
          /\ matches'[Len(matches) + 1] = list
          /\ \A i \in 1 .. Len(matches) : matches'[i] = matches[i]
      BY <2>1, <2>2, <3>1, AppendFacts
    <3>3. \A c \in 1 .. Len(matches') : matches'[c] \in Evaluations(pattern.evidence[c])
      BY <1>1, <2>1, <3>1, <3>2 DEF InputsOK
    <3> QED BY <1>1, <3>1, <3>2, <3>3 DEF InputsOK
  <2>4. Clauses' = Clauses /\ phase' = "evaluate"
    BY <1>4 DEF Evaluate, Clauses
  <2>5. ProgressOK'
    BY <1>1, <1>2, <1>4, <2>4 DEF Evaluate, ProgressOK, attempt, Extending
  <2>6. HistoryOK' /\ ResultsOK'
    BY <1>1, <1>2, <1>4, <2>4 DEF Evaluate, HistoryOK, ResultsOK, CandidatesSound
  <2> QED BY <2>3, <2>4, <2>5, <2>6 DEF IInv, Extending, MembersOK
<1>5. CASE GlobalCandidate
  <2>1. /\ InputsOK' /\ Clauses' = Clauses /\ phase' = "done" /\ ~HasAnchor'
        /\ MatchedClauses' = MatchedClauses
    BY <1>1, <1>5, Kept DEF GlobalCandidate
  <2>2. ProgressOK'
    BY <1>1, <1>2, <1>5, <2>1 DEF GlobalCandidate, ProgressOK, attempt, Extending
  <2>3. HistoryOK'
    BY <1>1, <1>2, <1>5 DEF GlobalCandidate, HistoryOK
  <2>4. ResultsOK'
    <3>1. <<>> \in Partial
      <4>1. <<>> \in [{} -> Binding] /\ {} \in SUBSET Nat
        OBVIOUS
      <4> QED BY <4>1 DEF Partial
    <3>2. <<<<>>>> \in Seq(Partial) /\ Len(<<<<>>>>) = 1 /\ <<>> \in Seq(Partial)
      BY <3>1
    <3>3. candidates' = IF Holds(pattern.constraint, MatchedClauses) THEN <<<<>>>> ELSE <<>>
      BY <1>5 DEF GlobalCandidate
    <3>4. pattern' = pattern
      BY <1>5 DEF GlobalCandidate
    <3> QED BY <2>1, <3>2, <3>3, <3>4 DEF ResultsOK, CandidatesSound
  <2> QED BY <2>1, <2>2, <2>3, <2>4 DEF IInv, Extending, MembersOK
<1>6. CASE StartAttempts
  <2>1. /\ InputsOK' /\ Clauses' = Clauses /\ phase' = "attempt" /\ HasAnchor'
        /\ Anchored' = Anchored /\ Anchored
    BY <1>1, <1>6, Kept DEF StartAttempts, ProgressOK, Anchored
  <2>2. ProgressOK'
    BY <1>1, <1>2, <1>6, <2>1 DEF StartAttempts, ProgressOK, attempt, Extending, Anchored
  <2>3. HistoryOK' /\ ResultsOK'
    BY <1>1, <1>2, <1>6, <2>1 DEF StartAttempts, HistoryOK, ResultsOK, CandidatesSound
  <2> QED BY <2>1, <2>2, <2>3 DEF IInv, Extending, MembersOK
<1> QED BY <1>3, <1>4, <1>5, <1>6

LEMMA StartPreserves == ASSUME IInv, StartAttempt \/ FinishAttempts PROVE IInv'
<1>1. InputsOK /\ Anchored /\ ProgressOK /\ HistoryOK /\ phase = "attempt"
  BY DEF IInv, ProgressOK, StartAttempt, FinishAttempts
<1>2. /\ InputsOK' /\ Anchored' /\ HistoryOK' /\ ResultsOK'
      /\ References(pattern)' \subseteq Clauses'
  BY <1>1, ResultsKept DEF StartAttempt, FinishAttempts, attempt, Extending
<1>3. CASE FinishAttempts
  <2>1. phase' = "done" /\ ProgressOK'
    BY <1>1, <1>2, <1>3 DEF FinishAttempts, ProgressOK, Anchored, attempt, Extending
  <2> QED BY <1>2, <2>1 DEF IInv, MembersOK, Extending
<1>4. CASE StartAttempt
  <2>1. /\ phase' = "sequence" /\ step' = 1 /\ lower' = NoOrder /\ position' = position
        /\ UNCHANGED <<pattern, matches>>
    BY <1>1, <1>4 DEF StartAttempt, ProgressOK, Extending
  <2>2. ProgressOK'
    BY <1>2, <2>1 DEF ProgressOK, Extending, Anchored
  <2>3. Anchor \in Clauses /\ Anchor \in 1 .. Len(matches) /\ position \in 1 .. Len(matches[Anchor])
    BY <1>1, <1>4, AnchoredFacts, MatchesFacts DEF StartAttempt, HistoryOK
  <2>4. AnchorBinding \in Elements(matches[Anchor])
    BY <1>1, <2>3, MatchesFacts DEF AnchorBinding
  <2>5. DOMAIN fixed' = {Anchor} /\ fixed'[Anchor] = AnchorBinding
    <3>1. fixed' = Bind(<<>>, Anchor, AnchorBinding) /\ DOMAIN <<>> = {}
      BY <1>4 DEF StartAttempt
    <3>2. /\ DOMAIN Bind(<<>>, Anchor, AnchorBinding) = DOMAIN <<>> \union {Anchor}
          /\ Bind(<<>>, Anchor, AnchorBinding)[Anchor] = AnchorBinding
      BY DEF Bind
    <3> QED BY <3>1, <3>2
  <2>6. Anchor' = Anchor /\ Clauses' = Clauses /\ AnchorBinding' = AnchorBinding
    BY <2>1, Kept DEF AnchorBinding
  <2>7. AttemptOK'
    BY <2>1, <2>3, <2>4, <2>5, <2>6 DEF AttemptOK
  <2>8. ScanOK'
    <3>1. Sequence' = Sequence /\ Len(Sequence) \in Nat
      BY <1>1, <2>1, Kept, PatternFacts
    <3> QED BY <2>1, <3>1 DEF ScanOK, StepsOrdered
  <2> QED BY <1>2, <2>1, <2>2, <2>7, <2>8 DEF IInv, MembersOK, Extending
<1> QED BY <1>3, <1>4

LEMMA AbandonPreserves ==
    ASSUME IInv, phase \in Extending, NEW outcome, OutcomeOK(position, outcome),
           Abandon(outcome)
    PROVE  IInv'
<1>1. HasAnchor /\ ResultsOK
  BY DEF IInv, ProgressOK, Anchored
<1>2. candidates' \in Seq(Partial) /\ \A k \in 1 .. Len(candidates') : Sound(candidates'[k])
  BY <1>1 DEF Abandon, ResultsOK, CandidatesSound
<1> QED BY <1>2, EndsAttempt DEF Abandon

(* What an attempt has bound has a match. *)
LEMMA FixedIsMatched ==
    ASSUME AttemptOK
    PROVE  DOMAIN fixed \subseteq MatchedClauses
<1>1. \A e \in DOMAIN fixed : matches[e] # <<>>
  BY DEF AttemptOK, Elements
<1> QED BY <1>1 DEF AttemptOK, MatchedClauses

LEMMA ResolvePreserves == ASSUME IInv, ResolveStep PROVE IInv'
<1> DEFINE chosen == StepBindings[Least(PermittedAt(StepBindings))]
<1>1. /\ InputsOK /\ Anchored /\ ProgressOK /\ HistoryOK /\ AttemptOK /\ ScanOK
      /\ phase = "sequence" /\ Len(Sequence) \in Nat
  BY PatternFacts DEF IInv, ProgressOK, ResolveStep, Extending
<1>2. /\ step \in 1 .. Len(Sequence) /\ step \in Nat /\ PermittedAt(StepBindings) # {}
      /\ fixed' = Bind(fixed, Sequence[step], chosen)
      /\ lower' = IF chosen.order = NoOrder THEN lower ELSE chosen.order
      /\ step' = step + 1 /\ phase' = "sequence" /\ position' = position
      /\ UNCHANGED <<pattern, matches, candidates, outcomes>>
  BY <1>1 DEF ResolveStep, ScanOK
<1>3. /\ InputsOK' /\ Anchored' /\ HistoryOK' /\ ResultsOK'
      /\ References(pattern)' \subseteq Clauses'
  BY <1>1, <1>2, ResultsKept DEF Extending
<1>4. /\ chosen \in Elements(matches[Sequence[step]])
      /\ chosen.order = NoOrder \/ chosen.order \in Nat
      /\ Permits(lower, chosen.order)
      /\ step = 1 => chosen = AnchorBinding
      /\ chosen.order \in Nat => \A j \in PermittedAt(StepBindings) :
            StepBindings[j].order \in Nat /\ chosen.order <= StepBindings[j].order
  <2> DEFINE c == chosen
  <2>1. c = StepBindings[Least(PermittedAt(StepBindings))]
    OBVIOUS
  <2> HIDE DEF c
  <2>2. /\ c \in Elements(matches[Sequence[step]])
        /\ c.order = NoOrder \/ c.order \in Nat
        /\ Permits(lower, c.order)
        /\ step = 1 => c = AnchorBinding
        /\ c.order \in Nat => \A j \in PermittedAt(StepBindings) :
              StepBindings[j].order \in Nat /\ c.order <= StepBindings[j].order
    BY <1>1, <1>2, <2>1, ChosenFacts
  <2> QED BY <2>2 DEF c
<1> HIDE DEF chosen
<1>5. /\ Anchor' = Anchor /\ Sequence' = Sequence /\ Clauses' = Clauses
      /\ AnchorBinding' = AnchorBinding /\ Assignments(position)' = Assignments(position)
  BY <1>2, Kept DEF AnchorBinding
<1>6. /\ Sequence[step] \in Clauses /\ Anchor = Sequence[1]
      /\ step # 1 => Sequence[step] # Anchor
  BY <1>1, <1>2, StepFacts
<1>7. /\ DOMAIN fixed' = DOMAIN fixed \union {Sequence[step]}
      /\ fixed'[Sequence[step]] = chosen
      /\ \A e \in DOMAIN fixed : e # Sequence[step] => fixed'[e] = fixed[e]
  BY <1>2 DEF Bind
<1>8. AttemptOK'
  <2>1. fixed'[Anchor] = AnchorBinding /\ Anchor \in DOMAIN fixed'
    BY <1>1, <1>4, <1>6, <1>7 DEF AttemptOK
  <2>2. \A e \in DOMAIN fixed' : e \in Clauses /\ fixed'[e] \in Elements(matches[e])
    BY <1>1, <1>4, <1>6, <1>7 DEF AttemptOK
  <2> QED BY <1>1, <1>2, <1>5, <2>1, <2>2 DEF AttemptOK
<1>9. \A i \in 1 .. step - 1 :
        /\ i \in 1 .. Len(Sequence) /\ i < step
        /\ Sequence[i] \in DOMAIN fixed'
        /\ fixed'[Sequence[i]] = fixed[Sequence[i]]
  <2> SUFFICES ASSUME NEW i \in 1 .. step - 1
               PROVE  /\ i \in 1 .. Len(Sequence) /\ i < step
                      /\ Sequence[i] \in DOMAIN fixed'
                      /\ fixed'[Sequence[i]] = fixed[Sequence[i]]
    OBVIOUS
  <2>1. i \in 1 .. Len(Sequence) /\ i < step
    BY <1>1, <1>2
  <2>2. Sequence[i] # Sequence[step]
    BY <1>1, <1>2, <2>1, PatternFacts
  <2>3. Sequence[i] \in DOMAIN fixed
    BY <1>1 DEF ScanOK, StepsOrdered
  <2> QED BY <1>7, <2>1, <2>2, <2>3
<1>10. \A i \in 1 .. step - 1 : InOrder(Key(i), chosen.order)
  <2> SUFFICES ASSUME NEW i \in 1 .. step - 1 PROVE InOrder(Key(i), chosen.order)
    OBVIOUS
  <2>1. CASE lower = NoOrder
    BY <1>1, <2>1 DEF ScanOK, InOrder
  <2>2. CASE lower # NoOrder
    <3>1. lower \in Nat /\ (Key(i) = NoOrder \/ Key(i) <= lower)
      BY <1>1, <2>2 DEF ScanOK
    <3>2. Key(i) = NoOrder \/ Key(i) \in Nat
      <4>1. Sequence[i] \in DOMAIN fixed /\ Sequence[i] \in 1 .. Len(matches)
        BY <1>1, <1>9, AnchoredFacts DEF ScanOK, StepsOrdered
      <4>2. fixed[Sequence[i]] \in Binding
        BY <1>1, <4>1, MatchesFacts DEF AttemptOK
      <4> QED BY <4>2 DEF Key, Binding, Order
    <3>3. chosen.order = NoOrder \/ lower <= chosen.order
      BY <1>4, <2>2 DEF Permits
    <3> QED BY <1>4, <3>1, <3>2, <3>3 DEF InOrder
  <2> QED BY <2>1, <2>2
<1>11. ScanOK'
  <2> DEFINE new(i) == fixed'[Sequence[i]].order
  <2>1. step' \in 1 .. Len(Sequence) + 1 /\ step' - 1 = step
    BY <1>1, <1>2
  <2>2. \A i \in 1 .. step : i = step \/ i \in 1 .. step - 1
    BY <1>2
  <2>3. \A i \in 1 .. step - 1 : new(i) = Key(i)
    BY <1>9 DEF Key
  <2>4. new(step) = chosen.order
    BY <1>7
  <2> HIDE DEF new
  <2>5. \A i \in 1 .. step : Sequence[i] \in DOMAIN fixed'
    BY <1>7, <1>9, <2>2
  <2>6. \A i, j \in 1 .. step : i < j => InOrder(new(i), new(j))
    <3> SUFFICES ASSUME NEW i \in 1 .. step, NEW j \in 1 .. step, i < j
                 PROVE  InOrder(new(i), new(j))
      OBVIOUS
    <3>1. i \in 1 .. step - 1 /\ new(i) = Key(i)
      BY <1>2, <2>2, <2>3
    <3>2. CASE j = step
      BY <1>10, <2>4, <3>1, <3>2
    <3>3. CASE j \in 1 .. step - 1
      <4>1. InOrder(Key(i), Key(j))
        BY <1>1, <3>1, <3>3 DEF ScanOK, StepsOrdered
      <4> QED BY <2>3, <3>1, <3>3, <4>1
    <3> QED BY <2>2, <3>2, <3>3
  <2>7. ASSUME chosen.order = NoOrder
        PROVE  /\ lower' = lower
               /\ lower' = NoOrder => \A i \in 1 .. step : new(i) = NoOrder
               /\ lower' # NoOrder =>
                    /\ lower' \in Nat
                    /\ \A i \in 1 .. step : new(i) = NoOrder \/ new(i) <= lower'
                    /\ \A f \in Assignments(position) :
                         \E i \in 1 .. step : f[i].order \in Nat /\ lower' <= f[i].order
    <3>1. lower' = lower
      BY <1>2, <2>7
    <3>2. lower = NoOrder => \A i \in 1 .. step : new(i) = NoOrder
      BY <1>1, <2>2, <2>3, <2>4, <2>7 DEF ScanOK
    <3>3. lower # NoOrder =>
            /\ lower \in Nat
            /\ \A i \in 1 .. step : new(i) = NoOrder \/ new(i) <= lower
      BY <1>1, <2>2, <2>3, <2>4, <2>7 DEF ScanOK
    <3>4. ASSUME lower # NoOrder, NEW f \in Assignments(position)
          PROVE  \E i \in 1 .. step : f[i].order \in Nat /\ lower <= f[i].order
      <4>1. PICK i \in 1 .. step - 1 : f[i].order \in Nat /\ lower <= f[i].order
        BY <1>1, <3>4 DEF ScanOK
      <4>2. i \in 1 .. step
        BY <1>2
      <4> QED BY <4>1, <4>2
    <3> QED BY <3>1, <3>2, <3>3, <3>4
  <2>8. ASSUME chosen.order # NoOrder
        PROVE  /\ lower' # NoOrder /\ lower' \in Nat
               /\ \A i \in 1 .. step : new(i) = NoOrder \/ new(i) <= lower'
               /\ \A f \in Assignments(position) :
                    \E i \in 1 .. step : f[i].order \in Nat /\ lower' <= f[i].order
    <3>1. lower' = chosen.order /\ chosen.order \in Nat
      BY <1>2, <1>4, <2>8
    <3>2. \A i \in 1 .. step : new(i) = NoOrder \/ new(i) <= chosen.order
      <4> SUFFICES ASSUME NEW i \in 1 .. step
                   PROVE  new(i) = NoOrder \/ new(i) <= chosen.order
        OBVIOUS
      <4>1. CASE i = step
        BY <2>4, <3>1, <4>1
      <4>2. CASE i \in 1 .. step - 1
        <5>1. new(i) = Key(i) /\ InOrder(Key(i), chosen.order)
          BY <1>10, <2>3, <4>2
        <5> QED BY <2>8, <5>1 DEF InOrder
      <4> QED BY <2>2, <4>1, <4>2
    <3>3. ASSUME NEW f \in Assignments(position)
          PROVE  f[step].order \in Nat /\ chosen.order <= f[step].order
      <4>1. PICK j \in PermittedAt(StepBindings) : f[step] = StepBindings[j]
        BY <1>1, <1>2, NeverBehind
      <4> QED BY <1>4, <3>1, <4>1
    <3>4. step \in 1 .. step
      BY <1>2
    <3> QED BY <3>1, <3>2, <3>3, <3>4, NoOrderAssumption
  <2>10. CASE chosen.order = NoOrder
    BY <1>2, <1>5, <2>1, <2>5, <2>6, <2>7, <2>10 DEF ScanOK, StepsOrdered, Key, new
  <2>11. CASE chosen.order # NoOrder
    BY <1>2, <1>5, <2>1, <2>5, <2>6, <2>8, <2>11 DEF ScanOK, StepsOrdered, Key, new
  <2> QED BY <2>10, <2>11
<1>12. ProgressOK'
  BY <1>2, <1>3 DEF ProgressOK, Extending, Anchored
<1> QED BY <1>2, <1>3, <1>8, <1>11, <1>12 DEF IInv, MembersOK, Extending

LEMMA FailurePreserves == ASSUME IInv, SequenceFails PROVE IInv'
<1>1. /\ InputsOK /\ Anchored /\ HistoryOK /\ AttemptOK /\ ScanOK
      /\ phase = "sequence" /\ Len(Sequence) \in Nat
  BY PatternFacts DEF IInv, ProgressOK, SequenceFails, Extending
<1>2. step \in 1 .. Len(Sequence) /\ PermittedAt(StepBindings) = {}
  <2>1. step \in 1 .. Len(Sequence) + 1
    BY <1>1 DEF ScanOK
  <2>2. step <= Len(Sequence) /\ PermittedAt(StepBindings) = {}
    BY DEF SequenceFails
  <2> QED BY <1>1, <2>1, <2>2
<1>3. Sequence # <<>>
  BY <1>1, <1>2, StepFacts
<1>4. Assignments(position) = {}
  <2>1. ASSUME NEW f \in Assignments(position) PROVE FALSE
    <3>1. \E j \in PermittedAt(StepBindings) : f[step] = StepBindings[j]
      BY <1>1, <1>2, NeverBehind
    <3> QED BY <1>2, <3>1
  <2> QED BY <2>1
<1>5. OutcomeOK(position, "no sequence")
  BY <1>3, <1>4 DEF OutcomeOK, Outcome
<1>6. Abandon("no sequence") /\ phase \in Extending
  BY <1>1 DEF SequenceFails, Extending
<1> QED BY <1>5, <1>6, AbandonPreserves

LEMMA CheckPreserves == ASSUME IInv, CheckConstraint PROVE IInv'
<1>1. /\ InputsOK /\ Anchored /\ ProgressOK /\ HistoryOK /\ AttemptOK /\ ScanOK
      /\ phase = "sequence" /\ Len(Sequence) \in Nat
  BY PatternFacts DEF IInv, ProgressOK, CheckConstraint, Extending
<1>2. Satisfied <=> Holds(pattern.constraint, MatchedClauses)
  <2>1. DOMAIN fixed \union MatchedClauses = MatchedClauses
    BY <1>1, FixedIsMatched
  <2> QED BY <2>1 DEF Satisfied
<1>3. CASE ~Satisfied
  <2>1. ~Holds(pattern.constraint, MatchedClauses)
    BY <1>2, <1>3
  <2>2. OutcomeOK(position, "unsatisfied")
    BY <2>1 DEF OutcomeOK, Outcome
  <2>3. Abandon("unsatisfied") /\ phase \in Extending
    BY <1>1, <1>3 DEF CheckConstraint, Extending
  <2> QED BY <2>2, <2>3, AbandonPreserves
<1>4. CASE Satisfied
  <2>1. /\ phase' = IF pattern.sameCall = <<>> THEN "emit" ELSE "same_call"
        /\ step' = 1
        /\ UNCHANGED <<pattern, matches, position, fixed, lower, target, candidates, outcomes>>
    BY <1>4 DEF CheckConstraint
  <2>2. /\ InputsOK' /\ Anchored' /\ HistoryOK' /\ ResultsOK'
        /\ References(pattern)' \subseteq Clauses'
    BY <1>1, <2>1, ResultsKept DEF Extending
  <2>3. /\ Anchor' = Anchor /\ Sequence' = Sequence /\ Clauses' = Clauses
        /\ AnchorBinding' = AnchorBinding /\ MatchedClauses' = MatchedClauses
        /\ Members' = Members
    BY <2>1, Kept DEF AnchorBinding
  <2>4. AttemptOK'
    BY <1>1, <2>1, <2>3 DEF AttemptOK
  <2>5. StepsOrdered(Len(Sequence))
    <3>1. step - 1 = Len(Sequence)
      BY <1>1 DEF CheckConstraint, ScanOK
    <3> QED BY <1>1, <3>1 DEF ScanOK
  <2>6. ResolvedOK'
    BY <1>2, <1>4, <2>1, <2>3, <2>5 DEF ResolvedOK, StepsOrdered, Key
  <2>7. MembersOK'
    <3>1. pattern.sameCall = <<>> => Members = {}
      BY DEF Members, Elements
    <3> QED BY <2>1, <2>3, <3>1 DEF MembersOK, Agreed
  <2>8. ProgressOK'
    BY <2>1, <2>2 DEF ProgressOK, Extending, Anchored
  <2> QED BY <2>1, <2>2, <2>4, <2>6, <2>7, <2>8 DEF IInv, Extending
<1> QED BY <1>3, <1>4

-----------------------------------------------------------------------------
(* The same_call group.                                                     *)

(* Binding a clause that was not bound to one of its matches, or binding
   nothing, disturbs neither the anchor nor the sequence. *)
LEMMA BoundMore ==
    ASSUME IInv, phase \in Extending \ {"sequence"}, phase' \in Extending \ {"sequence"},
           UNCHANGED <<pattern, matches, position, candidates, outcomes>>,
           \/ UNCHANGED fixed
           \/ \E c \in Clauses \ DOMAIN fixed : \E b \in Elements(matches[c]) :
                    fixed' = Bind(fixed, c, b)
    PROVE  InputsOK' /\ Anchored' /\ ProgressOK' /\ HistoryOK' /\ ResultsOK'
           /\ AttemptOK' /\ ResolvedOK' /\ Members' = Members
<1>1. InputsOK /\ Anchored /\ AttemptOK /\ ResolvedOK
  BY DEF IInv, ProgressOK, Extending
<1>2. /\ InputsOK' /\ Anchored' /\ HistoryOK' /\ ResultsOK'
      /\ References(pattern)' \subseteq Clauses'
  BY ResultsKept DEF Extending
<1>3. /\ Anchor' = Anchor /\ Sequence' = Sequence /\ Clauses' = Clauses
      /\ AnchorBinding' = AnchorBinding /\ MatchedClauses' = MatchedClauses
      /\ Members' = Members
  BY Kept DEF AnchorBinding
<1>4. /\ \A e \in DOMAIN fixed : e \in DOMAIN fixed' /\ fixed'[e] = fixed[e]
      /\ \A e \in DOMAIN fixed' : e \in Clauses /\ fixed'[e] \in Elements(matches[e])
  <2>1. CASE UNCHANGED fixed
    BY <1>1, <2>1 DEF AttemptOK
  <2>2. CASE \E c \in Clauses \ DOMAIN fixed : \E b \in Elements(matches[c]) :
                    fixed' = Bind(fixed, c, b)
    BY <1>1, <2>2 DEF AttemptOK, Bind
  <2> QED BY <2>1, <2>2
<1>5. AttemptOK'
  BY <1>1, <1>3, <1>4 DEF AttemptOK
<1>6. ResolvedOK'
  BY <1>1, <1>3, <1>4 DEF ResolvedOK, StepsOrdered, Key
<1>7. ProgressOK'
  BY <1>2 DEF ProgressOK, Extending, Anchored
<1> QED BY <1>2, <1>3, <1>5, <1>6, <1>7

LEMMA TargetPreserves == ASSUME IInv, TargetFromFixed \/ TargetFromFirstMember PROVE IInv'
<1>1. /\ InputsOK /\ Anchored /\ AttemptOK /\ phase = "same_call"
      /\ step = 1 /\ pattern.sameCall # <<>> /\ pattern.sameCall \in Seq(Nat)
      /\ Len(pattern.sameCall) \in Nat
  BY PatternFacts
     DEF IInv, ProgressOK, MembersOK, TargetFromFixed, TargetFromFirstMember, Extending
<1>2. \A o \in Outcome : o \notin {"no sequence", "unsatisfied", "emitted"} => OutcomeOK(position, o)
  BY <1>1 DEF OutcomeOK
<1>3. ASSUME NEW o \in Outcome, o \notin {"no sequence", "unsatisfied", "emitted"}, Abandon(o)
      PROVE  IInv'
  BY <1>1, <1>2, <1>3, AbandonPreserves DEF Extending
<1>4. CASE TargetFromFixed
  <2>1. CASE Cardinality(FixedCalls) = 1 /\ target' \in FixedCalls
    <3>1. /\ phase' = "members" /\ step' = 1 /\ fixed' = fixed
          /\ UNCHANGED <<pattern, matches, position, candidates, outcomes>>
      BY <1>1, <1>4, <2>1 DEF TargetFromFixed, Abandon, EndAttempt
    <3>2. /\ InputsOK' /\ Anchored' /\ ProgressOK' /\ HistoryOK' /\ ResultsOK'
          /\ AttemptOK' /\ ResolvedOK' /\ Members' = Members
      BY <1>1, <3>1, BoundMore DEF Extending
    <3>3. \A e \in FixedMembers : ProducingCall(fixed[e].fact) = target'
      <4>1. IsFiniteSet(FixedCalls)
        <5>1. IsFiniteSet(FixedMembers) /\ FixedMembers \subseteq Clauses
          <6>1. FixedMembers \subseteq 1 .. Len(matches) /\ Len(matches) \in Nat
            BY <1>1, AnchoredFacts DEF FixedMembers, InputsOK
          <6>2. IsFiniteSet(1 .. Len(matches))
            BY <6>1, FS_Interval
          <6> QED BY <1>1, <6>1, <6>2, FS_Subset, AnchoredFacts
        <5> DEFINE call == [c \in FixedMembers |-> ProducingCall(fixed[c].fact)]
        <5>2. call \in Surjection(FixedMembers, FixedCalls)
          BY DEF Surjection, FixedCalls
        <5> QED BY <5>1, <5>2, FS_Surjection
      <4>2. PICK call : FixedCalls = {call}
        BY <2>1, <4>1, FS_Singleton
      <4> QED BY <2>1, <4>2 DEF FixedCalls
    <3>4. MembersOK'
      BY <1>1, <3>1, <3>2, <3>3 DEF MembersOK, FixedMembers
    <3> QED BY <3>1, <3>2, <3>4 DEF IInv, Extending
  <2>2. CASE ~(Cardinality(FixedCalls) = 1 /\ target' \in FixedCalls)
    <3>1. Abandon("fixed members disagree")
      BY <1>4, <2>2 DEF TargetFromFixed
    <3> QED BY <1>3, <3>1 DEF Outcome
  <2> QED BY <2>1, <2>2
<1>5. CASE TargetFromFirstMember
  <2> DEFINE first == Least(Members)
  <2>1. first \in Members
    <3>1. 1 \in 1 .. Len(pattern.sameCall)
      BY <1>1
    <3>2. Members \in SUBSET Nat /\ pattern.sameCall[1] \in Members
      BY <1>1, <3>1 DEF Members, Elements
    <3> QED BY <3>2, LeastIsLeast
  <2> HIDE DEF first
  <2>2. FixedMembers = {} /\ first \notin DOMAIN fixed /\ first \in Clauses
    BY <1>1, <1>5, <2>1, AnchoredFacts DEF TargetFromFirstMember, FixedMembers
  <2>3. CASE matches[first] # <<>> /\ phase' = "members"
    <3>1. /\ phase' = "members" /\ step' = 1
          /\ fixed' = Bind(fixed, first, matches[first][1])
          /\ target' = ProducingCall(matches[first][1].fact)
          /\ UNCHANGED <<pattern, matches, position, candidates, outcomes>>
      BY <1>1, <1>5, <2>3 DEF TargetFromFirstMember, Abandon, EndAttempt, first
    <3>2. matches[first][1] \in Elements(matches[first])
      <4>1. first \in 1 .. Len(matches)
        BY <1>1, <2>2, AnchoredFacts
      <4>2. matches[first] \in Seq(Binding) /\ 1 \in 1 .. Len(matches[first])
        BY <1>1, <2>3, <4>1, MatchesFacts
      <4> QED BY <4>2 DEF Elements
    <3>3. /\ InputsOK' /\ Anchored' /\ ProgressOK' /\ HistoryOK' /\ ResultsOK'
          /\ AttemptOK' /\ ResolvedOK' /\ Members' = Members
      BY <1>1, <2>2, <3>1, <3>2, BoundMore DEF Extending
    <3>4. \A e \in Members \intersect DOMAIN fixed' : ProducingCall(fixed'[e].fact) = target'
      BY <2>2, <3>1 DEF Bind, FixedMembers
    <3>5. MembersOK'
      BY <1>1, <3>1, <3>3, <3>4 DEF MembersOK, FixedMembers
    <3> QED BY <3>1, <3>3, <3>5 DEF IInv, Extending
  <2>4. CASE ~(matches[first] # <<>> /\ phase' = "members")
    <3>1. Abandon("no first member")
      BY <1>5, <2>4 DEF TargetFromFirstMember, first
    <3> QED BY <1>3, <3>1 DEF Outcome
  <2> QED BY <2>3, <2>4
<1> QED BY <1>4, <1>5

LEMMA MembersPreserve == ASSUME IInv, ResolveMember \/ MembersResolved PROVE IInv'
<1>1. /\ InputsOK /\ Anchored /\ AttemptOK /\ phase = "members"
      /\ step \in 1 .. Len(pattern.sameCall) + 1
      /\ pattern.sameCall # <<>> /\ pattern.sameCall \in Seq(Nat)
      /\ Len(pattern.sameCall) \in Nat
  BY PatternFacts DEF IInv, ProgressOK, MembersOK, ResolveMember, MembersResolved, Extending
<1>2. /\ \A i \in 1 .. step - 1 : pattern.sameCall[i] \in DOMAIN fixed
      /\ \A e \in FixedMembers : ProducingCall(fixed[e].fact) = target
  BY <1>1 DEF IInv, MembersOK
<1>3. CASE MembersResolved
  <2>1. /\ phase' = "emit" /\ fixed' = fixed
        /\ UNCHANGED <<pattern, matches, position, candidates, outcomes>>
    BY <1>3 DEF MembersResolved, attempt
  <2>2. /\ InputsOK' /\ Anchored' /\ ProgressOK' /\ HistoryOK' /\ ResultsOK'
        /\ AttemptOK' /\ ResolvedOK' /\ Members' = Members
    BY <1>1, <2>1, BoundMore DEF Extending
  <2>3. Members \subseteq DOMAIN fixed
    <3>1. step > Len(pattern.sameCall)
      BY <1>3 DEF MembersResolved
    <3>2. \A i \in 1 .. Len(pattern.sameCall) : i \in 1 .. step - 1
      BY <1>1, <3>1
    <3> QED BY <1>2, <3>2 DEF Members, Elements
  <2>4. MembersOK'
    BY <1>2, <2>1, <2>2, <2>3 DEF MembersOK, Agreed, FixedMembers
  <2> QED BY <2>1, <2>2, <2>4 DEF IInv, Extending
<1>4. CASE ResolveMember
  <2> DEFINE member == pattern.sameCall[step]
             inTarget == {i \in 1 .. Len(matches[member]) :
                              ProducingCall(matches[member][i].fact) = target}
  <2>1. step \in 1 .. Len(pattern.sameCall)
    <3>1. step <= Len(pattern.sameCall)
      BY <1>4 DEF ResolveMember
    <3> QED BY <1>1, <3>1
  <2>2. member \in Members /\ member \in Clauses /\ member \in 1 .. Len(matches)
    <3>1. member \in Members
      BY <2>1 DEF Members, Elements
    <3> QED BY <1>1, <3>1, AnchoredFacts
  <2>3. CASE member \notin DOMAIN fixed /\ inTarget = {}
    <3>1. Abandon("no same call")
      BY <1>4, <2>3 DEF ResolveMember
    <3>2. OutcomeOK(position, "no same call") /\ phase \in Extending
      BY <1>1 DEF OutcomeOK, Outcome, Extending
    <3> QED BY <3>1, <3>2, AbandonPreserves
  <2>4. CASE member \in DOMAIN fixed \/ inTarget # {}
    <3>1. /\ fixed' = IF member \in DOMAIN fixed THEN fixed
                      ELSE Bind(fixed, member, matches[member][Least(inTarget)])
          /\ step' = step + 1 /\ phase' = "members" /\ target' = target
          /\ UNCHANGED <<pattern, matches, position, candidates, outcomes>>
      BY <1>1, <1>4, <2>4 DEF ResolveMember
    <3>2. ASSUME member \notin DOMAIN fixed
          PROVE  /\ matches[member][Least(inTarget)] \in Elements(matches[member])
                 /\ ProducingCall(matches[member][Least(inTarget)].fact) = target
      <4>1. inTarget \in SUBSET Nat /\ inTarget # {}
        BY <2>4, <3>2
      <4>2. Least(inTarget) \in inTarget
        BY <4>1, LeastIsLeast
      <4> QED BY <4>2 DEF Elements
    <3> HIDE DEF member, inTarget
    <3>3. /\ InputsOK' /\ Anchored' /\ ProgressOK' /\ HistoryOK' /\ ResultsOK'
          /\ AttemptOK' /\ ResolvedOK' /\ Members' = Members
      <4>1. \/ UNCHANGED fixed
            \/ \E c \in Clauses \ DOMAIN fixed : \E b \in Elements(matches[c]) :
                    fixed' = Bind(fixed, c, b)
        BY <2>2, <3>1, <3>2
      <4> QED BY <1>1, <3>1, <4>1, BoundMore DEF Extending
    <3>4. /\ member \in DOMAIN fixed'
          /\ \A e \in DOMAIN fixed : e \in DOMAIN fixed'
          /\ \A e \in Members \intersect DOMAIN fixed' :
                ProducingCall(fixed'[e].fact) = target
      <4>1. CASE member \in DOMAIN fixed
        BY <1>2, <3>1, <4>1 DEF FixedMembers
      <4>2. CASE member \notin DOMAIN fixed
        <5>1. /\ DOMAIN fixed' = DOMAIN fixed \union {member}
              /\ fixed'[member] = matches[member][Least(inTarget)]
              /\ \A e \in DOMAIN fixed : e # member => fixed'[e] = fixed[e]
          BY <3>1, <4>2 DEF Bind
        <5> QED BY <1>2, <3>2, <4>2, <5>1 DEF FixedMembers
      <4> QED BY <4>1, <4>2
    <3>5. \A i \in 1 .. step' - 1 : pattern.sameCall[i] \in DOMAIN fixed'
      <4>1. \A i \in 1 .. step' - 1 : i = step \/ i \in 1 .. step - 1
        BY <2>1, <3>1
      <4> QED BY <1>2, <3>4, <4>1 DEF member
    <3>6. step' \in 1 .. Len(pattern.sameCall) + 1
      BY <1>1, <2>1, <3>1
    <3>7. MembersOK'
      BY <1>1, <3>1, <3>3, <3>4, <3>5, <3>6 DEF MembersOK, FixedMembers
    <3> QED BY <3>1, <3>3, <3>7 DEF IInv, Extending
  <2> QED BY <2>3, <2>4
<1> QED BY <1>3, <1>4

-----------------------------------------------------------------------------
(* The candidate.                                                           *)

LEMMA ChosenIsSound ==
    ASSUME IInv, phase = "emit"
    PROVE  Chosen \in Partial /\ Sound(Chosen)
<1>1. /\ InputsOK /\ Anchored /\ AttemptOK /\ ResolvedOK
      /\ Members \subseteq DOMAIN fixed /\ Agreed(Members)
  BY DEF IInv, ProgressOK, MembersOK, Extending
<1> DEFINE first == Elements(PositiveLeaves(pattern.constraint)) \intersect MatchedClauses
           c == Chosen
<1>2. first \subseteq Clauses /\ Clauses = 1 .. Len(matches) /\ Clauses \subseteq Nat
  BY <1>1, AnchoredFacts
<1>3. /\ DOMAIN c = DOMAIN fixed \union first
      /\ \A e \in DOMAIN fixed : c[e] = fixed[e]
      /\ \A e \in first : e \notin DOMAIN fixed => c[e] = matches[e][1]
      /\ c = [e \in DOMAIN c |-> c[e]]
  BY DEF Chosen
<1>4. first \subseteq DOMAIN c /\ first \subseteq MatchedClauses
  BY <1>3
<1> HIDE DEF c
<1>5. \A e \in DOMAIN c : e \in Clauses /\ c[e] \in Elements(matches[e])
  <2>1. ASSUME NEW e \in DOMAIN fixed PROVE e \in Clauses /\ c[e] \in Elements(matches[e])
    BY <1>1, <1>3 DEF AttemptOK
  <2>2. ASSUME NEW e \in first, e \notin DOMAIN fixed
        PROVE  e \in Clauses /\ c[e] \in Elements(matches[e])
    <3>1. matches[e] # <<>> /\ e \in 1 .. Len(matches)
      BY <1>2, <1>4 DEF MatchedClauses
    <3>2. matches[e] \in Seq(Binding)
      BY <1>1, <3>1, MatchesFacts
    <3>3. 1 \in 1 .. Len(matches[e])
      BY <3>1, <3>2
    <3>4. c[e] = matches[e][1]
      BY <1>3, <2>2
    <3> QED BY <1>2, <3>3, <3>4 DEF Elements
  <2> HIDE DEF first
  <2> QED BY <1>3, <2>1, <2>2
<1>6. c \in Partial
  <2>1. \A e \in DOMAIN c : c[e] \in Binding
    BY <1>1, <1>2, <1>5, MatchesFacts
  <2>2. c \in [DOMAIN c -> Binding] /\ DOMAIN c \in SUBSET Nat
    BY <1>2, <1>3, <1>5, <2>1
  <2> QED BY <2>2 DEF Partial
<1>7. Elements(Sequence) \union Members \subseteq DOMAIN c
  BY <1>1, <1>3 DEF ResolvedOK, StepsOrdered, Elements
<1>8. \A i, j \in 1 .. Len(Sequence) :
            i < j => InOrder(c[Sequence[i]].order, c[Sequence[j]].order)
  BY <1>1, <1>3 DEF ResolvedOK, StepsOrdered, Key
<1>9. \A d, e \in Members : ProducingCall(c[d].fact) = ProducingCall(c[e].fact)
  BY <1>1, <1>3 DEF Agreed
<1>10. Sound(c)
  BY <1>1, <1>4, <1>5, <1>7, <1>8, <1>9 DEF Sound, ResolvedOK
<1> QED BY <1>6, <1>10 DEF c

(* What the steps are bound to is an ordered assignment. *)
LEMMA BoundIsAssignment ==
    ASSUME IInv, phase = "emit", Sequence # <<>>
    PROVE  Assignments(position) # {}
<1> DEFINE f == [i \in 1 .. Len(Sequence) |-> fixed[Sequence[i]]]
           all == UNION {Elements(matches[e]) : e \in Elements(Sequence)}
<1>1. InputsOK /\ Anchored /\ AttemptOK /\ ResolvedOK
  BY DEF IInv, ProgressOK, Extending
<1>2. \A i \in 1 .. Len(Sequence) : f[i] \in Elements(matches[Sequence[i]])
  BY <1>1 DEF ResolvedOK, StepsOrdered, AttemptOK
<1>3. f \in [1 .. Len(Sequence) -> all]
  BY <1>2 DEF Elements
<1>4. f[1] = matches[Anchor][position]
  <2>1. Anchor = Sequence[1] /\ 1 \in 1 .. Len(Sequence)
    BY <1>1, PatternFacts
  <2> QED BY <1>1, <2>1 DEF AttemptOK, AnchorBinding
<1>5. \A i, j \in 1 .. Len(Sequence) : i < j => InOrder(f[i].order, f[j].order)
  BY <1>1 DEF ResolvedOK, StepsOrdered, Key
<1> HIDE DEF f
<1>6. f \in Assignments(position)
  BY <1>2, <1>3, <1>4, <1>5 DEF Assignments
<1> QED BY <1>6

LEMMA EmitPreserves == ASSUME IInv, Emit PROVE IInv'
<1>1. /\ InputsOK /\ Anchored /\ ResultsOK /\ ResolvedOK /\ phase = "emit"
      /\ phase \in Extending
  BY DEF IInv, ProgressOK, Emit, Extending
<1>2. OutcomeOK(position, "emitted")
  <2>1. Holds(pattern.constraint, MatchedClauses)
    BY <1>1 DEF ResolvedOK
  <2>2. Sequence # <<>> => Assignments(position) # {}
    BY <1>1, BoundIsAssignment
  <2> QED BY <2>1, <2>2 DEF OutcomeOK, Outcome
<1>3. /\ candidates' = Append(candidates, Chosen) /\ EndAttempt("emitted")
  BY DEF Emit
<1>4. Chosen \in Partial /\ Sound(Chosen) /\ candidates \in Seq(Partial)
  BY <1>1, ChosenIsSound DEF ResultsOK
<1>5. /\ candidates' \in Seq(Partial) /\ Len(candidates') = Len(candidates) + 1
      /\ candidates'[Len(candidates) + 1] = Chosen
      /\ \A k \in 1 .. Len(candidates) : candidates'[k] = candidates[k]
  BY <1>3, <1>4, AppendFacts
<1>6. \A k \in 1 .. Len(candidates) : Sound(candidates[k])
  BY <1>1 DEF ResultsOK, CandidatesSound, Anchored
<1>7. \A k \in 1 .. Len(candidates') : Sound(candidates'[k])
  <2>1. \A k \in 1 .. Len(candidates') :
            k = Len(candidates) + 1 \/ k \in 1 .. Len(candidates)
    BY <1>4, <1>5
  <2> QED BY <1>4, <1>5, <1>6, <2>1
<1> QED BY <1>1, <1>2, <1>3, <1>5, <1>7, EndsAttempt

LEMMA StutterPreserves == ASSUME IInv, UNCHANGED vars PROVE IInv'
<1>1. /\ UNCHANGED <<pattern, matches, phase, position, fixed, lower, step, target>>
      /\ UNCHANGED <<candidates, outcomes>>
  BY DEF vars
<1>2. /\ Clauses' = Clauses /\ Sequence' = Sequence /\ Members' = Members
      /\ HasAnchor' = HasAnchor /\ Anchor' = Anchor
      /\ MatchedClauses' = MatchedClauses
      /\ InputsOK' = InputsOK /\ Anchored' = Anchored
      /\ Assignments(position)' = Assignments(position)
      /\ \A k, o : OutcomeOK(k, o)' <=> OutcomeOK(k, o)
      /\ \A c : Sound(c)' <=> Sound(c)
  <2>1. \A k : Assignments(k)' = Assignments(k)
    BY <1>1, Kept
  <2> QED BY <1>1, <2>1, Kept
<1>3. /\ ProgressOK' = ProgressOK /\ HistoryOK' = HistoryOK /\ MembersOK' = MembersOK
      /\ ResultsOK' = ResultsOK
  BY <1>1, <1>2
     DEF ProgressOK, HistoryOK, MembersOK, ResultsOK, CandidatesSound, FixedMembers, Agreed
<1>4. /\ AttemptOK' = AttemptOK /\ ScanOK' = ScanOK /\ ResolvedOK' = ResolvedOK
  BY <1>1, <1>2 DEF AttemptOK, AnchorBinding, ScanOK, ResolvedOK, StepsOrdered, Key
<1> QED BY <1>1, <1>2, <1>3, <1>4 DEF IInv

LEMMA IInvInductive == IInv /\ [Next]_vars => IInv'
<1> SUFFICES ASSUME IInv, [Next]_vars PROVE IInv'
  OBVIOUS
<1>1. CASE CheckInBounds \/ Evaluate \/ GlobalCandidate \/ StartAttempts
  BY <1>1, PreparationPreserves
<1>2. CASE StartAttempt \/ FinishAttempts
  BY <1>2, StartPreserves
<1>3. CASE ResolveStep
  BY <1>3, ResolvePreserves
<1>4. CASE SequenceFails
  BY <1>4, FailurePreserves
<1>5. CASE CheckConstraint
  BY <1>5, CheckPreserves
<1>6. CASE TargetFromFixed \/ TargetFromFirstMember
  BY <1>6, TargetPreserves
<1>7. CASE ResolveMember \/ MembersResolved
  BY <1>7, MembersPreserve
<1>8. CASE Emit
  BY <1>8, EmitPreserves
<1>9. CASE Returned \/ UNCHANGED vars
  BY <1>9, StutterPreserves DEF Returned
<1> QED BY <1>1, <1>2, <1>3, <1>4, <1>5, <1>6, <1>7, <1>8, <1>9 DEF Next

(* The invariant of find_candidates: it holds whatever the pattern and the
   facts its clauses select. *)
THEOREM Invariance == Spec => []IInv
BY InitEstablishes, IInvInductive, PTL DEF Spec

(* engine.rs: every candidate binds matches only, all the sequence's steps in
   order, the same_call members to one call, every matched positive leaf, and
   satisfies the constraint. *)
THEOREM Soundness == Spec => []CandidatesSound
<1>1. IInv => CandidatesSound
  BY DEF IInv, ResultsOK
<1> QED BY Invariance, <1>1, PTL

(* sequence.rs: taking the earliest permitted binding loses nothing; where it
   fails, no ordered choice of bindings exists. *)
THEOREM GreedyCompleteness == Spec => []GreedyIsComplete
<1>1. IInv => GreedyIsComplete
  BY DEF IInv, HistoryOK, OutcomeOK, GreedyIsComplete, Tried
<1> QED BY Invariance, <1>1, PTL

(* try_build_candidate, for a pattern without same_call: a candidate for each
   occurrence that can be extended to an ordered binding of the sequence, and
   for no other; the global candidate exactly when the constraint holds. *)
THEOREM Exactness == Spec => []EmitsExactlyTheExtendable
<1>1. IInv => EmitsExactlyTheExtendable
  <2> SUFFICES ASSUME IInv PROVE EmitsExactlyTheExtendable
    OBVIOUS
  <2>1. ASSUME pattern.sameCall = <<>>, NEW k \in Tried
        PROVE  outcomes[k] = "emitted" <=>
                    /\ Sequence # <<>> => Assignments(k) # {}
                    /\ Holds(pattern.constraint, MatchedClauses)
    <3>1. OutcomeOK(k, outcomes[k])
      BY DEF IInv, HistoryOK, Tried
    <3> QED BY <2>1, <3>1 DEF OutcomeOK
  <2>2. ~HasAnchor /\ phase = "done" =>
            Len(candidates) = IF Holds(pattern.constraint, MatchedClauses) THEN 1 ELSE 0
    BY DEF IInv, ResultsOK
  <2> QED BY <2>1, <2>2 DEF EmitsExactlyTheExtendable
<1> QED BY Invariance, <1>1, PTL

-----------------------------------------------------------------------------
(* Each occurrence once: a second invariant, on top of the first.           *)

Emitted == {k \in Tried : outcomes[k] = "emitted"}

OnceOK ==
    /\ Len(candidates) = Cardinality(Emitted)
    /\ \A i \in 1 .. Len(candidates) :
            \E k \in Tried : candidates[i][Anchor] = matches[Anchor][k]
    /\ \A i, j \in 1 .. Len(candidates) :
            i < j => Before(candidates[i][Anchor].fact, candidates[j][Anchor].fact)

Once ==
    /\ phase \in {"attempt", "done"} \union Extending => (HasAnchor => OnceOK)
    /\ phase = "attempt" => Len(outcomes) <= Len(matches[Anchor])
    /\ phase = "done" /\ HasAnchor => Len(outcomes) = Len(matches[Anchor])

(* predicate::evaluate lists a clause's facts in the order of the trace. *)
LEMMA OccurrencesInOrder ==
    ASSUME InputsOK, NEW c \in 1 .. Len(matches),
           NEW i \in 1 .. Len(matches[c]), NEW j \in 1 .. Len(matches[c]), i < j
    PROVE  Before(matches[c][i].fact, matches[c][j].fact)
<1> DEFINE clause == pattern.evidence[c]
           list == matches[c]
<1>1. list \in Evaluations(clause)
  BY DEF InputsOK
<1> HIDE DEF clause
<1>2. CASE clause.kind = "transaction"
  <2>1. list = <<>> \/ list = <<[fact |-> RootFact, order |-> NoOrder]>>
    BY <1>1, <1>2 DEF Evaluations, WholeTransaction
  <2> HIDE DEF list
  <2>2. CASE list = <<>>
    BY <2>2 DEF list
  <2>3. CASE list = <<[fact |-> RootFact, order |-> NoOrder]>>
    BY <2>3 DEF list
  <2> QED BY <2>1, <2>2, <2>3
<1>3. CASE clause.kind # "transaction"
  <2>1. PICK facts \in FactLists :
            list = [k \in DOMAIN facts |-> [fact |-> facts[k], order |-> facts[k].call]]
    BY <1>1, <1>3 DEF Evaluations
  <2>2. PICK n \in 0 .. Cardinality(Facts) : facts \in [1 .. n -> Facts]
    BY DEF FactLists
  <2>3. n \in Nat /\ DOMAIN facts = 1 .. n /\ Len(list) = n
    BY <2>1, <2>2
  <2>4. list[i].fact = facts[i] /\ list[j].fact = facts[j]
    BY <2>1, <2>3
  <2>5. Before(facts[i], facts[j])
    BY <2>3 DEF FactLists
  <2> QED BY <2>4, <2>5
<1> QED BY <1>2, <1>3

(* An attempt that ends without a candidate. *)
LEMMA AbandonOnce ==
    ASSUME IInv, Once, phase \in Extending, NEW outcome \in Outcome, outcome # "emitted",
           Abandon(outcome)
    PROVE  Once'
<1>1. InputsOK /\ Anchored /\ AttemptOK /\ HistoryOK /\ OnceOK
  BY DEF IInv, ProgressOK, Once, Anchored
<1>2. /\ outcomes' = Append(outcomes, outcome) /\ phase' = "attempt"
      /\ UNCHANGED <<pattern, matches, candidates>>
  BY DEF Abandon, EndAttempt
<1>3. Anchor' = Anchor
  BY <1>2, Kept
<1>4. /\ outcomes \in Seq(Outcome) /\ Len(outcomes) \in Nat
      /\ Len(outcomes') = Len(outcomes) + 1
      /\ outcomes'[Len(outcomes) + 1] = outcome
      /\ \A k \in Tried : outcomes'[k] = outcomes[k]
  BY <1>1, <1>2, AppendFacts DEF HistoryOK, Tried
<1>5. Tried' = Tried \union {Len(outcomes) + 1} /\ Tried \subseteq Tried'
  BY <1>4 DEF Tried
<1>6. Emitted' = Emitted
  BY <1>4, <1>5 DEF Emitted
<1>7. OnceOK'
  BY <1>1, <1>2, <1>3, <1>5, <1>6 DEF OnceOK
<1>8. Len(outcomes') <= Len(matches[Anchor])
  BY <1>1, <1>4 DEF AttemptOK, HistoryOK
<1> QED BY <1>2, <1>3, <1>7, <1>8 DEF Once, Extending

(* An attempt that ends with one: the occurrence comes after all the earlier
   candidates'. *)
LEMMA EmitOnce == ASSUME IInv, Once, Emit PROVE Once'
<1>1. /\ InputsOK /\ Anchored /\ AttemptOK /\ HistoryOK /\ OnceOK /\ ResultsOK
      /\ phase = "emit"
  BY DEF IInv, ProgressOK, Once, Anchored, Emit, Extending
<1>2. /\ outcomes' = Append(outcomes, "emitted") /\ phase' = "attempt"
      /\ candidates' = Append(candidates, Chosen)
      /\ UNCHANGED <<pattern, matches>>
  BY DEF Emit, EndAttempt
<1>3. Anchor' = Anchor
  BY <1>2, Kept
<1>4. /\ outcomes \in Seq(Outcome) /\ Len(outcomes) \in Nat
      /\ Len(outcomes') = Len(outcomes) + 1 /\ position = Len(outcomes) + 1
      /\ outcomes'[Len(outcomes) + 1] = "emitted"
      /\ \A k \in Tried : outcomes'[k] = outcomes[k]
  <2>1. "emitted" \in Outcome
    BY DEF Outcome
  <2> QED BY <1>1, <1>2, <2>1, AppendFacts DEF HistoryOK, Tried
<1>5. /\ Tried' = Tried \union {position} /\ position \notin Tried
      /\ \A k \in Tried : k \in Nat /\ k < position
  BY <1>4 DEF Tried
<1>6. Emitted' = Emitted \union {position} /\ position \notin Emitted
  BY <1>4, <1>5 DEF Emitted
<1>7. /\ candidates \in Seq(Partial) /\ Len(candidates) \in Nat
      /\ Len(candidates') = Len(candidates) + 1
      /\ candidates'[Len(candidates) + 1] = Chosen
      /\ \A k \in 1 .. Len(candidates) : candidates'[k] = candidates[k]
  <2>1. Chosen \in Partial /\ candidates \in Seq(Partial)
    BY <1>1, ChosenIsSound DEF ResultsOK
  <2> QED BY <1>2, <2>1, AppendFacts
<1>8. Len(candidates') = Cardinality(Emitted')
  <2>1. IsFiniteSet(Emitted)
    <3>1. IsFiniteSet(1 .. Len(outcomes)) /\ Emitted \subseteq 1 .. Len(outcomes)
      BY <1>4, FS_Interval DEF Emitted, Tried
    <3> QED BY <3>1, FS_Subset
  <2>2. Cardinality(Emitted \union {position}) = Cardinality(Emitted) + 1
    BY <1>6, <2>1, FS_AddElement
  <2> QED BY <1>1, <1>6, <1>7, <2>2 DEF OnceOK
<1>9. Chosen[Anchor] = matches[Anchor][position]
  BY <1>1 DEF AttemptOK, AnchorBinding, Chosen
<1>10. /\ Anchor \in 1 .. Len(matches) /\ Len(matches[Anchor]) \in Nat
       /\ position \in 1 .. Len(matches[Anchor])
  <2>1. Anchor \in 1 .. Len(matches)
    BY <1>1, AnchoredFacts
  <2> QED BY <1>1, <1>4, <2>1, MatchesFacts DEF AttemptOK
<1>11. \A i \in 1 .. Len(candidates') :
            i = Len(candidates) + 1 \/ i \in 1 .. Len(candidates)
  BY <1>7
<1>12. \A i \in 1 .. Len(candidates') :
            \E k \in Tried' : candidates'[i][Anchor] = matches[Anchor][k]
  BY <1>1, <1>5, <1>7, <1>9, <1>11 DEF OnceOK
<1>13. \A i \in 1 .. Len(candidates) : Before(candidates[i][Anchor].fact, Chosen[Anchor].fact)
  <2> SUFFICES ASSUME NEW i \in 1 .. Len(candidates)
               PROVE  Before(candidates[i][Anchor].fact, Chosen[Anchor].fact)
    OBVIOUS
  <2>1. PICK k \in Tried : candidates[i][Anchor] = matches[Anchor][k]
    BY <1>1 DEF OnceOK
  <2>2. k \in 1 .. Len(matches[Anchor]) /\ k < position
    BY <1>5, <1>10 DEF Tried
  <2>3. Before(matches[Anchor][k].fact, matches[Anchor][position].fact)
    BY <1>1, <1>10, <2>2, OccurrencesInOrder
  <2> QED BY <1>9, <2>1, <2>3
<1>14. \A i, j \in 1 .. Len(candidates') :
            i < j => Before(candidates'[i][Anchor].fact, candidates'[j][Anchor].fact)
  <2> SUFFICES ASSUME NEW i \in 1 .. Len(candidates'), NEW j \in 1 .. Len(candidates'), i < j
               PROVE  Before(candidates'[i][Anchor].fact, candidates'[j][Anchor].fact)
    OBVIOUS
  <2>1. i \in 1 .. Len(candidates) /\ candidates'[i] = candidates[i]
    BY <1>7
  <2>2. CASE j = Len(candidates) + 1
    BY <1>7, <1>13, <2>1, <2>2
  <2>3. CASE j \in 1 .. Len(candidates)
    BY <1>1, <1>7, <2>1, <2>3 DEF OnceOK
  <2> QED BY <1>11, <2>2, <2>3
<1>15. OnceOK'
  BY <1>2, <1>3, <1>8, <1>12, <1>14 DEF OnceOK
<1> QED BY <1>2, <1>3, <1>4, <1>10, <1>15 DEF Once, Extending

(* A step that ends no attempt. *)
LEMMA OtherwiseOnce ==
    ASSUME IInv, Once, phase \in {"attempt", "done"} \union Extending,
           \/ phase' = phase \/ phase' \in Extending
           \/ phase' = "done" /\ Len(outcomes) = Len(matches[Anchor]),
           UNCHANGED <<pattern, matches, candidates, outcomes>>
    PROVE  Once'
<1>1. /\ Anchor' = Anchor /\ HasAnchor' = HasAnchor /\ Tried' = Tried /\ Emitted' = Emitted
  BY Kept DEF Tried, Emitted
<1>2. OnceOK' = OnceOK
  BY <1>1 DEF OnceOK
<1> QED BY <1>1, <1>2 DEF Once, Extending

(* Before the first attempt there is nothing to count. *)
LEMMA PreparationOnce ==
    ASSUME IInv, Once, CheckInBounds \/ Evaluate \/ GlobalCandidate \/ StartAttempts
    PROVE  Once'
<1>1. CASE CheckInBounds \/ Evaluate
  <2>1. phase' \in {"evaluate", "failed"}
    BY <1>1 DEF CheckInBounds, Evaluate
  <2> QED BY <2>1 DEF Once, Extending
<1>2. CASE GlobalCandidate
  <2>1. phase' = "done" /\ ~HasAnchor'
    BY <1>2, Kept DEF GlobalCandidate
  <2> QED BY <2>1 DEF Once, Extending
<1>3. CASE StartAttempts
  <2>1. /\ phase' = "attempt" /\ UNCHANGED <<pattern, matches, candidates, outcomes>>
        /\ phase = "evaluate" /\ HasAnchor /\ InputsOK /\ ProgressOK
    BY <1>3 DEF StartAttempts, IInv
  <2>2. candidates = <<>> /\ outcomes = <<>> /\ Anchored
    BY <1>3, <2>1 DEF ProgressOK, Anchored, StartAttempts
  <2>3. Anchor' = Anchor /\ Anchor \in 1 .. Len(matches) /\ Len(matches[Anchor]) \in Nat
    BY <2>1, <2>2, Kept, AnchoredFacts, MatchesFacts
  <2>4. Tried' = {} /\ Emitted' = {} /\ Len(candidates') = 0
    BY <2>1, <2>2 DEF Tried, Emitted
  <2>5. OnceOK'
    BY <2>4, FS_EmptySet DEF OnceOK
  <2> QED BY <2>1, <2>2, <2>3, <2>5 DEF Once, Extending
<1> QED BY <1>1, <1>2, <1>3

LEMMA ExtensionOnce ==
    ASSUME IInv, Once,
           \/ SequenceFails \/ CheckConstraint \/ TargetFromFixed
           \/ TargetFromFirstMember \/ ResolveMember
    PROVE  Once'
<1>1. phase \in Extending
  BY DEF SequenceFails, CheckConstraint, TargetFromFixed, TargetFromFirstMember,
         ResolveMember, Extending
<1>2. \/ \E outcome \in Outcome : outcome # "emitted" /\ Abandon(outcome)
      \/ phase' \in Extending /\ UNCHANGED <<pattern, matches, candidates, outcomes>>
  <2>1. CASE SequenceFails
    BY <2>1 DEF SequenceFails, Outcome
  <2>2. CASE CheckConstraint
    BY <2>2 DEF CheckConstraint, Outcome, Extending
  <2>3. CASE TargetFromFixed
    BY <2>3 DEF TargetFromFixed, Outcome, Extending
  <2>4. CASE TargetFromFirstMember
    BY <2>4 DEF TargetFromFirstMember, Outcome, Extending
  <2>5. CASE ResolveMember
    BY <1>1, <2>5 DEF ResolveMember, Outcome, Extending
  <2> QED BY <2>1, <2>2, <2>3, <2>4, <2>5
<1>3. CASE \E outcome \in Outcome : outcome # "emitted" /\ Abandon(outcome)
  BY <1>1, <1>3, AbandonOnce
<1>4. CASE phase' \in Extending /\ UNCHANGED <<pattern, matches, candidates, outcomes>>
  BY <1>1, <1>4, OtherwiseOnce
<1> QED BY <1>2, <1>3, <1>4

LEMMA OnceInductive == ASSUME IInv, Once, [Next]_vars PROVE Once'
<1>1. CASE CheckInBounds \/ Evaluate \/ GlobalCandidate \/ StartAttempts
  BY <1>1, PreparationOnce
<1>2. CASE StartAttempt \/ ResolveStep \/ MembersResolved
  <2>1. /\ phase \in {"attempt"} \union Extending /\ phase' \in Extending
        /\ UNCHANGED <<pattern, matches, candidates, outcomes>>
    BY <1>2 DEF StartAttempt, ResolveStep, MembersResolved, Extending
  <2> QED BY <2>1, OtherwiseOnce
<1>3. CASE FinishAttempts
  <2>1. /\ phase = "attempt" /\ phase' = "done" /\ position > Len(matches[Anchor])
        /\ UNCHANGED <<pattern, matches, candidates, outcomes>>
    BY <1>3 DEF FinishAttempts
  <2>2. InputsOK /\ Anchored /\ HistoryOK
    BY <2>1 DEF IInv, ProgressOK
  <2>3. Len(matches[Anchor]) \in Nat /\ Len(outcomes) \in Nat /\ position = Len(outcomes) + 1
    BY <2>2, AnchoredFacts, MatchesFacts DEF HistoryOK
  <2>4. Len(outcomes) = Len(matches[Anchor])
    BY <2>1, <2>3 DEF Once
  <2> QED BY <2>1, <2>4, OtherwiseOnce
<1>4. CASE \/ SequenceFails \/ CheckConstraint \/ TargetFromFixed
           \/ TargetFromFirstMember \/ ResolveMember
  BY <1>4, ExtensionOnce
<1>5. CASE Emit
  BY <1>5, EmitOnce
<1>6. CASE Returned \/ UNCHANGED vars
  <2>1. UNCHANGED <<pattern, matches, phase, candidates, outcomes>>
    BY <1>6 DEF Returned, vars
  <2>2. CASE phase \in {"attempt", "done"} \union Extending
    BY <2>1, <2>2, OtherwiseOnce
  <2>3. CASE phase \notin {"attempt", "done"} \union Extending
    BY <2>1, <2>3 DEF Once
  <2> QED BY <2>2, <2>3
<1> QED BY <1>1, <1>2, <1>3, <1>4, <1>5, <1>6 DEF Next

(* engine.rs: each occurrence of the anchor is tried once, and the candidates
   are in the order of the occurrences they were found for. *)
THEOREM OncePerOccurrence == Spec => []EachOccurrenceOnce
<1>1. Init => Once
  BY DEF Init, Once, Extending
<1>2. IInv /\ Once /\ [Next]_vars => Once'
  BY OnceInductive
<1>3. Once => EachOccurrenceOnce
  BY DEF Once, OnceOK, EachOccurrenceOnce, Emitted, Extending
<1> QED BY Invariance, <1>1, <1>2, <1>3, PTL DEF Spec

(* The patterns the matcher hands candidates of to the grounding engine. *)
LegalPatterns == {p \in PatternSet : References(p) \subseteq 1 .. Len(p.evidence)}

GP == INSTANCE GroundingProofs
        WITH PatternSet <- LegalPatterns, phase <- groundPhase, StrayFacts <- {}

-----------------------------------------------------------------------------
(* The grounding engine of the model (G) is the one the proofs are about (GP),
   and what both take from module Patterns and Traces is what the matcher
   takes from them. *)

LEMMA SameLeaves ==
    ASSUME NEW tree, NEW sign
    PROVE  /\ G!LeavesOfSign(tree, sign) = LeavesOfSign(tree, sign)
           /\ GP!LeavesOfSign(tree, sign) = LeavesOfSign(tree, sign)
BY DEF G!LeavesOfSign, GP!LeavesOfSign, LeavesOfSign, G!FlattenSeq, GP!FlattenSeq, FlattenSeq

LEMMA SameHelpers ==
    /\ G!Clauses = Clauses /\ GP!Clauses = Clauses
    /\ \A s : G!Elements(s) = Elements(s) /\ GP!Elements(s) = Elements(s)
    /\ \A t : G!PositiveLeaves(t) = PositiveLeaves(t) /\ GP!PositiveLeaves(t) = PositiveLeaves(t)
    /\ \A t : G!NegativeLeaves(t) = NegativeLeaves(t) /\ GP!NegativeLeaves(t) = NegativeLeaves(t)
    /\ \A f : G!OrderKey(f) = OrderKey(f) /\ GP!OrderKey(f) = OrderKey(f)
    /\ \A f : G!ProducingCall(f) = ProducingCall(f) /\ GP!ProducingCall(f) = ProducingCall(f)
    /\ \A S : G!Least(S) = Least(S) /\ GP!Least(S) = Least(S)
BY SameLeaves
   DEF G!Clauses, GP!Clauses, Clauses, G!Elements, GP!Elements, Elements,
       G!PositiveLeaves, GP!PositiveLeaves, PositiveLeaves,
       G!NegativeLeaves, GP!NegativeLeaves, NegativeLeaves,
       G!OrderKey, GP!OrderKey, OrderKey, G!ProducingCall, GP!ProducingCall, ProducingCall,
       G!Least, GP!Least, Least

LEMMA SameReferences == ASSUME NEW p PROVE GP!References(p) = References(p)
BY SameHelpers DEF GP!References, References

LEMMA SamePattern == GP!Pattern = Pattern /\ GP!Binding = Binding
BY DEF GP!Pattern, Pattern, GP!Clause, Clause, GP!Node, Node, GP!Binding, Binding, GP!Order, Order

(* What module Grounding assumes holds of the patterns and the traces here. *)
LEMMA GroundingAssumptions ==
    /\ LegalPatterns \subseteq GP!Pattern
    /\ \A p \in LegalPatterns : GP!References(p) \subseteq 1 .. Len(p.evidence)
    /\ \A p \in LegalPatterns : \A c \in 1 .. Len(p.evidence) : p.evidence[c].kind \in Kinds
    /\ {} \intersect (Facts \union {RootFact}) = {}
    /\ NoFact \notin Facts \union {RootFact} \union {}
BY SameReferences, SamePattern, PatternAssumption, KindAssumption, NoFactAssumption
   DEF LegalPatterns

LEMMA SameClauses ==
    /\ GP!Positive = G!Positive /\ GP!Negative = G!Negative /\ GP!Required = G!Required
    /\ \A c : GP!FactsOf(c) = G!FactsOf(c)
    /\ \A c : GP!Present(c) <=> G!Present(c)
    /\ \A c : GP!Undecidable(c) <=> G!Undecidable(c)
    /\ GP!Dangling = G!Dangling
BY SameHelpers
   DEF G!Positive, GP!Positive, G!Negative, GP!Negative, G!Required, GP!Required, G!FactsOf,
       GP!FactsOf, G!Present, GP!Present, G!Undecidable, GP!Undecidable, G!Dangling,
       GP!Dangling, G!Resolves, GP!Resolves

LEMMA SameVerification == \A c : GP!Verification(c) = G!Verification(c)
BY SameClauses DEF G!Verification, GP!Verification, G!Found, GP!Found

LEMMA SameMeaning ==
    /\ \A c : GP!Shown(c) <=> G!Shown(c)
    /\ \A c : GP!Undecided(c) <=> G!Undecided(c)
    /\ \A c : GP!Contradicted(c) <=> G!Contradicted(c)
    /\ \A c : GP!Witness(c) = G!Witness(c)
BY SameClauses
   DEF G!Shown, GP!Shown, G!Undecided, GP!Undecided, G!Contradicted, GP!Contradicted,
       G!Witness, GP!Witness, G!Checked, GP!Checked

LEMMA SameGroups ==
    ASSUME NEW group
    PROVE  /\ GP!GroupOutcome(group, GP!KeysInOrder(group))
                = G!GroupOutcome(group, G!KeysInOrder(group))
           /\ GP!GroupOutcome(group, GP!CallsAgree(group))
                = G!GroupOutcome(group, G!CallsAgree(group))
<1>1. \A c : /\ GP!Confirmed(c) <=> G!Confirmed(c)
            /\ GP!KeyOf(c) = G!KeyOf(c) /\ GP!CallOf(c) = G!CallOf(c)
  BY SameHelpers DEF G!Confirmed, GP!Confirmed, G!KeyOf, GP!KeyOf, G!CallOf, GP!CallOf
<1>2. GP!KeysInOrder(group) <=> G!KeysInOrder(group)
  BY <1>1 DEF G!KeysInOrder, GP!KeysInOrder
<1>3. GP!CallsAgree(group) <=> G!CallsAgree(group)
  BY <1>1 DEF G!CallsAgree, GP!CallsAgree
<1>4. ASSUME NEW agree, NEW same, agree <=> same
      PROVE  GP!GroupOutcome(group, agree) = G!GroupOutcome(group, same)
  <2> DEFINE open == {i \in 1 .. Len(group) : ~G!Confirmed(group[i])}
             first == chain[group[Least(open)]]
  <2>1. {i \in 1 .. Len(group) : ~GP!Confirmed(group[i])} = open
    BY <1>1
  <2>2. G!GroupOutcome(group, same) =
            IF open = {} THEN IF same THEN "verified" ELSE "failed"
            ELSE IF first.outcome = "verified" THEN "unsupported" ELSE first.outcome
    BY SameHelpers DEF G!GroupOutcome
  <2>3. GP!GroupOutcome(group, agree) =
            IF open = {} THEN IF agree THEN "verified" ELSE "failed"
            ELSE IF first.outcome = "verified" THEN "unsupported" ELSE first.outcome
    BY <2>1, SameHelpers DEF GP!GroupOutcome
  <2> QED BY <1>4, <2>2, <2>3
<1> QED BY <1>2, <1>3, <1>4

LEMMA SameResult ==
    /\ GP!Confidence = G!Confidence
    /\ GP!Status = G!Status
    /\ GP!Reasons = G!Reasons
<1>1. GP!Weighed = G!Weighed /\ GP!GroupOutcomes = G!GroupOutcomes
  BY SameClauses DEF G!Weighed, GP!Weighed, G!GroupOutcomes, GP!GroupOutcomes
<1>2. GP!Confidence = G!Confidence
  BY SameHelpers, SameClauses
     DEF G!Confidence, GP!Confidence, G!VerifiedAmong, GP!VerifiedAmong,
         G!Cardinality, GP!Cardinality
<1>3. GP!Status = G!Status
  BY <1>1 DEF G!Status, GP!Status, G!Uncertain, GP!Uncertain, G!Absent, GP!Absent
<1>4. GP!Reasons = G!Reasons
  BY <1>1, SameClauses
     DEF G!Reasons, GP!Reasons, G!Category, GP!Category, G!Absent, GP!Absent
<1> QED BY <1>2, <1>3, <1>4

LEMMA SameActions ==
    /\ G!CheckIdentity => GP!CheckIdentity
    /\ G!CheckBindings => GP!CheckBindings
    /\ G!AnalyzePolarity => GP!AnalyzePolarity
    /\ G!VerifyClause => GP!VerifyClause
    /\ G!NoVerifiers => GP!NoVerifiers
    /\ G!VerifySequence => GP!VerifySequence
    /\ G!VerifySameCall => GP!VerifySameCall
    /\ G!Aggregate => GP!Aggregate
    /\ G!Returned => GP!Returned
<1>1. G!CheckIdentity => GP!CheckIdentity
  BY DEF G!CheckIdentity, GP!CheckIdentity, G!Fail, GP!Fail, G!NoResult, GP!NoResult,
         G!inputs, GP!inputs
<1>2. G!CheckBindings => GP!CheckBindings
  BY SameClauses
     DEF G!CheckBindings, GP!CheckBindings, G!Fail, GP!Fail, G!NoResult, GP!NoResult,
         G!inputs, GP!inputs
<1>3. G!AnalyzePolarity => GP!AnalyzePolarity
  BY SameClauses
     DEF G!AnalyzePolarity, GP!AnalyzePolarity, G!Fail, GP!Fail, G!NoResult, GP!NoResult,
         G!inputs, GP!inputs
<1>4. G!VerifyClause => GP!VerifyClause
  BY SameVerification
     DEF G!VerifyClause, GP!VerifyClause, G!Verifying, GP!Verifying, G!NextClause,
         GP!NextClause, G!NextKind, GP!NextKind, G!Found, GP!Found, G!inputs, GP!inputs
<1>5. G!NoVerifiers => GP!NoVerifiers
  BY DEF G!NoVerifiers, GP!NoVerifiers, G!Verifying, GP!Verifying, G!Fail, GP!Fail,
         G!NoResult, GP!NoResult, G!inputs, GP!inputs
<1>6. G!VerifySequence => GP!VerifySequence
  BY SameGroups
     DEF G!VerifySequence, GP!VerifySequence, G!Absent, GP!Absent, G!inputs, GP!inputs
<1>7. G!VerifySameCall => GP!VerifySameCall
  BY SameGroups
     DEF G!VerifySameCall, GP!VerifySameCall, G!Absent, GP!Absent, G!inputs, GP!inputs
<1>8. G!Aggregate => GP!Aggregate
  BY SameResult
     DEF G!Aggregate, GP!Aggregate, G!inputs, GP!inputs
<1>9. G!Returned => GP!Returned
  BY DEF G!Returned, GP!Returned, G!vars, GP!vars
<1> QED BY <1>1, <1>2, <1>3, <1>4, <1>5, <1>6, <1>7, <1>8, <1>9

(* A step of the model's grounding engine is one the proofs are about. *)
LEMMA GroundingSteps == G!Next => GP!Next
BY SameActions DEF G!Next, GP!Next

-----------------------------------------------------------------------------
(* The inductive invariant.                                                *)

(* global_candidate binds nothing. *)
Unanchored == ~HasAnchor => \A k \in 1 .. Len(candidates) : candidates[k] = <<>>

(* The candidate under way has been handed over by the matcher. *)
HandedOver ==
    /\ phase = "done"
    /\ current \in 1 .. Len(candidates)
    /\ cited = FactFor(candidates[current])
    /\ GP!IInv

PipelineInv ==
    /\ IInv /\ Once
    /\ Unanchored
    /\ phase = "failed" => ~ References(pattern) \subseteq Clauses
    /\ registered = Kinds /\ ownPattern = TRUE
    /\ current \in Nat \ {0}
    /\ stage = "matching" => groundPhase = "idle"
    /\ stage \in {"grounding", "reported"} => phase = "done"
    /\ groundPhase # "idle" => HandedOver
    /\ groundPhase = "error" => G!Positive \intersect G!Negative # {}
    /\ AbortsOnlyOverThePattern

-----------------------------------------------------------------------------
(* What is handed over.                                                    *)

(* A binding cites a match of its clause, and has the order of that fact
   unless the clause spans the transaction. *)
LEMMA BindingFacts ==
    ASSUME InputsOK, NEW c \in 1 .. Len(matches), NEW b \in Elements(matches[c])
    PROVE  /\ b.fact \in G!FactsOf(c)
           /\ b.fact \in Facts \union {RootFact} /\ b.fact.call \in Nat
           /\ matches[c] # <<>>
           /\ IF SpansTheTransaction(c) THEN b.fact = RootFact
              ELSE b.order = b.fact.call
<1>1. PICK i \in 1 .. Len(matches[c]) : b = matches[c][i]
  BY DEF Elements
<1>2. matches[c] \in Evaluations(pattern.evidence[c]) /\ b \in Binding
  BY MatchesFacts DEF InputsOK
<1>3. matches[c] # <<>>
  BY <1>1
<1>4. b.fact \in Facts \union {RootFact} /\ b.fact.call \in Nat
  BY <1>2, FactAssumption DEF Binding
<1>5. b.fact \in G!FactsOf(c)
  BY <1>1 DEF G!FactsOf
<1>6. ASSUME SpansTheTransaction(c) PROVE b.fact = RootFact
  <2> DEFINE whole == [fact |-> RootFact, order |-> NoOrder]
  <2>1. matches[c] = <<>> \/ matches[c] = <<whole>>
    BY <1>2, <1>6 DEF Evaluations, WholeTransaction, SpansTheTransaction
  <2>2. whole.fact = RootFact
    OBVIOUS
  <2> HIDE DEF whole
  <2>3. matches[c] = <<whole>> => Len(matches[c]) = 1 /\ matches[c][1] = whole
    OBVIOUS
  <2>4. b = whole
    BY <1>1, <1>3, <2>1, <2>3
  <2> QED BY <2>2, <2>4
<1>7. ASSUME ~SpansTheTransaction(c) PROVE b.order = b.fact.call
  <2>1. PICK facts \in FactLists :
            matches[c] = [k \in DOMAIN facts |-> [fact |-> facts[k], order |-> facts[k].call]]
    BY <1>2, <1>7 DEF Evaluations, SpansTheTransaction
  <2>2. PICK n \in 0 .. Cardinality(Facts) : facts \in [1 .. n -> Facts]
    BY DEF FactLists
  <2>3. n \in Nat /\ DOMAIN facts = 1 .. n /\ Len(matches[c]) = n
    BY <2>1, <2>2
  <2> QED BY <1>1, <2>1, <2>3
<1> QED BY <1>3, <1>4, <1>5, <1>6, <1>7

(* What a candidate of the matcher binds, once the matcher has returned. *)
LEMMA CandidateFacts ==
    ASSUME IInv, Once, Unanchored, phase = "done", NEW k \in 1 .. Len(candidates)
    PROVE  /\ \A c \in DOMAIN candidates[k] : candidates[k][c] \in Elements(matches[c])
           /\ HasAnchor => Sound(candidates[k]) /\ Anchor \in DOMAIN candidates[k]
           /\ Holds(pattern.constraint, MatchedClauses)
           /\ Clauses = 1 .. Len(matches)
           /\ Elements(Sequence) \union Members \subseteq Clauses
           /\ Elements(Sequence) # {} => HasAnchor
<1>1. /\ InputsOK /\ References(pattern) \subseteq Clauses
      /\ Len(matches) = Len(pattern.evidence) /\ Clauses = 1 .. Len(matches)
  BY DEF IInv, ProgressOK, Clauses
<1>2. Elements(Sequence) \union Members \subseteq Clauses
  BY <1>1 DEF References, Sequence, Members
<1>3. Elements(Sequence) # {} => HasAnchor
  BY DEF Elements, HasAnchor, AnchorCandidates, Sequence
<1>4. CASE HasAnchor
  <2>1. Sound(candidates[k]) /\ Anchored /\ OnceOK /\ Len(outcomes) = Len(matches[Anchor])
    BY <1>1, <1>4 DEF IInv, ResultsOK, CandidatesSound, Anchored, Once
  <2>2. Anchor \in DOMAIN candidates[k]
    <3>1. CASE Sequence # <<>>
      <4>1. Anchor = Sequence[1] /\ 1 \in 1 .. Len(Sequence)
        BY <1>1, <3>1, PatternFacts
      <4> QED BY <2>1, <4>1 DEF Sound, Elements
    <3>2. CASE Sequence = <<>>
      <4>1. PICK j \in Tried : candidates[k][Anchor] = matches[Anchor][j]
        BY <2>1 DEF OnceOK
      <4>2. Anchor \in MatchedClauses
        <5>1. Anchor \in Clauses
          BY <1>1, <2>1, AnchoredFacts
        <5>2. matches[Anchor] # <<>>
          BY <2>1, <4>1 DEF Tried
        <5> QED BY <5>1, <5>2 DEF MatchedClauses
      <4>3. Anchor \in Elements(PositiveLeaves(pattern.constraint))
        <5>1. /\ PositiveLeaves(pattern.constraint) \in Seq(Nat)
              /\ PositiveLeaves(pattern.constraint) # <<>>
              /\ Anchor = PositiveLeaves(pattern.constraint)[1]
          BY <1>1, <1>4, <3>2, PatternFacts DEF Anchor, HasAnchor, AnchorCandidates, Sequence
        <5> HIDE DEF Anchor
        <5> QED BY <5>1 DEF Elements
      <4> QED BY <2>1, <4>2, <4>3 DEF Sound
    <3> QED BY <3>1, <3>2
  <2> QED BY <1>1, <1>2, <1>3, <2>1, <2>2 DEF Sound
<1>5. CASE ~HasAnchor
  <2>1. candidates[k] = <<>> /\ DOMAIN candidates[k] = {}
    BY <1>5 DEF Unanchored
  <2>2. Holds(pattern.constraint, MatchedClauses)
    BY <1>5 DEF IInv, ResultsOK
  <2> QED BY <1>1, <1>2, <1>3, <1>5, <2>1, <2>2
<1> QED BY <1>4, <1>5

(* What the candidate under way cites: a match of its clause or nothing; in a
   pattern with an anchor, what the matcher has bound the anchor, the steps and
   the members to. *)
LEMMA CitedFacts ==
    ASSUME IInv, Once, Unanchored, HandedOver
    PROVE  /\ \A c \in Clauses : /\ cited[c] \in G!FactsOf(c) \union {NoFact}
                                 /\ NoFact \notin G!FactsOf(c)
           /\ HasAnchor => \A c \in Elements(Sequence) \union Members \union {Anchor} :
                /\ c \in Clauses /\ matches[c] # <<>>
                /\ candidates[current][c] \in Elements(matches[c])
                /\ cited[c] = candidates[current][c].fact
                /\ cited[c] # NoFact /\ G!Witness(c) = cited[c]
<1> DEFINE candidate == candidates[current]
<1>1. /\ InputsOK /\ phase = "done" /\ current \in 1 .. Len(candidates)
      /\ cited = FactFor(candidate)
  BY DEF IInv, HandedOver
<1>2. /\ \A c \in DOMAIN candidate : candidate[c] \in Elements(matches[c])
      /\ HasAnchor => Sound(candidate) /\ Anchor \in DOMAIN candidate
      /\ Clauses = 1 .. Len(matches)
      /\ Elements(Sequence) \union Members \subseteq Clauses
  BY <1>1, CandidateFacts
<1> HIDE DEF candidate
<1>3. ASSUME NEW c \in Clauses
      PROVE  /\ G!FactsOf(c) \subseteq Facts \union {RootFact}
             /\ NoFact \notin G!FactsOf(c)
             /\ cited[c] = IF c \in DOMAIN candidate THEN candidate[c].fact ELSE NoFact
             /\ cited[c] \in G!FactsOf(c) \union {NoFact}
  <2>1. G!FactsOf(c) \subseteq Facts \union {RootFact}
    <3>1. \A i \in 1 .. Len(matches[c]) : matches[c][i] \in Elements(matches[c])
      BY <1>1, <1>2, MatchesFacts
    <3>2. \A i \in 1 .. Len(matches[c]) : matches[c][i].fact \in Facts \union {RootFact}
      BY <1>1, <1>2, <3>1, BindingFacts
    <3> QED BY <3>2 DEF G!FactsOf
  <2>2. cited[c] = IF c \in DOMAIN candidate THEN candidate[c].fact ELSE NoFact
    BY <1>1 DEF FactFor
  <2>3. c \in DOMAIN candidate => candidate[c].fact \in G!FactsOf(c)
    BY <1>1, <1>2, BindingFacts
  <2> QED BY <2>1, <2>2, <2>3, NoFactAssumption
<1>4. ASSUME HasAnchor, NEW c \in Elements(Sequence) \union Members \union {Anchor}
      PROVE  /\ c \in Clauses /\ matches[c] # <<>>
             /\ candidate[c] \in Elements(matches[c])
             /\ cited[c] = candidate[c].fact
             /\ cited[c] # NoFact /\ G!Witness(c) = cited[c]
  <2>1. Anchored
    BY <1>1, <1>4 DEF Anchored, IInv, ProgressOK
  <2>2. c \in Clauses /\ c \in DOMAIN candidate
    BY <1>1, <1>2, <1>4, <2>1, AnchoredFacts DEF Sound
  <2>3. /\ candidate[c] \in Elements(matches[c]) /\ matches[c] # <<>>
        /\ candidate[c].fact \in G!FactsOf(c)
    BY <1>1, <1>2, <2>2, BindingFacts
  <2>4. cited[c] = candidate[c].fact /\ cited[c] # NoFact
    BY <1>3, <2>2, <2>3
  <2> QED BY <2>2, <2>3, <2>4 DEF G!Witness
<1> QED BY <1>3, <1>4 DEF candidate

-----------------------------------------------------------------------------
(* What the statuses mean.                                                 *)

(* What a grounded result shows of its witnesses holds of the cited facts. *)
LEMMA TheGroundedCandidate ==
    ASSUME PipelineInv, Grounded("grounded")
    PROVE  GroundedIsAnOccurrence
<1>1. /\ IInv /\ Once /\ Unanchored /\ HandedOver /\ GP!IInv
      /\ groundPhase = "done" /\ result.status = "grounded"
  BY DEF PipelineInv, Unanchored, Grounded, HandedOver
<1>2. GP!GroundedIsShown
  BY <1>1, GP!GroundedMeaning, GroundingAssumptions, FactAssumption, NoOrderAssumption
<1>3. /\ \A c \in G!Required : G!Shown(c)
      /\ \A c \in Elements(Sequence) \union Members : G!Shown(c)
      /\ \A i, j \in 1 .. Len(Sequence) : i < j =>
            OrderKey(G!Witness(Sequence[i])) <= OrderKey(G!Witness(Sequence[j]))
      /\ \A c, d \in Members : ProducingCall(G!Witness(c)) = ProducingCall(G!Witness(d))
  BY <1>1, <1>2, SameClauses, SameMeaning, SameHelpers
     DEF GP!GroundedIsShown, GP!Done, GP!Citing, Sequence, Members
<1>4. \A c \in Clauses : cited[c] \in G!FactsOf(c) \union {NoFact}
  BY <1>1, CitedFacts
<1>5. HasAnchor => cited[Anchor] # NoFact
  BY <1>1, CitedFacts
<1>6. \A i, j \in 1 .. Len(Sequence) : i < j =>
            OrderKey(cited[Sequence[i]]) <= OrderKey(cited[Sequence[j]])
  <2>1. \A i \in 1 .. Len(Sequence) : Sequence[i] \in Elements(Sequence) /\ HasAnchor
    BY DEF Elements, HasAnchor, AnchorCandidates, Sequence
  <2>2. \A i \in 1 .. Len(Sequence) : G!Witness(Sequence[i]) = cited[Sequence[i]]
    BY <1>1, <2>1, CitedFacts
  <2> QED BY <1>3, <2>2
<1>7. Holds(pattern.constraint, MatchedClauses)
  BY <1>1, CandidateFacts DEF HandedOver
<1> QED BY <1>3, <1>4, <1>5, <1>6, <1>7 DEF GroundedIsAnOccurrence, Weighty, Grouped

(* Of the contradictions grounding can find, the matcher's candidate leaves a
   clause under NOT, a transaction among the steps and an ignored same_call. *)
LEMMA TheUngroundedCandidate ==
    ASSUME PipelineInv, Grounded("ungrounded")
    PROVE  UngroundedOnlyOverAbsence
<1>1. /\ IInv /\ Once /\ Unanchored /\ HandedOver /\ GP!IInv /\ InputsOK
      /\ groundPhase = "done" /\ result.status = "ungrounded"
  BY DEF PipelineInv, Unanchored, Grounded, HandedOver, IInv
<1>2. GP!UngroundedIsContradicted
  BY <1>1, GP!UngroundedMeaning, GroundingAssumptions, FactAssumption, NoOrderAssumption
<1>3. \/ \E c \in Weighty : G!Contradicted(c)
      \/ \E i, j \in 1 .. Len(Sequence) : i < j /\
            OrderKey(G!Witness(Sequence[i])) > OrderKey(G!Witness(Sequence[j]))
      \/ \E c, d \in Members : ProducingCall(G!Witness(c)) # ProducingCall(G!Witness(d))
  BY <1>1, <1>2, SameClauses, SameMeaning, SameHelpers
     DEF GP!UngroundedIsContradicted, GP!Done, Sequence, Members, Weighty, Grouped
<1>4. Weighty \subseteq Clauses /\ Clauses = 1 .. Len(matches)
  BY <1>1, CandidateFacts, SameHelpers DEF Weighty, Grouped, G!Required, HandedOver
<1>5. ASSUME NEW c \in Weighty, G!Contradicted(c)
      PROVE  c \in G!Negative /\ matches[c] # <<>>
  <2>1. cited[c] \in G!FactsOf(c) \union {NoFact}
    BY <1>1, <1>4, CitedFacts
  <2> QED BY <1>5, <2>1 DEF G!Contradicted, G!Shown, G!Undecided, G!Present, G!Undecidable
<1>6. ASSUME NEW i \in 1 .. Len(Sequence), NEW j \in 1 .. Len(Sequence), i < j,
             OrderKey(G!Witness(Sequence[i])) > OrderKey(G!Witness(Sequence[j]))
      PROVE  /\ SpansTheTransaction(Sequence[j])
             /\ OrderKey(cited[Sequence[i]]) > OrderKey(RootFact)
  <2> DEFINE first == candidates[current][Sequence[i]]
             second == candidates[current][Sequence[j]]
  <2>1. Sequence[i] \in Elements(Sequence) /\ Sequence[j] \in Elements(Sequence) /\ HasAnchor
    BY <1>6 DEF Elements, HasAnchor, AnchorCandidates, Sequence
  <2>2. /\ Sequence[i] \in 1 .. Len(matches) /\ Sequence[j] \in 1 .. Len(matches)
        /\ first \in Elements(matches[Sequence[i]]) /\ second \in Elements(matches[Sequence[j]])
        /\ cited[Sequence[i]] = first.fact /\ G!Witness(Sequence[i]) = first.fact
        /\ cited[Sequence[j]] = second.fact /\ G!Witness(Sequence[j]) = second.fact
    BY <1>1, <1>4, <2>1, CitedFacts
  <2>3. InOrder(first.order, second.order)
    BY <1>1, <1>6, <2>1, CandidateFacts DEF Sound, HandedOver
  <2> HIDE DEF first, second
  <2>4. /\ first.fact.call \in Nat /\ second.fact.call \in Nat
        /\ IF SpansTheTransaction(Sequence[i]) THEN first.fact = RootFact
           ELSE first.order = first.fact.call
        /\ IF SpansTheTransaction(Sequence[j]) THEN second.fact = RootFact
           ELSE second.order = second.fact.call
    BY <1>1, <2>2, BindingFacts
  <2>5. first.fact.call > second.fact.call
    BY <1>6, <2>2 DEF OrderKey
  <2>6. ~SpansTheTransaction(Sequence[i])
    BY <2>4, <2>5, RootAssumption
  <2>7. SpansTheTransaction(Sequence[j])
    BY <2>3, <2>4, <2>5, <2>6, NoOrderAssumption DEF InOrder
  <2> QED BY <2>2, <2>4, <2>5, <2>7 DEF OrderKey
<1>7. ASSUME NEW c \in Members, NEW d \in Members,
             ProducingCall(G!Witness(c)) # ProducingCall(G!Witness(d))
      PROVE  ~HasAnchor
  <2> SUFFICES ASSUME HasAnchor PROVE FALSE
    OBVIOUS
  <2>1. /\ G!Witness(c) = candidates[current][c].fact
        /\ G!Witness(d) = candidates[current][d].fact
    BY <1>1, CitedFacts
  <2>2. Sound(candidates[current])
    BY <1>1, CandidateFacts DEF HandedOver
  <2> QED BY <1>7, <2>1, <2>2 DEF Sound
<1> QED BY <1>3, <1>5, <1>6, <1>7 DEF UngroundedOnlyOverAbsence

(* A step or member of an anchored candidate has a match, so that only its
   being undecidable raises a doubt. *)
LEMMA TheAbstention ==
    ASSUME PipelineInv, Grounded("abstain")
    PROVE  AbstainsOnlyInDoubt
<1>1. /\ IInv /\ Once /\ Unanchored /\ HandedOver /\ GP!IInv
      /\ groundPhase = "done" /\ result.status = "abstain" /\ GP!Done
  BY DEF PipelineInv, Unanchored, Grounded, HandedOver, GP!Done
<1>2. \/ \E c \in GP!Required : GP!Undecided(c)
      \/ \E c \in GP!Elements(pattern.sequence) \union GP!Elements(pattern.sameCall) :
            GP!Doubtful(c)
  BY <1>1, GP!AbstentionMeaning, GroundingAssumptions, FactAssumption, NoOrderAssumption
<1>3. \/ \E c \in Weighty : G!Undecided(c)
      \/ \E c \in Elements(Sequence) \union Members : c \in G!Negative /\ matches[c] = <<>>
  BY <1>2, SameClauses, SameMeaning, SameHelpers
     DEF GP!Doubtful, Sequence, Members, Weighty, Grouped
<1>4. ASSUME NEW c \in Elements(Sequence) \union Members, matches[c] = <<>>
      PROVE  ~HasAnchor /\ c \in Members
  <2>1. ~HasAnchor
    BY <1>1, <1>4, CitedFacts
  <2> QED BY <2>1, <1>4 DEF Elements, HasAnchor, AnchorCandidates, Sequence
<1> QED BY <1>3, <1>4 DEF AbstainsOnlyInDoubt

-----------------------------------------------------------------------------
(* The steps.                                                              *)

LEMMA PipelineInitEstablishes == PipelineInit => PipelineInv
<1> SUFFICES ASSUME PipelineInit PROVE PipelineInv
  OBVIOUS
<1>1. IInv /\ Once
  BY InitEstablishes DEF PipelineInit, Init, Once, Extending
<1> QED BY <1>1 DEF PipelineInit, Init, PipelineInv, Unanchored, AbortsOnlyOverThePattern

(* What the matcher has established stays, whoever moves after it. *)
LEMMA MatcherStays ==
    ASSUME PipelineInv, UNCHANGED vars, UNCHANGED <<registered, ownPattern>>
    PROVE  /\ IInv' /\ Once' /\ Unanchored'
           /\ (phase = "failed" => ~ References(pattern) \subseteq Clauses)'
           /\ (registered = Kinds /\ ownPattern = TRUE)'
           /\ phase' = phase /\ candidates' = candidates /\ matches' = matches
           /\ pattern' = pattern /\ Clauses' = Clauses
           /\ G!Positive' = G!Positive /\ G!Negative' = G!Negative
<1>1. IInv' /\ Once'
  BY IInvInductive, OnceInductive DEF PipelineInv
<1> QED BY <1>1, Kept DEF PipelineInv, Unanchored, vars, G!Positive, G!Negative, Clauses

(* Only global_candidate emits without an anchor, only check_in_bounds fails. *)
LEMMA MatchStepPreserves == ASSUME PipelineInv, MatchStep PROVE PipelineInv'
<1>1. /\ [Next]_vars /\ IInv /\ Once /\ Unanchored
      /\ stage = "matching" /\ groundPhase = "idle"
      /\ UNCHANGED <<stage, current, groundPhase, registered, ownPattern>>
  BY DEF PipelineInv, MatchStep, groundVars, Unanchored
<1>2. IInv' /\ Once'
  BY <1>1, IInvInductive, OnceInductive
<1>3. Unanchored'
  <2> SUFFICES ASSUME ~HasAnchor' PROVE (\A k \in 1 .. Len(candidates) : candidates[k] = <<>>)'
    BY DEF Unanchored
  <2>1. UNCHANGED pattern
    BY DEF MatchStep, Next, CheckInBounds, Evaluate, GlobalCandidate, StartAttempts, StartAttempt,
           FinishAttempts, ResolveStep, SequenceFails, CheckConstraint, TargetFromFixed,
           TargetFromFirstMember, ResolveMember, MembersResolved, Emit, Returned, vars,
           Abandon, EndAttempt
  <2>2. ~HasAnchor
    BY <2>1 DEF HasAnchor, AnchorCandidates
  <2>3. phase \notin {"attempt"} \union Extending
    BY <1>1, <2>2 DEF IInv, ProgressOK, Anchored
  <2>4. CASE GlobalCandidate
    <3>1. candidates' = <<<<>>>> \/ candidates' = <<>>
      BY <2>4 DEF GlobalCandidate
    <3> QED BY <3>1
  <2>5. CASE UNCHANGED candidates
    BY <1>1, <2>2, <2>5 DEF Unanchored
  <2> QED BY <2>3, <2>4, <2>5
       DEF MatchStep, Next, CheckInBounds, Evaluate, StartAttempts, StartAttempt,
           FinishAttempts, ResolveStep, SequenceFails, CheckConstraint, TargetFromFixed,
           TargetFromFirstMember, ResolveMember, MembersResolved, Emit, Returned, vars, Extending
<1>4. (phase = "failed" => ~ References(pattern) \subseteq Clauses)'
  <2>1. CASE CheckInBounds
    BY <2>1 DEF CheckInBounds, Clauses
  <2>2. CASE ~CheckInBounds
    <3>1. phase' # "failed"
      BY <1>1, <2>2
         DEF MatchStep, Next, CheckInBounds, Evaluate, GlobalCandidate, StartAttempts,
           StartAttempt, FinishAttempts, ResolveStep, SequenceFails, CheckConstraint,
           TargetFromFixed, TargetFromFirstMember, ResolveMember, MembersResolved, Emit,
           Returned, vars, Abandon, EndAttempt
    <3> QED BY <3>1
  <2> QED BY <2>1, <2>2
<1> QED BY <1>1, <1>2, <1>3, <1>4 DEF PipelineInv, Unanchored, AbortsOnlyOverThePattern

(* The hand-over starts grounding on facts that resolve. *)
LEMMA TakeCandidatePreserves == ASSUME PipelineInv, TakeCandidate PROVE PipelineInv'
<1> USE DEF TakeCandidate
<1>1. /\ UNCHANGED vars /\ UNCHANGED <<registered, ownPattern, stage, current>>
      /\ stage = "grounding" /\ phase = "done" /\ IInv /\ Once /\ Unanchored
      /\ current \in 1 .. Len(candidates) /\ References(pattern) \subseteq Clauses
      /\ Len(matches) = Len(pattern.evidence) /\ matches \in Seq(Seq(Binding))
      /\ pattern \in PatternSet
  BY DEF PipelineInv, IInv, InputsOK, ProgressOK, Unanchored, ResultsOK
<1>2. cited' = FactFor(candidates[current]) /\ HandedOver'
  <2>1. cited' = FactFor(candidates[current])
    OBVIOUS
  <2>2. FactFor(candidates[current]) \in [Clauses -> GP!Citable]
    <3> SUFFICES ASSUME NEW c \in Clauses, c \in DOMAIN candidates[current]
                 PROVE  candidates[current][c].fact \in Facts \union {RootFact}
      BY DEF FactFor, GP!Citable
    <3>1. /\ candidates[current][c] \in Elements(matches[c]) /\ c \in 1 .. Len(matches)
          /\ InputsOK
      BY <1>1, CandidateFacts DEF IInv
    <3> QED BY <3>1, BindingFacts
  <2>3. pattern \in LegalPatterns
    BY <1>1 DEF LegalPatterns, Clauses
  <2>4. matches \in [GP!Clauses -> Seq(GP!Binding)]
    BY <1>1, SameHelpers, SamePattern DEF Clauses
  <2>5. GP!InputsOK'
    BY <1>1, <2>1, <2>2, <2>3, <2>4, SameHelpers
       DEF GP!InputsOK, vars, GP!Citable, GP!Clauses, Clauses, PipelineInv
  <2>6. GP!ChainOK'
    BY <1>1, PatternFacts DEF IInv, GP!ChainOK, vars
  <2>7. GP!IInv'
    BY <2>5, <2>6 DEF GP!IInv, GP!GroupsOK, GP!ResultOK, GP!Pending, G!Absent, GP!Absent,
        G!NoResult, GP!NoResult
  <2> QED BY <1>1, <2>1, <2>7, MatcherStays DEF HandedOver, FactFor, vars, Clauses
<1> QED BY <1>1, <1>2, MatcherStays DEF PipelineInv, AbortsOnlyOverThePattern, Unanchored

(* Of the four ways ground can fail only the pattern's own polarity is left. *)
LEMMA GroundStepPreserves == ASSUME PipelineInv, GroundStep PROVE PipelineInv'
<1> USE DEF GroundStep
<1>1. /\ UNCHANGED vars /\ UNCHANGED <<stage, current>> /\ stage = "grounding"
      /\ IInv /\ Once /\ Unanchored /\ HandedOver /\ GP!IInv /\ phase = "done"
      /\ registered = Kinds /\ ownPattern = TRUE
      /\ groundPhase \notin {"idle", "error", "done"}
  BY DEF PipelineInv, Unanchored, HandedOver
<1>2. UNCHANGED <<registered, ownPattern, cited>>
  BY DEF G!Next, G!CheckIdentity, G!CheckBindings, G!AnalyzePolarity, G!VerifyClause,
      G!NoVerifiers, G!VerifySequence, G!VerifySameCall, G!Aggregate, G!Returned, G!inputs, G!vars
<1>3. GP!IInv'
  BY <1>1, GroundingSteps, GP!IInvInductive, GroundingAssumptions, FactAssumption,
     NoOrderAssumption
<1>4. groundPhase' # "idle"
  BY DEF G!Next, G!CheckIdentity, G!CheckBindings, G!AnalyzePolarity, G!VerifyClause,
      G!NoVerifiers, G!VerifySequence, G!VerifySameCall, G!Aggregate, G!Returned, G!Fail,
      G!inputs, G!vars, G!Verifying
<1>5. HandedOver'
  BY <1>1, <1>2, <1>3 DEF HandedOver, FactFor, vars, Clauses
<1>6. G!Dangling = {}
  <2>1. \A c \in Clauses : cited[c] = NoFact \/ cited[c] \in Facts \union {RootFact}
    <3> SUFFICES ASSUME NEW c \in Clauses, c \in DOMAIN candidates[current]
                 PROVE  candidates[current][c].fact \in Facts \union {RootFact}
      BY <1>1 DEF HandedOver, FactFor
    <3>1. /\ candidates[current][c] \in Elements(matches[c]) /\ c \in 1 .. Len(matches)
          /\ InputsOK
      BY <1>1, CandidateFacts DEF IInv, HandedOver
    <3> QED BY <3>1, BindingFacts
  <2> QED BY <2>1, SameHelpers DEF G!Dangling, G!Resolves
<1>7. ~G!NoVerifiers
  <2> SUFFICES ASSUME G!Verifying, Kinds = {} PROVE FALSE
    BY <1>1 DEF G!NoVerifiers
  <2>1. /\ pattern \in PatternSet /\ Len(pattern.evidence) \in Nat
        /\ Len(pattern.evidence) > 0
    BY <1>1, PatternFacts DEF IInv, InputsOK, G!Verifying, GP!IInv, GP!ChainOK
  <2> QED BY <2>1, KindAssumption
<1>8. groundPhase' = "error" => G!Positive \intersect G!Negative # {}
  BY <1>1, <1>6, <1>7
  DEF G!Next, G!CheckIdentity, G!CheckBindings, G!AnalyzePolarity, G!VerifyClause,
      G!NoVerifiers, G!VerifySequence, G!VerifySameCall, G!Aggregate, G!Returned, G!vars
<1> QED BY <1>1, <1>2, <1>4, <1>5, <1>8, MatcherStays
    DEF PipelineInv, AbortsOnlyOverThePattern, Unanchored

(* The steps between the matcher and grounding, and between candidates. *)
LEMMA OtherStepsPreserve ==
    ASSUME PipelineInv,
           \/ MatchingReturns \/ Collect \/ GroundingFails \/ Report \/ UNCHANGED allVars
    PROVE  PipelineInv'
<1>1. UNCHANGED vars /\ UNCHANGED <<registered, ownPattern>>
  BY DEF MatchingReturns, Collect, GroundingFails, Report, allVars, groundVars
<1>2. CASE Collect
  BY <1>1, <1>2, MatcherStays DEF Collect, PipelineInv, AbortsOnlyOverThePattern, Unanchored
<1>3. CASE MatchingReturns \/ Report
  <2>1. groundPhase' = "idle"
    BY <1>3 DEF MatchingReturns, Report, PipelineInv, groundVars
  <2>2. stage' = "aborted" => ~ (References(pattern) \subseteq Clauses)'
    BY <1>1, <1>3, MatcherStays DEF MatchingReturns, Report, PipelineInv
  <2> QED BY <1>1, <1>3, <2>1, <2>2, MatcherStays
      DEF MatchingReturns, Report, PipelineInv, AbortsOnlyOverThePattern, Unanchored
<1>4. CASE GroundingFails \/ UNCHANGED allVars
  <2>1. UNCHANGED <<current, groundVars>>
    BY <1>4 DEF GroundingFails, allVars
  <2>2. HandedOver => HandedOver'
    <3>1. GP!IInv => GP!IInv'
      <4>1. UNCHANGED GP!vars
        BY <1>1, <2>1 DEF GP!vars, vars, groundVars
      <4> QED BY <4>1, GP!IInvInductive, GroundingAssumptions, FactAssumption, NoOrderAssumption
    <3> QED BY <1>1, <2>1, <3>1 DEF HandedOver, vars, groundVars, FactFor, Clauses
  <2>3. AbortsOnlyOverThePattern'
    BY <1>1, <1>4, MatcherStays DEF GroundingFails, allVars, PipelineInv, AbortsOnlyOverThePattern
  <2> QED BY <1>1, <1>4, <2>1, <2>2, <2>3, MatcherStays
      DEF GroundingFails, allVars, PipelineInv, Unanchored, groundVars
<1> QED BY <1>2, <1>3, <1>4

-----------------------------------------------------------------------------
(* The theorems.                                                           *)

(* Through the whole analysis of a pattern: the matcher's invariants, a
   candidate handed over as the matcher built it, and the grounding engine's
   invariant while it is checked. *)
THEOREM PipelineInvariance == PipelineSpec => []PipelineInv
<1>1. PipelineInv /\ [PipelineNext]_allVars => PipelineInv'
  BY MatchStepPreserves, TakeCandidatePreserves, GroundStepPreserves, OtherStepsPreserve
     DEF PipelineNext, AnalysisReturned
<1> QED BY PipelineInitEstablishes, <1>1, PTL DEF PipelineSpec

(* What ground_all reports as grounded is an occurrence of the pattern:
   constraint met, every weighed clause shown, every citation a match, the
   steps in order and the members of one call. *)
THEOREM GroundedOccurrences == PipelineSpec => []GroundedIsAnOccurrence
<1>1. PipelineInv => GroundedIsAnOccurrence
  BY TheGroundedCandidate DEF GroundedIsAnOccurrence
<1> QED BY <1>1, PipelineInvariance, PTL

(* Grounding contradicts the matcher only where the matcher does not look: a
   clause under NOT, a transaction among the steps, same_call without an
   anchor. *)
THEOREM UngroundedCandidates == PipelineSpec => []UngroundedOnlyOverAbsence
<1>1. PipelineInv => UngroundedOnlyOverAbsence
  BY TheUngroundedCandidate DEF UngroundedOnlyOverAbsence
<1> QED BY <1>1, PipelineInvariance, PTL

(* Grounding abstains from a candidate only over a clause the trace cannot
   decide, or over an absent member of an unanchored pattern's same_call. *)
THEOREM Abstentions == PipelineSpec => []AbstainsOnlyInDoubt
<1>1. PipelineInv => AbstainsOnlyInDoubt
  BY TheAbstention DEF AbstainsOnlyInDoubt
<1> QED BY <1>1, PipelineInvariance, PTL

(* analyze.rs: an analysis ends in an error only over a pattern that is itself
   refused, never over a candidate the matcher built. *)
THEOREM Aborts == PipelineSpec => []AbortsOnlyOverThePattern
<1>1. PipelineInv => AbortsOnlyOverThePattern
  BY DEF PipelineInv
<1> QED BY <1>1, PipelineInvariance, PTL
=============================================================================
