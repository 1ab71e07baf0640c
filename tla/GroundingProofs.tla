-------------------------- MODULE GroundingProofs ---------------------------
(***************************************************************************)
(* What grounding concludes, for every trace, pattern, registry and        *)
(* candidate.  The inductive invariant says that each entry of the chain   *)
(* is the verification of its clause and that the outcomes and the status  *)
(* computed from the chain are what they were computed to be; the          *)
(* properties then follow from what the outcome of a clause and of a group *)
(* means about the trace.                                                  *)
(***************************************************************************)
EXTENDS Grounding, SequenceProofs, FiniteSetTheorems, TLAPS

(* Least picks an element, and a least one. *)
LEMMA LeastIsLeast ==
    ASSUME NEW S \in SUBSET Nat, S # {}
    PROVE  Least(S) \in S /\ \A j \in S : Least(S) <= j
BY MinExists DEF Least

(* Whatever a clause's predicate selects is a list of bindings. *)
LEMMA EvaluationsAreBindings ==
    ASSUME NEW clause, NEW list \in Evaluations(clause)
    PROVE  list \in Seq(Binding)
<1>1. CASE clause.kind = "transaction"
  <2>1. [fact |-> RootFact, order |-> NoOrder] \in Binding
    BY DEF Binding, Order
  <2>2. \A b \in Binding : <<b>> \in Seq(Binding)
    OBVIOUS
  <2>3. list = <<>> \/ list = <<[fact |-> RootFact, order |-> NoOrder]>>
    BY <1>1 DEF Evaluations, WholeTransaction
  <2>4. <<>> \in Seq(Binding)
    OBVIOUS
  <2> QED BY <2>1, <2>2, <2>3, <2>4
<1>2. CASE clause.kind # "transaction"
  <2>1. PICK facts \in FactLists :
            list = [i \in DOMAIN facts |-> [fact |-> facts[i], order |-> facts[i].call]]
    BY <1>2 DEF Evaluations
  <2>2. PICK n \in 0 .. Cardinality(Facts) : facts \in [1 .. n -> Facts]
    BY DEF FactLists
  <2>3. n \in Nat
    BY <2>2
  <2>4. \A i \in 1 .. n : [fact |-> facts[i], order |-> facts[i].call] \in Binding
    BY <2>2, FactAssumption DEF Binding, Order
  <2>5. list \in [1 .. n -> Binding]
    BY <2>1, <2>2, <2>4
  <2> QED BY <2>3, <2>5
<1> QED BY <1>1, <1>2

-----------------------------------------------------------------------------
(* What one entry of the chain means.                                      *)

(* The entry VerifyClause appends for a clause. *)
Entry(c) ==
    IF pattern.evidence[c].kind \in registered THEN Verification(c)
    ELSE Found("unsupported", NoFact)

InputsOK ==
    /\ pattern \in PatternSet
    /\ matches \in [Clauses -> Seq(Binding)]
    /\ registered \subseteq Kinds
    /\ ownPattern \in BOOLEAN
    /\ cited \in [Clauses -> Citable]

LEMMA PatternFacts ==
    ASSUME pattern \in PatternSet
    PROVE  /\ pattern.evidence \in Seq(Clause)
           /\ Len(pattern.evidence) \in Nat
           /\ pattern.sequence \in Seq(Nat) /\ pattern.sameCall \in Seq(Nat)
           /\ Elements(pattern.sequence) \subseteq Clauses
           /\ Elements(pattern.sameCall) \subseteq Clauses
<1>1. pattern \in Pattern /\ References(pattern) \subseteq Clauses
  BY PatternAssumption DEF Clauses
<1> QED BY <1>1 DEF Pattern, References

(* A match list that is not empty has a first match, and its fact is one. *)
LEMMA FirstMatch ==
    ASSUME InputsOK, NEW c \in Clauses, matches[c] # <<>>
    PROVE  /\ matches[c][1].fact \in FactsOf(c)
           /\ matches[c][1].fact \in Facts \union {RootFact}
<1>1. matches[c] \in Seq(Binding) /\ 1 \in 1 .. Len(matches[c])
  BY DEF InputsOK
<1>2. matches[c][1] \in Binding
  BY <1>1
<1> QED BY <1>1, <1>2 DEF FactsOf, Binding

(* The facts of a clause are facts of the trace. *)
LEMMA FactsOfTrace ==
    ASSUME InputsOK, NEW c \in Clauses
    PROVE  FactsOf(c) \subseteq Facts \union {RootFact}
<1>1. matches[c] \in Seq(Binding)
  BY DEF InputsOK
<1>2. \A i \in 1 .. Len(matches[c]) : matches[c][i] \in Binding
  BY <1>1
<1> QED BY <1>2 DEF FactsOf, Binding

(* An entry is verified exactly when the trace shows the clause, uncertain
   exactly when the trace cannot decide it, failed in the remaining case; a
   verified entry cites the clause's witness, or no fact for an absence. *)
LEMMA EntryMeaning ==
    ASSUME InputsOK, NEW c \in Clauses
    PROVE  /\ Entry(c) \in [outcome : Outcomes, fact : Citable]
           /\ Entry(c).outcome = "verified" <=> Shown(c)
           /\ Entry(c).outcome \in Uncertain <=> Undecided(c)
           /\ Entry(c).outcome = "failed" <=> Contradicted(c)
           /\ Citing(c) => /\ Entry(c).fact = Witness(c)
                           /\ Witness(c) \in Facts \union {RootFact}
           /\ Shown(c) /\ ~Citing(c) => Entry(c).fact = NoFact
<1> DEFINE kind == pattern.evidence[c].kind
<1>1. CASE ~Checked(c)
  BY <1>1 DEF Entry, Found, Checked, Shown, Undecided, Contradicted, Citing, Uncertain,
              Outcomes, Citable
<1>2. CASE Checked(c) /\ matches[c] = <<>> /\ c \in Negative
  <2>1. Entry(c) = Found("verified", NoFact)
    BY <1>2 DEF Entry, Verification, Checked, Present, Undecidable
  <2> QED BY <1>2, <2>1 DEF Found, Shown, Undecided, Undecidable, Contradicted, Citing,
                            Uncertain, Outcomes, Citable
<1>3. CASE Checked(c) /\ matches[c] = <<>> /\ c \notin Negative
  <2>1. Entry(c) = Found("unavailable", NoFact)
    BY <1>3 DEF Entry, Verification, Checked, Present, Undecidable
  <2>2. ~Shown(c) /\ Undecided(c)
    BY <1>3 DEF Shown, Present, Undecided, Undecidable
  <2> QED BY <2>1, <2>2 DEF Found, Contradicted, Citing, Uncertain, Outcomes, Citable
<1>4. CASE Checked(c) /\ Undecidable(c)
  <2>1. Entry(c) = Found("unsupported", NoFact)
    BY <1>4 DEF Entry, Verification, Checked, Undecidable, Present
  <2>2. ~Shown(c) /\ Undecided(c)
    BY <1>4 DEF Shown, Present, Undecided, Undecidable
  <2> QED BY <2>1, <2>2 DEF Found, Contradicted, Citing, Uncertain, Outcomes, Citable
<1>5. CASE Checked(c) /\ Present(c) /\ c \in Negative
  <2>1. Entry(c) = Found("failed", matches[c][1].fact)
    BY <1>5 DEF Entry, Verification, Checked, Undecidable, Present
  <2>2. matches[c][1].fact \in Citable
    BY <1>5, FirstMatch DEF Present, Citable
  <2> QED BY <1>5, <2>1, <2>2 DEF Found, Shown, Present, Undecidable, Undecided,
                                  Contradicted, Citing, Uncertain, Outcomes
<1>6. CASE Checked(c) /\ Present(c) /\ c \notin Negative
  <2>1. matches[c] # <<>> /\ ~Undecidable(c) /\ ~Undecided(c)
    BY <1>6 DEF Present, Undecidable, Undecided
  <2>2. /\ matches[c][1].fact \in FactsOf(c)
        /\ matches[c][1].fact \in Facts \union {RootFact}
    BY <2>1, FirstMatch
  <2>3. NoFact \notin FactsOf(c) /\ FactsOf(c) \subseteq Facts \union {RootFact}
    BY FactsOfTrace, NoFactAssumption
  <2>4. CASE cited[c] = NoFact
    <3>1. Entry(c) = Found("verified", matches[c][1].fact)
      BY <1>6, <2>1, <2>3, <2>4 DEF Entry, Verification, Checked
    <3> QED BY <1>6, <2>1, <2>2, <2>4, <3>1
            DEF Found, Shown, Contradicted, Citing, Witness, Uncertain, Outcomes, Citable
  <2>5. CASE cited[c] \in FactsOf(c)
    <3>1. Entry(c) = Found("verified", cited[c])
      BY <1>6, <2>1, <2>3, <2>5 DEF Entry, Verification, Checked
    <3> QED BY <1>6, <2>1, <2>3, <2>5, <3>1
            DEF Found, Shown, Contradicted, Citing, Witness, Uncertain, Outcomes, Citable
  <2>6. CASE cited[c] \notin FactsOf(c) \union {NoFact}
    <3>1. Entry(c) = Found("failed", cited[c])
      BY <1>6, <2>1, <2>6 DEF Entry, Verification, Checked
    <3>2. cited[c] \in Citable
      BY DEF InputsOK
    <3> QED BY <1>6, <2>1, <2>6, <3>1, <3>2
            DEF Found, Shown, Contradicted, Citing, Uncertain, Outcomes
  <2> QED BY <2>4, <2>5, <2>6
<1> QED BY <1>1, <1>2, <1>3, <1>4, <1>5, <1>6 DEF Present, Undecidable

-----------------------------------------------------------------------------
(* What the outcomes computed from a whole chain mean.                     *)

Links == [outcome : Outcomes, fact : Citable]

WholeChain ==
    /\ chain \in Seq(Links)
    /\ Len(chain) = Len(pattern.evidence)
    /\ \A c \in Clauses : chain[c] = Entry(c)

(* A clause is confirmed exactly when the trace shows a fact for it, and the
   chain then cites its witness. *)
LEMMA ConfirmedMeaning ==
    ASSUME InputsOK, WholeChain, NEW c \in Clauses
    PROVE  /\ Confirmed(c) <=> Citing(c)
           /\ Citing(c) => /\ chain[c].fact = Witness(c)
                           /\ KeyOf(c) = OrderKey(Witness(c)) /\ KeyOf(c) \in Nat
                           /\ CallOf(c) = ProducingCall(Witness(c))
<1>1. chain[c] = Entry(c)
  BY DEF WholeChain
<1>2. Citing(c) => Shown(c)
  BY DEF Citing
<1>3. Confirmed(c) <=> Citing(c)
  BY <1>1, <1>2, EntryMeaning, NoFactAssumption DEF Confirmed
<1>4. ASSUME Citing(c) PROVE chain[c].fact = Witness(c) /\ Witness(c).call \in Nat
  BY <1>1, <1>4, EntryMeaning, FactAssumption
<1> QED BY <1>3, <1>4 DEF KeyOf, CallOf, OrderKey, ProducingCall

(* What makes a group's outcome uncertain: a clause the trace cannot decide, or
   one whose absence it shows, which has no place in an order or a call. *)
Doubtful(c) == Undecided(c) \/ (c \in Negative /\ matches[c] = <<>>)

(* A group of clauses is verified when the trace shows a fact for each and the
   facts agree, and fails over a contradicted clause or facts that disagree. *)
LEMMA GroupMeaning ==
    ASSUME InputsOK, WholeChain,
           NEW group \in Seq(Nat), Elements(group) \subseteq Clauses, NEW agree \in BOOLEAN
    PROVE  /\ GroupOutcome(group, agree) \in Outcomes
           /\ GroupOutcome(group, agree) = "verified" =>
                agree /\ \A c \in Elements(group) : Citing(c)
           /\ GroupOutcome(group, agree) = "failed" =>
                \/ ~agree /\ \A c \in Elements(group) : Citing(c)
                \/ \E c \in Elements(group) : Contradicted(c)
           /\ GroupOutcome(group, agree) \in Uncertain =>
                \E c \in Elements(group) : Doubtful(c)
<1> DEFINE open == {i \in 1 .. Len(group) : ~Confirmed(group[i])}
           first == group[Least(open)]
<1>1. \A i \in 1 .. Len(group) : group[i] \in Clauses /\ group[i] \in Elements(group)
  BY DEF Elements
<1>2. CASE open = {}
  <2>1. \A c \in Elements(group) : Citing(c)
    BY <1>1, <1>2, ConfirmedMeaning DEF Elements
  <2>2. GroupOutcome(group, agree) = IF agree THEN "verified" ELSE "failed"
    BY <1>2 DEF GroupOutcome
  <2> QED BY <2>1, <2>2 DEF Outcomes, Uncertain
<1>3. CASE open # {}
  <2>1. Least(open) \in open
    <3>1. open \in SUBSET Nat
      OBVIOUS
    <3> HIDE DEF open
    <3> QED BY <1>3, <3>1, LeastIsLeast
  <2>2. /\ first \in Clauses /\ first \in Elements(group)
        /\ chain[first] = Entry(first) /\ ~Confirmed(first)
    BY <1>1, <2>1 DEF WholeChain
  <2>3. GroupOutcome(group, agree) = IF chain[first].outcome = "verified"
                                     THEN "unsupported" ELSE chain[first].outcome
    BY <1>3 DEF GroupOutcome
  <2> HIDE DEF first
  <2>4. /\ chain[first].outcome \in Outcomes
        /\ chain[first].outcome = "failed" => Contradicted(first)
        /\ chain[first].outcome \in Uncertain => Undecided(first)
        /\ chain[first].outcome = "verified" => Shown(first)
    BY <2>2, EntryMeaning
  <2>5. chain[first].outcome = "verified" => Doubtful(first)
    BY <2>2, <2>4, ConfirmedMeaning DEF Citing, Shown, Doubtful
  <2> QED BY <2>2, <2>3, <2>4, <2>5 DEF Outcomes, Uncertain, Doubtful
<1> QED BY <1>2, <1>3

SequenceFound ==
    IF pattern.sequence = <<>> THEN Absent
    ELSE GroupOutcome(pattern.sequence, KeysInOrder(pattern.sequence))

SameCallFound ==
    IF pattern.sameCall = <<>> THEN Absent
    ELSE GroupOutcome(pattern.sameCall, CallsAgree(pattern.sameCall))

StepsInOrder ==
    \A i, j \in 1 .. Len(pattern.sequence) : i < j =>
        OrderKey(Witness(pattern.sequence[i])) <= OrderKey(Witness(pattern.sequence[j]))

MembersShareCall ==
    \A c, d \in Elements(pattern.sameCall) :
        ProducingCall(Witness(c)) = ProducingCall(Witness(d))

(* verify_sequence compares neighbours only; that is enough. *)
LEMMA SequenceMeaning ==
    ASSUME InputsOK, WholeChain
    PROVE  /\ SequenceFound \in Outcomes \union {Absent}
           /\ SequenceFound \in {"verified", Absent} =>
                StepsInOrder /\ \A c \in Elements(pattern.sequence) : Citing(c)
           /\ SequenceFound = "failed" =>
                \/ \E c \in Elements(pattern.sequence) : Contradicted(c)
                \/ \E i, j \in 1 .. Len(pattern.sequence) : i < j /\
                        OrderKey(Witness(pattern.sequence[i]))
                            > OrderKey(Witness(pattern.sequence[j]))
           /\ SequenceFound \in Uncertain =>
                \E c \in Elements(pattern.sequence) : Doubtful(c)
<1> DEFINE steps == pattern.sequence
           key == [i \in 1 .. Len(steps) |-> OrderKey(Witness(steps[i]))]
<1>1. /\ steps \in Seq(Nat) /\ Elements(steps) \subseteq Clauses
      /\ \A i \in 1 .. Len(steps) : steps[i] \in Elements(steps)
  BY PatternFacts DEF InputsOK, Elements
<1>2. CASE steps = <<>>
  BY <1>2 DEF SequenceFound, StepsInOrder, Elements, Absent, Uncertain
<1>3. CASE steps # <<>>
  <2>1. SequenceFound = GroupOutcome(steps, KeysInOrder(steps))
    BY <1>3 DEF SequenceFound
  <2>2. KeysInOrder(steps) \in BOOLEAN
    BY DEF KeysInOrder
  <2>3. ASSUME \A c \in Elements(steps) : Citing(c)
        PROVE  \A i \in 1 .. Len(steps) : /\ Confirmed(steps[i])
                                          /\ KeyOf(steps[i]) = key[i] /\ key[i] \in Nat
    BY <1>1, <2>3, ConfirmedMeaning
  <2>4. ASSUME KeysInOrder(steps), \A c \in Elements(steps) : Citing(c)
        PROVE  StepsInOrder
    <3>1. \A i \in 1 .. Len(steps) - 1 : key[i] <= key[i + 1]
      <4> SUFFICES ASSUME NEW i \in 1 .. Len(steps) - 1 PROVE key[i] <= key[i + 1]
        OBVIOUS
      <4>1. i \in 1 .. Len(steps) /\ i + 1 \in 1 .. Len(steps)
        BY <1>1
      <4>2. Confirmed(steps[i]) /\ Confirmed(steps[i + 1])
        BY <2>3, <2>4, <4>1
      <4>3. KeyOf(steps[i]) <= KeyOf(steps[i + 1])
        BY <2>4, <4>2 DEF KeysInOrder
      <4> QED BY <2>3, <2>4, <4>1, <4>3
    <3>2. \A i \in 1 .. Len(steps) : key[i] \in Nat
      BY <2>3, <2>4
    <3>3. Len(steps) \in Nat
      BY <1>1
    <3>4. \A i, j \in 1 .. Len(steps) : i < j => key[i] <= key[j]
      <4> HIDE DEF key
      <4> QED BY <3>1, <3>2, <3>3, Monotone
    <3> QED BY <3>4 DEF StepsInOrder
  <2>5. ASSUME ~KeysInOrder(steps), \A c \in Elements(steps) : Citing(c)
        PROVE  \E i, j \in 1 .. Len(steps) : i < j /\
                    OrderKey(Witness(steps[i])) > OrderKey(Witness(steps[j]))
    <3>1. PICK i \in 1 .. Len(steps) - 1 : ~(KeyOf(steps[i]) <= KeyOf(steps[i + 1]))
      BY <2>5 DEF KeysInOrder
    <3>2. i \in 1 .. Len(steps) /\ i + 1 \in 1 .. Len(steps) /\ i < i + 1
      BY <1>1
    <3>3. /\ KeyOf(steps[i]) = key[i] /\ key[i] \in Nat
          /\ KeyOf(steps[i + 1]) = key[i + 1] /\ key[i + 1] \in Nat
      BY <2>3, <2>5, <3>2
    <3>4. key[i] > key[i + 1]
      <4> HIDE DEF key
      <4> QED BY <3>1, <3>3
    <3> QED BY <3>2, <3>4
  <2> HIDE DEF steps
  <2>6. /\ SequenceFound \in Outcomes
        /\ SequenceFound = "verified" =>
                KeysInOrder(steps) /\ \A c \in Elements(steps) : Citing(c)
        /\ SequenceFound = "failed" =>
                \/ ~KeysInOrder(steps) /\ \A c \in Elements(steps) : Citing(c)
                \/ \E c \in Elements(steps) : Contradicted(c)
        /\ SequenceFound \in Uncertain => \E c \in Elements(steps) : Doubtful(c)
    BY <1>1, <2>1, <2>2, GroupMeaning
  <2>7. Absent \notin Outcomes
    BY DEF Absent, Outcomes
  <2> USE DEF steps
  <2> QED BY <2>4, <2>5, <2>6, <2>7
<1> QED BY <1>2, <1>3

(* verify_same_call compares neighbours only; that is enough. *)
LEMMA SameCallMeaning ==
    ASSUME InputsOK, WholeChain
    PROVE  /\ SameCallFound \in Outcomes \union {Absent}
           /\ SameCallFound \in {"verified", Absent} =>
                MembersShareCall /\ \A c \in Elements(pattern.sameCall) : Citing(c)
           /\ SameCallFound = "failed" =>
                \/ \E c \in Elements(pattern.sameCall) : Contradicted(c)
                \/ \E c, d \in Elements(pattern.sameCall) :
                        ProducingCall(Witness(c)) # ProducingCall(Witness(d))
           /\ SameCallFound \in Uncertain =>
                \E c \in Elements(pattern.sameCall) : Doubtful(c)
<1> DEFINE members == pattern.sameCall
           call == [i \in 1 .. Len(members) |-> ProducingCall(Witness(members[i]))]
<1>1. /\ members \in Seq(Nat) /\ Elements(members) \subseteq Clauses
      /\ \A i \in 1 .. Len(members) : members[i] \in Elements(members)
  BY PatternFacts DEF InputsOK, Elements
<1>2. CASE members = <<>>
  BY <1>2 DEF SameCallFound, MembersShareCall, Elements, Absent, Uncertain
<1>3. CASE members # <<>>
  <2>1. SameCallFound = GroupOutcome(members, CallsAgree(members))
    BY <1>3 DEF SameCallFound
  <2>2. CallsAgree(members) \in BOOLEAN
    BY DEF CallsAgree
  <2>3. ASSUME \A c \in Elements(members) : Citing(c)
        PROVE  \A i \in 1 .. Len(members) : /\ Confirmed(members[i])
                                            /\ CallOf(members[i]) = call[i]
    BY <1>1, <2>3, ConfirmedMeaning
  <2>4. ASSUME CallsAgree(members), \A c \in Elements(members) : Citing(c)
        PROVE  MembersShareCall
    <3>1. \A i \in 1 .. Len(members) - 1 : call[i] = call[i + 1]
      <4> SUFFICES ASSUME NEW i \in 1 .. Len(members) - 1 PROVE call[i] = call[i + 1]
        OBVIOUS
      <4>1. i \in 1 .. Len(members) /\ i + 1 \in 1 .. Len(members)
        BY <1>1
      <4>2. Confirmed(members[i]) /\ Confirmed(members[i + 1])
        BY <2>3, <2>4, <4>1
      <4>3. CallOf(members[i]) = CallOf(members[i + 1])
        BY <2>4, <4>2 DEF CallsAgree
      <4> QED BY <2>3, <2>4, <4>1, <4>3
    <3>2. Len(members) \in Nat
      BY <1>1
    <3>3. \A i, j \in 1 .. Len(members) : call[i] = call[j]
      <4> HIDE DEF call
      <4> QED BY <3>1, <3>2, Constant
    <3> QED BY <3>3 DEF MembersShareCall, Elements
  <2>5. ASSUME ~CallsAgree(members), \A c \in Elements(members) : Citing(c)
        PROVE  \E c, d \in Elements(members) :
                    ProducingCall(Witness(c)) # ProducingCall(Witness(d))
    <3>1. PICK i \in 1 .. Len(members) - 1 : CallOf(members[i]) # CallOf(members[i + 1])
      BY <2>5 DEF CallsAgree
    <3>2. i \in 1 .. Len(members) /\ i + 1 \in 1 .. Len(members)
      BY <1>1
    <3>3. call[i] # call[i + 1]
      BY <2>3, <2>5, <3>1, <3>2
    <3> QED BY <1>1, <3>2, <3>3
  <2> HIDE DEF members
  <2>6. /\ SameCallFound \in Outcomes
        /\ SameCallFound = "verified" =>
                CallsAgree(members) /\ \A c \in Elements(members) : Citing(c)
        /\ SameCallFound = "failed" =>
                \/ ~CallsAgree(members) /\ \A c \in Elements(members) : Citing(c)
                \/ \E c \in Elements(members) : Contradicted(c)
        /\ SameCallFound \in Uncertain => \E c \in Elements(members) : Doubtful(c)
    BY <1>1, <2>1, <2>2, GroupMeaning
  <2>7. Absent \notin Outcomes
    BY DEF Absent, Outcomes
  <2> USE DEF members
  <2> QED BY <2>4, <2>5, <2>6, <2>7
<1> QED BY <1>2, <1>3

-----------------------------------------------------------------------------
(* The inductive invariant.                                                *)

Pending == {"identity", "bindings", "polarity", "clauses", "same_call", "aggregate"}

Aggregated == [status |-> Status,
               reasons |-> IF Status = "abstain" THEN Reasons ELSE {},
               confidence |-> Confidence]

ChainOK ==
    /\ chain \in Seq(Links)
    /\ Len(chain) <= Len(pattern.evidence)
    /\ \A c \in 1 .. Len(chain) : chain[c] = Entry(c)

GroupsOK ==
    /\ sequenceOutcome \in Outcomes \union {Absent}
    /\ sameCallOutcome \in Outcomes \union {Absent}
    /\ phase \in {"same_call", "aggregate", "done"} =>
            WholeChain /\ sequenceOutcome = SequenceFound
    /\ phase \in {"aggregate", "done"} => sameCallOutcome = SameCallFound

ResultOK ==
    /\ phase \in Pending => result = NoResult
    /\ phase = "error" => \E e \in Errors : result = [NoResult EXCEPT !.status = e]
    /\ phase = "done" => result = Aggregated

IInv ==
    /\ InputsOK
    /\ phase \in Pending \union {"done", "error"}
    /\ ChainOK
    /\ GroupsOK
    /\ ResultOK

LEMMA InitEstablishes == Init => IInv
<1> SUFFICES ASSUME Init PROVE IInv
  OBVIOUS
<1> USE DEF Init
<1>1. \A c \in Clauses : matches[c] \in Seq(Binding)
  BY EvaluationsAreBindings
<1>2. InputsOK
  BY <1>1 DEF InputsOK
<1>3. ChainOK
  <2>1. Len(pattern.evidence) \in Nat
    BY PatternFacts
  <2> QED BY <2>1 DEF ChainOK, Links
<1> QED BY <1>2, <1>3 DEF IInv, GroupsOK, ResultOK, Pending

(* The inputs and what is derived from them alone never change. *)
LEMMA InputsStay ==
    ASSUME IInv, UNCHANGED inputs
    PROVE  /\ InputsOK'
           /\ \A c : Entry(c)' = Entry(c)
BY DEF IInv, inputs, InputsOK, Clauses, Citable, Entry, Verification, Found, Negative,
       Undecidable, Present, FactsOf

(* The steps that leave the chain and the groups alone and do not finish. *)
LEMMA GateStep ==
    ASSUME IInv, phase \in {"identity", "bindings", "polarity", "clauses"},
           UNCHANGED <<inputs, chain, sequenceOutcome, sameCallOutcome>>,
           \/ phase' \in {"bindings", "polarity", "clauses"} /\ UNCHANGED result
           \/ \E e \in Errors : Fail(e)
    PROVE  IInv'
<1>1. InputsOK' /\ \A c : Entry(c)' = Entry(c)
  BY InputsStay
<1>2. ChainOK'
  BY <1>1 DEF IInv, ChainOK, inputs, Links
<1>3. GroupsOK'
  BY DEF IInv, GroupsOK, Fail
<1>4. ResultOK' /\ (phase \in Pending \union {"done", "error"})'
  BY DEF IInv, ResultOK, Fail, Pending
<1> QED BY <1>1, <1>2, <1>3, <1>4 DEF IInv

LEMMA VerifyClauseStep ==
    ASSUME IInv, VerifyClause
    PROVE  IInv'
<1> USE DEF VerifyClause, Verifying
<1>1. InputsOK' /\ \A c : Entry(c)' = Entry(c)
  BY InputsStay
<1>2. /\ chain \in Seq(Links) /\ Len(pattern.evidence) \in Nat
      /\ NextClause \in Clauses /\ NextClause = Len(chain) + 1
  BY PatternFacts DEF IInv, InputsOK, ChainOK, NextClause, Clauses
<1>3. chain' = Append(chain, Entry(NextClause)) /\ Entry(NextClause) \in Links
  BY <1>2, EntryMeaning DEF IInv, Entry, NextKind, Links
<1>4. ChainOK'
  <2>1. /\ chain' \in Seq(Links) /\ Len(chain') = Len(chain) + 1
        /\ Len(chain') <= Len(pattern.evidence)
    BY <1>2, <1>3
  <2>2. \A c \in 1 .. Len(chain') : chain'[c] = Entry(c)
    BY <1>2, <1>3 DEF IInv, ChainOK
  <2> QED BY <1>1, <2>1, <2>2 DEF ChainOK, inputs, Links
<1>5. GroupsOK' /\ ResultOK' /\ (phase \in Pending \union {"done", "error"})'
  BY DEF IInv, GroupsOK, ResultOK, Pending
<1> QED BY <1>1, <1>4, <1>5 DEF IInv

(* What is computed from the inputs and the chain stays with them. *)
LEMMA FoundStays ==
    ASSUME IInv, UNCHANGED <<inputs, chain>>
    PROVE  /\ WholeChain' <=> WholeChain
           /\ ChainOK'
           /\ SequenceFound' = SequenceFound
           /\ SameCallFound' = SameCallFound
<1>1. \A c : Entry(c)' = Entry(c)
  BY InputsStay DEF inputs
<1>2. (WholeChain' <=> WholeChain) /\ ChainOK'
  BY <1>1 DEF IInv, inputs, WholeChain, ChainOK, Clauses, Links, Outcomes, Citable
<1>3. SequenceFound' = SequenceFound
  BY DEF inputs, SequenceFound, GroupOutcome, KeysInOrder, Confirmed, KeyOf
<1>4. SameCallFound' = SameCallFound
  BY DEF inputs, SameCallFound, GroupOutcome, CallsAgree, Confirmed, CallOf
<1> QED BY <1>2, <1>3, <1>4

LEMMA VerifySequenceStep ==
    ASSUME IInv, VerifySequence
    PROVE  IInv'
<1> USE DEF VerifySequence
<1>1. InputsOK' /\ ChainOK' /\ (WholeChain' <=> WholeChain) /\ SequenceFound' = SequenceFound
  BY InputsStay, FoundStays
<1>2. WholeChain
  BY DEF IInv, ChainOK, WholeChain, Clauses
<1>3. sequenceOutcome' = SequenceFound /\ SequenceFound \in Outcomes \union {Absent}
  BY <1>2, SequenceMeaning DEF IInv, SequenceFound
<1>4. GroupsOK'
  BY <1>1, <1>2, <1>3 DEF IInv, GroupsOK
<1>5. ResultOK' /\ (phase \in Pending \union {"done", "error"})'
  BY DEF IInv, ResultOK, Pending
<1> QED BY <1>1, <1>4, <1>5 DEF IInv

LEMMA VerifySameCallStep ==
    ASSUME IInv, VerifySameCall
    PROVE  IInv'
<1> USE DEF VerifySameCall
<1>1. /\ InputsOK' /\ ChainOK' /\ (WholeChain' <=> WholeChain)
      /\ SequenceFound' = SequenceFound /\ SameCallFound' = SameCallFound
  BY InputsStay, FoundStays
<1>2. WholeChain /\ sequenceOutcome = SequenceFound
  BY DEF IInv, GroupsOK
<1>3. sameCallOutcome' = SameCallFound /\ SameCallFound \in Outcomes \union {Absent}
  BY <1>2, SameCallMeaning DEF IInv, SameCallFound
<1>4. GroupsOK'
  BY <1>1, <1>2, <1>3 DEF IInv, GroupsOK
<1>5. ResultOK' /\ (phase \in Pending \union {"done", "error"})'
  BY DEF IInv, ResultOK, Pending
<1> QED BY <1>1, <1>4, <1>5 DEF IInv

LEMMA AggregateStep ==
    ASSUME IInv, Aggregate
    PROVE  IInv'
<1> USE DEF Aggregate
<1>1. /\ InputsOK' /\ ChainOK' /\ (WholeChain' <=> WholeChain)
      /\ SequenceFound' = SequenceFound /\ SameCallFound' = SameCallFound
  BY InputsStay, FoundStays
<1>2. GroupsOK'
  BY <1>1 DEF IInv, GroupsOK
<1>3. Aggregated' = Aggregated
  BY ZenonT(60) DEF inputs, Aggregated, Status, Reasons, Weighed, GroupOutcomes, Confidence,
         VerifiedAmong, Required, Clauses
<1>4. ResultOK' /\ (phase \in Pending \union {"done", "error"})'
  BY <1>3 DEF IInv, ResultOK, Pending, Aggregated
<1> QED BY <1>1, <1>2, <1>4 DEF IInv

LEMMA StutterPreserves ==
    ASSUME IInv, UNCHANGED vars
    PROVE  IInv'
<1> USE DEF vars
<1>1. /\ InputsOK' /\ ChainOK' /\ (WholeChain' <=> WholeChain)
      /\ SequenceFound' = SequenceFound /\ SameCallFound' = SameCallFound
  BY InputsStay, FoundStays DEF inputs
<1>2. Aggregated' = Aggregated
  BY DEF Aggregated, Status, Reasons, Weighed, GroupOutcomes, Confidence,
         VerifiedAmong, Required, Clauses
<1> QED BY <1>1, <1>2 DEF IInv, GroupsOK, ResultOK

LEMMA IInvInductive == IInv /\ [Next]_vars => IInv'
<1> SUFFICES ASSUME IInv, [Next]_vars PROVE IInv'
  OBVIOUS
<1>1. CASE CheckIdentity
  BY <1>1, GateStep DEF CheckIdentity, Errors
<1>2. CASE CheckBindings
  BY <1>2, GateStep DEF CheckBindings, Errors
<1>3. CASE AnalyzePolarity
  BY <1>3, GateStep DEF AnalyzePolarity, Errors
<1>4. CASE VerifyClause
  BY <1>4, VerifyClauseStep
<1>5. CASE NoVerifiers
  BY <1>5, GateStep DEF NoVerifiers, Verifying, Errors
<1>6. CASE VerifySequence
  BY <1>6, VerifySequenceStep
<1>7. CASE VerifySameCall
  BY <1>7, VerifySameCallStep
<1>8. CASE Aggregate
  BY <1>8, AggregateStep
<1>9. CASE Returned \/ UNCHANGED vars
  BY <1>9, StutterPreserves DEF Returned
<1> QED BY <1>1, <1>2, <1>3, <1>4, <1>5, <1>6, <1>7, <1>8, <1>9 DEF Next

(* The chain holds each clause's verification, and the outcomes and the result
   are what the engine computes from it, in every reachable state. *)
THEOREM Invariance == Spec => []IInv
BY InitEstablishes, IInvInductive, PTL DEF Spec

-----------------------------------------------------------------------------
(* The properties.                                                         *)

(* What is weighed when grounding is done, in terms of the trace. *)
LEMMA WeighedMeaning ==
    ASSUME IInv, Done
    PROVE  /\ Weighed \subseteq Outcomes \union {Absent}
           /\ \A c \in Required : /\ chain[c].outcome \in Weighed
                                 /\ chain[c] = Entry(c) /\ c \in Clauses
           /\ sequenceOutcome \in Weighed /\ sameCallOutcome \in Weighed
           /\ WholeChain /\ InputsOK
           /\ sequenceOutcome = SequenceFound /\ sameCallOutcome = SameCallFound
           /\ result = Aggregated
<1>1. /\ WholeChain /\ InputsOK
      /\ sequenceOutcome = SequenceFound /\ sameCallOutcome = SameCallFound
      /\ result = Aggregated
  BY DEF IInv, GroupsOK, ResultOK, Done
<1>2. \A c \in Required : chain[c] = Entry(c) /\ c \in Clauses
  BY <1>1 DEF WholeChain, Required
<1>3. \A c \in Required : chain[c].outcome \in Outcomes
  BY <1>1, <1>2, EntryMeaning
<1>4. sequenceOutcome \in Outcomes \union {Absent} /\ sameCallOutcome \in Outcomes \union {Absent}
  BY DEF IInv, GroupsOK
<1> QED BY <1>1, <1>2, <1>3, <1>4 DEF Weighed, GroupOutcomes

(* The status is one of the three, by the precedence of the outcomes. *)
LEMMA StatusMeaning ==
    ASSUME Weighed \subseteq Outcomes \union {Absent}
    PROVE  /\ Status \in Statuses
           /\ Status = "grounded" => Weighed \subseteq {"verified", Absent}
           /\ Status = "ungrounded" =>
                "failed" \in Weighed /\ Weighed \intersect Uncertain = {}
           /\ Status = "abstain" <=> Weighed \intersect Uncertain # {}
<1>1. CASE Weighed \intersect Uncertain # {}
  <2>1. Status = "abstain"
    BY <1>1 DEF Status, Uncertain, Absent
  <2> QED BY <1>1, <2>1 DEF Statuses
<1>2. CASE Weighed \intersect Uncertain = {} /\ "failed" \in Weighed
  <2>1. Status = "ungrounded"
    BY <1>2 DEF Status, Absent
  <2> QED BY <1>2, <2>1 DEF Statuses
<1>3. CASE Weighed \intersect Uncertain = {} /\ "failed" \notin Weighed
  <2>1. Weighed \subseteq {"verified", Absent}
    BY <1>3 DEF Outcomes, Uncertain
  <2>2. Status = "grounded"
    BY <1>3, <2>1 DEF Status
  <2> QED BY <1>3, <2>1, <2>2 DEF Statuses
<1> QED BY <1>1, <1>2, <1>3

LEMMA ResultStatus ==
    ASSUME IInv, Done
    PROVE  result.status = Status
BY WeighedMeaning DEF Aggregated

(* A grounded result weighs verified outcomes only. *)
LEMMA GroundedMeaning == IInv => GroundedIsShown
<1> SUFFICES ASSUME IInv, Done, result.status = "grounded" PROVE GroundedIsShown
  BY DEF GroundedIsShown
<1>1. Weighed \subseteq {"verified", Absent}
  BY WeighedMeaning, StatusMeaning, ResultStatus
<1>2. \A c \in Required : Shown(c)
  <2> SUFFICES ASSUME NEW c \in Required PROVE Shown(c)
    OBVIOUS
  <2>1. c \in Clauses /\ InputsOK /\ Entry(c).outcome \in {"verified", Absent}
    BY <1>1, WeighedMeaning
  <2>2. Absent \notin Outcomes
    BY DEF Absent, Outcomes
  <2> QED BY <2>1, <2>2, EntryMeaning
<1>3. StepsInOrder /\ \A c \in Elements(pattern.sequence) : Citing(c)
  <2>1. SequenceFound \in {"verified", Absent}
    BY <1>1, WeighedMeaning
  <2> QED BY <2>1, WeighedMeaning, SequenceMeaning
<1>4. MembersShareCall /\ \A c \in Elements(pattern.sameCall) : Citing(c)
  <2>1. SameCallFound \in {"verified", Absent}
    BY <1>1, WeighedMeaning
  <2> QED BY <2>1, WeighedMeaning, SameCallMeaning
<1> QED BY <1>2, <1>3, <1>4 DEF GroundedIsShown, StepsInOrder, MembersShareCall

(* No candidate, whatever it claims, is grounded unless the trace shows every
   required clause and every step and member, in order and of one call. *)
THEOREM GroundingSound == Spec => []GroundedIsShown
BY GroundedMeaning, Invariance, PTL

(* A required clause the trace cannot decide makes grounding abstain, whatever
   else was contradicted. *)
THEOREM UncertaintyWins == Spec => []UncertaintyOutranks
<1>1. IInv => UncertaintyOutranks
  <2> SUFFICES ASSUME IInv, Done, NEW c \in Required, Undecided(c)
               PROVE  result.status = "abstain"
    BY DEF UncertaintyOutranks
  <2>1. c \in Clauses /\ InputsOK /\ Entry(c).outcome \in Weighed
    BY WeighedMeaning
  <2>2. Entry(c).outcome \in Uncertain
    BY <2>1, EntryMeaning
  <2> QED BY <2>1, <2>2, WeighedMeaning, StatusMeaning, ResultStatus
<1> QED BY <1>1, Invariance, PTL

(* An ungrounded result weighs a failed outcome: of a clause or of a group. *)
LEMMA UngroundedMeaning == IInv => UngroundedIsContradicted
<1> SUFFICES ASSUME IInv, Done, result.status = "ungrounded" PROVE UngroundedIsContradicted
  BY DEF UngroundedIsContradicted
<1>1. "failed" \in Weighed
  BY WeighedMeaning, StatusMeaning, ResultStatus
<1>2. CASE \E c \in Required : chain[c].outcome = "failed"
  <2>1. PICK c \in Required : Entry(c).outcome = "failed" /\ c \in Clauses /\ InputsOK
    BY <1>2, WeighedMeaning
  <2>2. Contradicted(c)
    BY <2>1, EntryMeaning
  <2> QED BY <2>2 DEF UngroundedIsContradicted
<1>3. CASE SequenceFound = "failed"
  BY <1>3, WeighedMeaning, SequenceMeaning DEF UngroundedIsContradicted
<1>4. CASE SameCallFound = "failed"
  BY <1>4, WeighedMeaning, SameCallMeaning DEF UngroundedIsContradicted
<1> QED BY <1>1, <1>2, <1>3, <1>4, WeighedMeaning DEF Weighed, GroupOutcomes

(* A confident negative rests on a contradiction in the trace. *)
THEOREM NegativeIsJustified == Spec => []UngroundedIsContradicted
BY UngroundedMeaning, Invariance, PTL

(* An abstention weighs an uncertain outcome: of a clause or of a group. *)
LEMMA AbstentionMeaning ==
    ASSUME IInv, Done, result.status = "abstain"
    PROVE  \/ \E c \in Required : Undecided(c)
           \/ \E c \in Elements(pattern.sequence) \union Elements(pattern.sameCall) :
                    Doubtful(c)
<1>1. Weighed \intersect Uncertain # {}
  BY WeighedMeaning, StatusMeaning, ResultStatus
<1>2. CASE \E c \in Required : chain[c].outcome \in Uncertain
  BY <1>2, WeighedMeaning, EntryMeaning
<1>3. CASE SequenceFound \in Uncertain
  BY <1>3, WeighedMeaning, SequenceMeaning
<1>4. CASE SameCallFound \in Uncertain
  BY <1>4, WeighedMeaning, SameCallMeaning
<1> QED BY <1>1, <1>2, <1>3, <1>4, WeighedMeaning DEF Weighed, GroupOutcomes

(* An abstention names every required clause that was not shown, under the
   category of its cause. *)
THEOREM NoInformationLost == Spec => []AbstentionIsExplained
<1>1. IInv => AbstentionIsExplained
  <2> SUFFICES ASSUME IInv, Done, result.status = "abstain" PROVE AbstentionIsExplained
    BY DEF AbstentionIsExplained
  <2>1. result.reasons = Reasons
    BY ResultStatus, WeighedMeaning DEF Aggregated
  <2>2. Reasons # {}
    <3>1. PICK o \in Weighed : o \in Uncertain
      BY WeighedMeaning, StatusMeaning, ResultStatus
    <3>2. o \notin {"verified", Absent}
      BY <3>1 DEF Uncertain, Absent
    <3>3. CASE o \in GroupOutcomes
      BY <3>2, <3>3 DEF Reasons
    <3>4. CASE \E c \in Required : chain[c].outcome = o
      BY <3>2, <3>4 DEF Reasons
    <3> QED BY <3>3, <3>4 DEF Weighed
  <2>3. ASSUME NEW c \in Required, ~Shown(c)
        PROVE  [clause |-> c, category |-> Category(chain[c].outcome)] \in Reasons
    <3>1. chain[c].outcome # "verified"
      BY <2>3, WeighedMeaning, EntryMeaning
    <3> QED BY <3>1 DEF Reasons
  <2>4. ASSUME NEW c \in Required, ~Shown(c)
        PROVE  Category(chain[c].outcome) =
                CASE Contradicted(c) -> "structural mismatch"
                  [] Undecided(c) /\ Checked(c) /\ matches[c] = <<>> -> "missing fact"
                  [] Undecided(c) /\ (~Checked(c) \/ matches[c] # <<>>) ->
                        "unresolvable layout"
    <3>1. c \in Clauses /\ InputsOK /\ chain[c] = Entry(c)
      BY WeighedMeaning
    <3>2. CASE Contradicted(c)
      <4>1. chain[c].outcome = "failed"
        BY <3>1, <3>2, EntryMeaning
      <4>2. ~Undecided(c)
        BY <3>2 DEF Contradicted
      <4> QED BY <3>2, <4>1, <4>2 DEF Category
    <3>3. CASE Undecided(c) /\ Checked(c) /\ matches[c] = <<>>
      <4>1. ~Contradicted(c)
        BY <3>3 DEF Contradicted
      <4>2. c \notin Negative
        BY <2>4, <3>3 DEF Shown
      <4>3. chain[c].outcome = "unavailable"
        BY <3>1, <3>3, <4>2 DEF Entry, Verification, Found, Checked, Present, Undecidable
      <4> QED BY <3>3, <4>1, <4>3 DEF Category
    <3>4. CASE Undecided(c) /\ (~Checked(c) \/ matches[c] # <<>>)
      <4>1. ~Contradicted(c)
        BY <3>4 DEF Contradicted
      <4>2. chain[c].outcome = "unsupported"
        BY <3>1, <3>4 DEF Entry, Verification, Found, Checked, Present, Undecidable, Undecided
      <4> QED BY <3>4, <4>1, <4>2 DEF Category
    <3> QED BY <2>4, <3>2, <3>3, <3>4 DEF Contradicted
  <2> QED BY <2>1, <2>2, <2>3, <2>4 DEF AbstentionIsExplained
<1> QED BY <1>1, Invariance, PTL

(* Type correctness; the confidence never counts more clauses than there are. *)
THEOREM TypeCorrect == Spec => []TypeOK
<1>1. IInv => TypeOK
  <2> SUFFICES ASSUME IInv PROVE TypeOK
    OBVIOUS
  <2>1. Len(pattern.evidence) \in Nat /\ IsFiniteSet(Clauses)
    <3>1. Len(pattern.evidence) \in Int
      BY PatternFacts DEF IInv, InputsOK
    <3>2. IsFiniteSet(1 .. Len(pattern.evidence))
      BY <3>1, FS_Interval
    <3> QED BY <3>2, PatternFacts DEF IInv, InputsOK, Clauses
  <2>2. \A S \in SUBSET Clauses : /\ Cardinality(S) \in Nat
                                  /\ VerifiedAmong(S) \in 0 .. Cardinality(S)
    <3> SUFFICES ASSUME NEW S \in SUBSET Clauses
                 PROVE  /\ Cardinality(S) \in Nat
                        /\ VerifiedAmong(S) \in 0 .. Cardinality(S)
      OBVIOUS
    <3> DEFINE V == {c \in S : chain[c].outcome = "verified"}
    <3>1. IsFiniteSet(S) /\ V \subseteq S
      BY <2>1, FS_Subset
    <3>2. IsFiniteSet(V) /\ Cardinality(V) <= Cardinality(S)
      BY <3>1, FS_Subset
    <3>3. Cardinality(S) \in Nat /\ Cardinality(V) \in Nat
      BY <3>1, <3>2, FS_CardinalityType
    <3> QED BY <3>2, <3>3 DEF VerifiedAmong
  <2>3. Required \in SUBSET Clauses /\ Clauses \ Required \in SUBSET Clauses
    BY DEF Required
  <2>4. /\ result.status \in Statuses \union Errors \union {"none"}
        /\ result.confidence.required \in 0 .. Cardinality(Required)
        /\ result.confidence.optional \in 0 .. Cardinality(Clauses \ Required)
    <3>1. CASE phase = "done"
      <4>1. result = Aggregated /\ Status \in Statuses
        BY <3>1, WeighedMeaning, StatusMeaning DEF Done
      <4> QED BY <4>1, <2>2, <2>3 DEF Aggregated, Confidence
    <3>2. CASE phase # "done"
      <4>1. /\ result.status \in Errors \union {"none"}
            /\ result.confidence = [required |-> 0, optional |-> 0]
        BY <3>2 DEF IInv, ResultOK, NoResult
      <4> QED BY <4>1, <2>2, <2>3
    <3> QED BY <3>1, <3>2
  <2>5. phase \in {"identity", "bindings", "polarity", "clauses", "same_call",
                   "aggregate", "done", "error"}
    BY DEF IInv, Pending
  <2>6. /\ chain \in Seq([outcome : Outcomes, fact : Citable])
        /\ Len(chain) <= Len(pattern.evidence)
    BY DEF IInv, ChainOK, Links
  <2>7. InputsOK /\ GroupsOK
    BY DEF IInv
  <2> QED BY <2>4, <2>5, <2>6, <2>7 DEF TypeOK, InputsOK, GroupsOK
<1> QED BY <1>1, Invariance, PTL
=============================================================================
