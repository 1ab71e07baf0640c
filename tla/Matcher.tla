------------------------------ MODULE Matcher -------------------------------
(***************************************************************************)
(* matcher::engine::find_candidates (crates/matcher/src/engine.rs, with    *)
(* sequence.rs, constraint.rs and identity.rs): every candidate match of   *)
(* one pattern in one trace.                                               *)
(*                                                                         *)
(* The clauses' predicates are evaluated once; the pattern's anchor clause *)
(* is found; then each occurrence of the anchor is extended, or not, to a  *)
(* candidate: a binding for each sequence step, greedily the earliest that *)
(* is not before the previous one; the boolean constraint; a binding of    *)
(* every same_call member to one call.  An action is one iteration of one  *)
(* of the code's loops.                                                    *)
(*                                                                         *)
(* The trace is seen as the code below this level sees it: which facts     *)
(* satisfy which clause, and which call produced each fact.                *)
(***************************************************************************)
EXTENDS Traces

CONSTANTS
    PatternSet, \* the compiled patterns a run may be given
    NoCall      \* Option::None as same_call's target

ASSUME PatternAssumption == PatternSet \subseteq Pattern
ASSUME NoCallAssumption == NoCall \notin Nat

(* What compilation guarantees: no clause is two steps of the sequence
   (validate.rs), and a constraint is a finite tree, so that the walk over
   its leaves ends with a list. *)
ASSUME StepsAssumption ==
    \A p \in PatternSet : \A i, j \in 1 .. Len(p.sequence) :
        p.sequence[i] = p.sequence[j] => i = j
ASSUME LeavesAssumption ==
    \A p \in PatternSet : PositiveLeaves(p.constraint) \in Seq(Nat)

VARIABLES
    pattern,    \* the pattern under way
    matches,    \* evidence_matches: per clause, its bindings in order
    phase,      \* where find_candidates is
    position,   \* the anchor occurrence under way
    fixed,      \* the clauses this attempt has bound, with their binding
    lower,      \* sequence::resolve's lower bound
    step,       \* the sequence step or same_call member under way
    target,     \* resolve_same_call's call
    candidates, \* the result: per candidate, its bindings clause by clause
    outcomes    \* history: how the attempt at each occurrence ended

vars == <<pattern, matches, phase, position, fixed, lower, step, target,
          candidates, outcomes>>
attempt == <<fixed, lower, step, target>>

Clauses == 1 .. Len(pattern.evidence)

(* A partial function from clauses to bindings, widened or overwritten. *)
Bind(bound, clause, binding) ==
    [c \in DOMAIN bound \union {clause} |-> IF c = clause THEN binding ELSE bound[c]]

Init ==
    /\ pattern \in PatternSet
    /\ matches = <<>>
    /\ phase = "check"
    /\ position = 1
    /\ fixed = <<>> /\ lower = NoOrder /\ step = 1 /\ target = NoCall
    /\ candidates = <<>> /\ outcomes = <<>>

(* check_in_bounds: DanglingEvidenceRef. *)
CheckInBounds ==
    /\ phase = "check"
    /\ phase' = IF References(pattern) \subseteq Clauses THEN "evaluate" ELSE "failed"
    /\ UNCHANGED <<pattern, matches, position, attempt, candidates, outcomes>>

----------------------------------------------------------------------------
(* Phase 1: each clause's predicate, once.                                 *)

Evaluate ==
    /\ phase = "evaluate"
    /\ Len(matches) < Len(pattern.evidence)
    /\ \E bindings \in Evaluations(pattern.evidence[Len(matches) + 1]) :
            matches' = Append(matches, bindings)
    /\ UNCHANGED <<pattern, phase, position, attempt, candidates, outcomes>>

(* anchor_index: the first sequence step, or the first positive leaf. *)
AnchorCandidates ==
    IF pattern.sequence # <<>> THEN pattern.sequence
    ELSE PositiveLeaves(pattern.constraint)

HasAnchor == AnchorCandidates # <<>>
Anchor == AnchorCandidates[1]
(* Mutant of AnchorBinding: always the first occurrence. *)
AnchorBindingFirst == matches[Anchor][1]

AnchorBinding == matches[Anchor][position]

MatchedClauses == {c \in Clauses : matches[c] # <<>>}

(* global_candidate: without an anchor the pattern matches once, with no
   binding, or not at all. *)
GlobalCandidate ==
    /\ phase = "evaluate"
    /\ Len(matches) = Len(pattern.evidence)
    /\ ~HasAnchor
    /\ candidates' = IF Holds(pattern.constraint, MatchedClauses)
                     THEN <<<<>>>> ELSE <<>>
    /\ phase' = "done"
    /\ UNCHANGED <<pattern, matches, position, attempt, outcomes>>

----------------------------------------------------------------------------
(* try_build_candidate, for the anchor occurrence at position.             *)

StartAttempts ==
    /\ phase = "evaluate"
    /\ Len(matches) = Len(pattern.evidence)
    /\ HasAnchor
    /\ phase' = "attempt"
    /\ UNCHANGED <<pattern, matches, position, attempt, candidates, outcomes>>

StartAttempt ==
    /\ phase = "attempt"
    /\ position <= Len(matches[Anchor])
    /\ fixed' = Bind(<<>>, Anchor, AnchorBinding)
    /\ phase' = "sequence"
    /\ UNCHANGED <<pattern, matches, position, lower, step, target, candidates, outcomes>>

FinishAttempts ==
    /\ phase = "attempt"
    /\ position > Len(matches[Anchor])
    /\ phase' = "done"
    /\ UNCHANGED <<pattern, matches, position, attempt, candidates, outcomes>>

(* try_build_candidate returns: its locals go, the next occurrence is up. *)
EndAttempt(outcome) ==
    /\ outcomes' = Append(outcomes, outcome)
    /\ position' = position + 1
    /\ fixed' = <<>> /\ lower' = NoOrder /\ step' = 1 /\ target' = NoCall
    /\ phase' = "attempt"
    /\ UNCHANGED <<pattern, matches>>

Abandon(outcome) == EndAttempt(outcome) /\ UNCHANGED candidates

(* Mutants of Permits: the comparison turned round; made strict. *)
PermitsBackwards(bound, order) == bound = NoOrder \/ order = NoOrder \/ order <= bound
PermitsStrictly(bound, order) == bound = NoOrder \/ order = NoOrder \/ bound < order

(* LowerBoundExt::permits. *)
Permits(bound, order) == bound = NoOrder \/ order = NoOrder \/ bound <= order

Sequence == pattern.sequence

(* The step's bindings; the anchor's are narrowed to the occurrence. *)
StepBindings ==
    IF Sequence[step] = Anchor THEN <<AnchorBinding>> ELSE matches[Sequence[step]]

PermittedAt(list) == {i \in 1 .. Len(list) : Permits(lower, list[i].order)}

(* sequence::resolve, one step: the first binding the bound permits. *)
ResolveStep ==
    /\ phase = "sequence"
    /\ step <= Len(Sequence)
    /\ PermittedAt(StepBindings) # {}
    /\ LET chosen == StepBindings[Least(PermittedAt(StepBindings))]
       IN  /\ fixed' = Bind(fixed, Sequence[step], chosen)
           /\ lower' = IF chosen.order = NoOrder THEN lower ELSE chosen.order
    /\ step' = step + 1
    /\ UNCHANGED <<pattern, matches, phase, position, target, candidates, outcomes>>

SequenceFails ==
    /\ phase = "sequence"
    /\ step <= Len(Sequence)
    /\ PermittedAt(StepBindings) = {}
    /\ Abandon("no sequence")

(* Mutants of Satisfied: only what the attempt has bound counts; the
   constraint is taken as met once the sequence is resolved. *)
SatisfiedByFixed == Holds(pattern.constraint, DOMAIN fixed)
SatisfiedUnchecked == TRUE

(* constraint::holds with has_match: bound already, or matched at all. *)
Satisfied == Holds(pattern.constraint, DOMAIN fixed \union MatchedClauses)

CheckConstraint ==
    /\ phase = "sequence"
    /\ step > Len(Sequence)
    /\ \/ /\ Satisfied
          /\ phase' = IF pattern.sameCall = <<>> THEN "emit" ELSE "same_call"
          /\ step' = 1
          /\ UNCHANGED <<pattern, matches, position, fixed, lower, target,
                         candidates, outcomes>>
       \/ ~Satisfied /\ Abandon("unsatisfied")

Members == Elements(pattern.sameCall)
FixedMembers == Members \intersect DOMAIN fixed
FixedCalls == {ProducingCall(fixed[c].fact) : c \in FixedMembers}

(* resolve_same_call: the call of the members bound already, if they agree. *)
TargetFromFixed ==
    /\ phase = "same_call"
    /\ FixedMembers # {}
    /\ \/ /\ Cardinality(FixedCalls) = 1
          /\ target' \in FixedCalls
          /\ phase' = "members"
          /\ UNCHANGED <<pattern, matches, position, fixed, lower, step,
                         candidates, outcomes>>
       \/ Cardinality(FixedCalls) > 1 /\ Abandon("fixed members disagree")

(* No member is bound yet: the lowest member's first match decides. *)
TargetFromFirstMember ==
    /\ phase = "same_call"
    /\ FixedMembers = {}
    /\ LET first == Least(Members)
       IN  \/ /\ matches[first] # <<>>
              /\ fixed' = Bind(fixed, first, matches[first][1])
              /\ target' = ProducingCall(matches[first][1].fact)
              /\ phase' = "members"
              /\ UNCHANGED <<pattern, matches, position, lower, step,
                             candidates, outcomes>>
           \/ matches[first] = <<>> /\ Abandon("no first member")

(* Each further member takes its first match of the target call. *)
ResolveMember ==
    /\ phase = "members"
    /\ step <= Len(pattern.sameCall)
    /\ LET member == pattern.sameCall[step]
           inTarget == {i \in 1 .. Len(matches[member]) :
                            ProducingCall(matches[member][i].fact) = target}
       IN  \/ /\ member \in DOMAIN fixed \/ inTarget # {}
              /\ fixed' = IF member \in DOMAIN fixed THEN fixed
                          ELSE Bind(fixed, member, matches[member][Least(inTarget)])
              /\ step' = step + 1
              /\ UNCHANGED <<pattern, matches, phase, position, lower, target,
                             candidates, outcomes>>
           \/ member \notin DOMAIN fixed /\ inTarget = {} /\ Abandon("no same call")

MembersResolved ==
    /\ phase = "members"
    /\ step > Len(pattern.sameCall)
    /\ phase' = "emit"
    /\ UNCHANGED <<pattern, matches, position, attempt, candidates, outcomes>>

(* The candidate's bindings: what the attempt fixed, and the first match of
   every other positive leaf that has one. *)
Chosen ==
    LET first == Elements(PositiveLeaves(pattern.constraint)) \intersect MatchedClauses
    IN  [c \in DOMAIN fixed \union first |->
            IF c \in DOMAIN fixed THEN fixed[c] ELSE matches[c][1]]

Emit ==
    /\ phase = "emit"
    /\ candidates' = Append(candidates, Chosen)
    /\ EndAttempt("emitted")

(* find_candidates has returned. *)
Returned == phase \in {"done", "failed"} /\ UNCHANGED vars

Next ==
    \/ CheckInBounds \/ Evaluate \/ GlobalCandidate
    \/ StartAttempts \/ StartAttempt \/ FinishAttempts
    \/ ResolveStep \/ SequenceFails \/ CheckConstraint
    \/ TargetFromFixed \/ TargetFromFirstMember \/ ResolveMember \/ MembersResolved
    \/ Emit \/ Returned

Spec == Init /\ [][Next]_vars

----------------------------------------------------------------------------
(* Properties.                                                             *)

(* What a candidate promises: each binding is a match of its clause, the
   sequence's steps are all bound and none runs before an earlier one, the
   same_call members are all bound to facts of one call, every positive leaf
   with a match is bound, and the constraint holds. *)
Sound(c) ==
    /\ \A e \in DOMAIN c : c[e] \in Elements(matches[e])
    /\ Elements(Sequence) \union Members \subseteq DOMAIN c
    /\ \A i, j \in 1 .. Len(Sequence) :
            i < j => InOrder(c[Sequence[i]].order, c[Sequence[j]].order)
    /\ \A d, e \in Members : ProducingCall(c[d].fact) = ProducingCall(c[e].fact)
    /\ Elements(PositiveLeaves(pattern.constraint)) \intersect MatchedClauses
            \subseteq DOMAIN c
    /\ Holds(pattern.constraint, MatchedClauses)

(* Every candidate of a pattern with an anchor is sound, whichever bindings
   the sequence, the same_call group and the fallback each contributed. *)
CandidatesSound ==
    HasAnchor => \A k \in 1 .. Len(candidates) : Sound(candidates[k])

(* The ways to bind the steps in order with the first step bound to the k-th
   occurrence of the anchor. *)
Assignments(k) ==
    {f \in [1 .. Len(Sequence) -> UNION {Elements(matches[e]) : e \in Elements(Sequence)}] :
        /\ f[1] = matches[Anchor][k]
        /\ \A i \in 1 .. Len(Sequence) : f[i] \in Elements(matches[Sequence[i]])
        /\ \A i, j \in 1 .. Len(Sequence) : i < j => InOrder(f[i].order, f[j].order)}

Tried == 1 .. Len(outcomes)

(* sequence.rs: "This greedy rule is correct (not merely a heuristic)": an
   occurrence is given up for its sequence only if no choice of bindings of
   the other steps is in order. *)
GreedyIsComplete ==
    \A k \in Tried : outcomes[k] = "no sequence" => Assignments(k) = {}

(* Without a same_call group, a candidate is emitted for exactly the
   occurrences that can be extended to a satisfying, ordered binding; without
   an anchor there is one candidate, exactly when the constraint holds. *)
EmitsExactlyTheExtendable ==
    /\ pattern.sameCall = <<>> =>
        \A k \in Tried : outcomes[k] = "emitted" <=>
            /\ Sequence # <<>> => Assignments(k) # {}
            /\ Holds(pattern.constraint, MatchedClauses)
    /\ ~HasAnchor /\ phase = "done" =>
        Len(candidates) = IF Holds(pattern.constraint, MatchedClauses) THEN 1 ELSE 0

(* engine.rs: one candidate per occurrence of the anchor, in the order of the
   trace, and no occurrence left out or tried twice. *)
EachOccurrenceOnce ==
    HasAnchor /\ phase = "done" =>
        /\ Len(outcomes) = Len(matches[Anchor])
        /\ Len(candidates) = Cardinality({k \in Tried : outcomes[k] = "emitted"})
        /\ \A i, j \in 1 .. Len(candidates) :
                i < j => Before(candidates[i][Anchor].fact, candidates[j][Anchor].fact)

=============================================================================
