----------------------------- MODULE Grounding ------------------------------
(***************************************************************************)
(* grounding::GroundingEngine::ground (crates/grounding/src/engine.rs with *)
(* verifier.rs and polarity.rs): the independent check of one candidate    *)
(* match against the trace it cites.                                       *)
(*                                                                         *)
(* The candidate's claims are not trusted: each clause's predicate is      *)
(* evaluated again and the fact the candidate cites is looked up in the    *)
(* result.  The outcomes of the clauses, of the sequence and of the        *)
(* same_call group are then folded into one status, in which uncertainty   *)
(* outranks contradiction.                                                 *)
(***************************************************************************)
EXTENDS Traces

CONSTANTS
    PatternSet, \* the patterns a candidate may be grounded against
    Kinds,      \* the predicate kinds
    StrayFacts, \* references that do not resolve in this trace
    NoFact      \* no fact cited

ASSUME PatternAssumption ==
    /\ PatternSet \subseteq Pattern
    /\ \A p \in PatternSet : References(p) \subseteq 1 .. Len(p.evidence)
ASSUME KindAssumption ==
    \A p \in PatternSet : \A c \in 1 .. Len(p.evidence) : p.evidence[c].kind \in Kinds
ASSUME StrayFactAssumption == StrayFacts \intersect (Facts \union {RootFact}) = {}
ASSUME NoFactAssumption == NoFact \notin Facts \union {RootFact} \union StrayFacts

VARIABLES
    pattern,         \* the pattern given
    matches,         \* what evaluating each clause in the trace returns
    registered,      \* the kinds the registry has a verifier for
    ownPattern,      \* the candidate names the given pattern's id and version
    cited,           \* the fact the candidate cites for each clause, or NoFact
    phase,           \* where ground() is
    chain,           \* the evidence chain: per clause [outcome, fact]
    sequenceOutcome, \* verify_sequence's result
    sameCallOutcome, \* verify_same_call's result
    result           \* the status and what is reported with it, or the error

vars == <<pattern, matches, registered, ownPattern, cited, phase, chain,
          sequenceOutcome, sameCallOutcome, result>>
inputs == <<pattern, matches, registered, ownPattern, cited>>

Outcomes == {"verified", "failed", "unavailable", "unsupported"}
Uncertain == {"unavailable", "unsupported"}
Absent == "none" \* the pattern declares no sequence, resp. no same_call

Clauses == 1 .. Len(pattern.evidence)
Required == {c \in Clauses : pattern.evidence[c].required}

Citable == Facts \union {RootFact} \union StrayFacts \union {NoFact}

(* Mutant of Resolves: the root call is not looked for. *)
ResolvesFactsOnly(fact) == fact \in Facts

Resolves(fact) == fact \in Facts \union {RootFact}

NoResult == [status |-> "none", reasons |-> {},
             confidence |-> [required |-> 0, optional |-> 0]]

Init ==
    /\ pattern \in PatternSet
    /\ matches \in {m \in [Clauses -> UNION {Evaluations(pattern.evidence[c]) : c \in Clauses}] :
                        \A c \in Clauses : m[c] \in Evaluations(pattern.evidence[c])}
    /\ registered \in SUBSET Kinds
    /\ ownPattern \in BOOLEAN
    /\ cited \in [Clauses -> Citable]
    /\ phase = "identity"
    /\ chain = <<>>
    /\ sequenceOutcome = Absent /\ sameCallOutcome = Absent
    /\ result = NoResult

Fail(error) ==
    /\ phase' = "error"
    /\ result' = [NoResult EXCEPT !.status = error]

(* check_candidate_matches_pattern. *)
CheckIdentity ==
    /\ phase = "identity"
    /\ \/ ownPattern /\ phase' = "bindings" /\ UNCHANGED result
       \/ ~ownPattern /\ Fail("IncompleteTrace")
    /\ UNCHANGED <<inputs, chain, sequenceOutcome, sameCallOutcome>>

Dangling == {c \in Clauses : cited[c] # NoFact /\ ~Resolves(cited[c])}

(* check_bindings_resolve. *)
CheckBindings ==
    /\ phase = "bindings"
    /\ \/ Dangling = {} /\ phase' = "polarity" /\ UNCHANGED result
       \/ Dangling # {} /\ Fail("MissingFacts")
    /\ UNCHANGED <<inputs, chain, sequenceOutcome, sameCallOutcome>>

Positive == Elements(PositiveLeaves(pattern.constraint))
Negative == Elements(NegativeLeaves(pattern.constraint))

(* polarity::analyze: no clause under both polarities. *)
AnalyzePolarity ==
    /\ phase = "polarity"
    /\ \/ Positive \intersect Negative = {} /\ phase' = "clauses" /\ UNCHANGED result
       \/ Positive \intersect Negative # {} /\ Fail("VerificationFailure")
    /\ UNCHANGED <<inputs, chain, sequenceOutcome, sameCallOutcome>>

----------------------------------------------------------------------------
(* verify_all_evidence, one clause at a time.                              *)

FactsOf(c) == {matches[c][i].fact : i \in 1 .. Len(matches[c])}

Found(outcome, fact) == [outcome |-> outcome, fact |-> fact]

(* Whether a clause's predicate can be decided at all: some fact satisfies
   what can be checked of it, and nothing of it cannot be. *)
Undecidable(c) == matches[c] # <<>> /\ pattern.evidence[c].unresolved
Present(c) == matches[c] # <<>> /\ ~pattern.evidence[c].unresolved

(* verify_via_matcher_predicate: a clause not named under an odd number of
   NOTs, named or not, must be present. *)
Verification(c) ==
    CASE matches[c] = <<>> /\ c \in Negative -> Found("verified", NoFact)
      [] matches[c] = <<>> /\ c \notin Negative -> Found("unavailable", NoFact)
      [] Undecidable(c) -> Found("unsupported", NoFact)
      [] Present(c) /\ c \in Negative -> Found("failed", matches[c][1].fact)
      [] Present(c) /\ c \notin Negative /\ cited[c] = NoFact ->
            Found("verified", matches[c][1].fact)
      [] Present(c) /\ c \notin Negative /\ cited[c] \in FactsOf(c) ->
            Found("verified", cited[c])
      [] Present(c) /\ c \notin Negative /\ cited[c] \notin FactsOf(c) \union {NoFact} ->
            Found("failed", cited[c])

Verifying == phase = "clauses" /\ Len(chain) < Len(pattern.evidence)
NextClause == Len(chain) + 1
NextKind == pattern.evidence[NextClause].kind

VerifyClause ==
    /\ Verifying
    /\ registered # {}
    /\ chain' = Append(chain, IF NextKind \in registered THEN Verification(NextClause)
                              ELSE Found("unsupported", NoFact))
    /\ UNCHANGED <<inputs, phase, sequenceOutcome, sameCallOutcome, result>>

(* A registry without any verifier is a configuration error. *)
NoVerifiers ==
    /\ Verifying
    /\ registered = {}
    /\ Fail("UnsupportedVerifier")
    /\ UNCHANGED <<inputs, chain, sequenceOutcome, sameCallOutcome>>

----------------------------------------------------------------------------
(* verify_sequence and verify_same_call, over the facts the chain cites.   *)
(* Two of their branches are unreachable and left out: every clause is in  *)
(* the chain by then, and every fact a chain cites has a producing call.   *)

Confirmed(c) == chain[c].outcome = "verified" /\ chain[c].fact # NoFact

(* Mutant of GroupOutcome: disagreement counts as doubt. *)
GroupOutcomeDoubtful(group, agree) ==
    LET open == {i \in 1 .. Len(group) : ~Confirmed(group[i])}
        first == chain[group[Least(open)]]
    IN  IF open = {} THEN IF agree THEN "verified" ELSE "unsupported"
        ELSE IF first.outcome = "verified" THEN "unsupported" ELSE first.outcome

(* The outcome of a group of clauses: the first clause without a confirmed
   fact decides; a confirmed absence has no place in an order or a call. *)
GroupOutcome(group, agree) ==
    LET open == {i \in 1 .. Len(group) : ~Confirmed(group[i])}
        first == chain[group[Least(open)]]
    IN  IF open = {} THEN IF agree THEN "verified" ELSE "failed"
        ELSE IF first.outcome = "verified" THEN "unsupported" ELSE first.outcome

KeyOf(c) == OrderKey(chain[c].fact)
CallOf(c) == ProducingCall(chain[c].fact)

(* Mutant of KeysInOrder: two steps may not share a call. *)
KeysInOrderStrictly(steps) ==
    \A i \in 1 .. Len(steps) - 1 :
        Confirmed(steps[i]) /\ Confirmed(steps[i + 1]) => KeyOf(steps[i]) < KeyOf(steps[i + 1])

(* The running lower bound never exceeds the next key. *)
KeysInOrder(steps) ==
    \A i \in 1 .. Len(steps) - 1 :
        Confirmed(steps[i]) /\ Confirmed(steps[i + 1]) => KeyOf(steps[i]) <= KeyOf(steps[i + 1])

CallsAgree(members) ==
    \A i \in 1 .. Len(members) - 1 :
        Confirmed(members[i]) /\ Confirmed(members[i + 1]) =>
            CallOf(members[i]) = CallOf(members[i + 1])

VerifySequence ==
    /\ phase = "clauses"
    /\ Len(chain) = Len(pattern.evidence)
    /\ sequenceOutcome' =
            IF pattern.sequence = <<>> THEN Absent
            ELSE GroupOutcome(pattern.sequence, KeysInOrder(pattern.sequence))
    /\ phase' = "same_call"
    /\ UNCHANGED <<inputs, chain, sameCallOutcome, result>>

VerifySameCall ==
    /\ phase = "same_call"
    /\ sameCallOutcome' =
            IF pattern.sameCall = <<>> THEN Absent
            ELSE GroupOutcome(pattern.sameCall, CallsAgree(pattern.sameCall))
    /\ phase' = "aggregate"
    /\ UNCHANGED <<inputs, chain, sequenceOutcome, result>>

----------------------------------------------------------------------------
(* build_result: aggregate_status and compute_confidence.                  *)

VerifiedAmong(clauses) == Cardinality({c \in clauses : chain[c].outcome = "verified"})

(* Mutant of Confidence: the two counters are not kept apart. *)
ConfidenceUnsplit ==
    [required |-> VerifiedAmong(Clauses), optional |-> VerifiedAmong(Clauses)]

(* compute_confidence; the totals are the pattern's. *)
Confidence ==
    [required |-> VerifiedAmong(Required), optional |-> VerifiedAmong(Clauses \ Required)]

GroupOutcomes == {sequenceOutcome, sameCallOutcome}
(* Mutant of Weighed: the groups' outcomes are forgotten. *)
WeighedClausesOnly == {chain[c].outcome : c \in Required}

Weighed == {chain[c].outcome : c \in Required} \union GroupOutcomes

(* Mutant of Status: a contradiction outranks uncertainty. *)
StatusFailedFirst ==
    CASE "failed" \in Weighed -> "ungrounded"
      [] "failed" \notin Weighed /\ Weighed \intersect Uncertain # {} -> "abstain"
      [] Weighed \subseteq {"verified", Absent} -> "grounded"

Status ==
    CASE Weighed \intersect Uncertain # {} -> "abstain"
      [] Weighed \intersect Uncertain = {} /\ "failed" \in Weighed -> "ungrounded"
      [] Weighed \subseteq {"verified", Absent} -> "grounded"

Category(outcome) ==
    CASE outcome = "unavailable" -> "missing fact"
      [] outcome = "unsupported" -> "unresolvable layout"
      [] outcome = "failed" -> "structural mismatch"

(* Mutant of Reasons: contradicted clauses are dropped from the reasons. *)
ReasonsUncertainOnly ==
    {[clause |-> c, category |-> Category(chain[c].outcome)] :
        c \in {d \in Required : chain[d].outcome \in Uncertain}}

(* One reason per required clause that is not verified, and one without a
   clause for a group that is not; kept only when grounding abstains. *)
Reasons ==
    {[clause |-> c, category |-> Category(chain[c].outcome)] :
        c \in {d \in Required : chain[d].outcome # "verified"}}
    \union
    {[clause |-> 0, category |-> "ambiguous attribution"] :
        o \in GroupOutcomes \ {"verified", Absent}}

Aggregate ==
    /\ phase = "aggregate"
    /\ result' = [status |-> Status,
                  reasons |-> IF Status = "abstain" THEN Reasons ELSE {},
                  confidence |-> Confidence]
    /\ phase' = "done"
    /\ UNCHANGED <<inputs, chain, sequenceOutcome, sameCallOutcome>>

(* ground() has returned. *)
Returned == phase \in {"done", "error"} /\ UNCHANGED vars

Next ==
    \/ CheckIdentity \/ CheckBindings \/ AnalyzePolarity
    \/ VerifyClause \/ NoVerifiers
    \/ VerifySequence \/ VerifySameCall \/ Aggregate \/ Returned

Spec == Init /\ [][Next]_vars

----------------------------------------------------------------------------
(* Properties: the result against the trace, not against the chain.        *)

Errors == {"IncompleteTrace", "MissingFacts", "VerificationFailure", "UnsupportedVerifier"}
Statuses == {"grounded", "ungrounded", "abstain"}

TypeOK ==
    /\ pattern \in PatternSet
    /\ matches \in [Clauses -> Seq(Binding)]
    /\ registered \subseteq Kinds
    /\ ownPattern \in BOOLEAN
    /\ cited \in [Clauses -> Citable]
    /\ phase \in {"identity", "bindings", "polarity", "clauses", "same_call",
                  "aggregate", "done", "error"}
    /\ chain \in Seq([outcome : Outcomes, fact : Citable])
    /\ Len(chain) <= Len(pattern.evidence)
    /\ sequenceOutcome \in Outcomes \union {Absent}
    /\ sameCallOutcome \in Outcomes \union {Absent}
    /\ result.status \in Statuses \union Errors \union {"none"}
    /\ result.confidence.required \in 0 .. Cardinality(Required)
    /\ result.confidence.optional \in 0 .. Cardinality(Clauses \ Required)

Checked(c) == pattern.evidence[c].kind \in registered

(* The trace shows what the clause asks: the fact the candidate cites, if it
   cites one, is a match, and an absent fact is absent. *)
Shown(c) ==
    /\ Checked(c)
    /\ IF c \in Negative THEN matches[c] = <<>>
       ELSE Present(c) /\ cited[c] \in FactsOf(c) \union {NoFact}

(* The trace cannot tell. *)
Undecided(c) ==
    ~Checked(c) \/ Undecidable(c) \/ (c \notin Negative /\ matches[c] = <<>>)

Contradicted(c) == ~Shown(c) /\ ~Undecided(c)

(* The fact that stands for a clause in an order or a group. *)
Witness(c) == IF cited[c] = NoFact THEN matches[c][1].fact ELSE cited[c]

Citing(c) == Shown(c) /\ c \notin Negative

Done == phase = "done"

(* No candidate, whatever it claims, is grounded unless the trace shows every
   required clause, and every step of a sequence and member of a same_call
   group with facts in that order and of one call. *)
GroundedIsShown ==
    Done /\ result.status = "grounded" =>
        /\ \A c \in Required : Shown(c)
        /\ \A c \in Elements(pattern.sequence) \union Elements(pattern.sameCall) : Citing(c)
        /\ \A i, j \in 1 .. Len(pattern.sequence) : i < j =>
                OrderKey(Witness(pattern.sequence[i])) <= OrderKey(Witness(pattern.sequence[j]))
        /\ \A c, d \in Elements(pattern.sameCall) :
                ProducingCall(Witness(c)) = ProducingCall(Witness(d))

(* engine.rs: "never upgrade uncertain evidence into a grounded result", nor
   into an ungrounded one, whatever else was contradicted. *)
UncertaintyOutranks ==
    Done /\ (\E c \in Required : Undecided(c)) => result.status = "abstain"

(* A confident negative rests on a contradiction: of a required clause, or of
   a group's clause, or of the order or the common call of its facts. *)
UngroundedIsContradicted ==
    Done /\ result.status = "ungrounded" =>
        \/ \E c \in Required \union Elements(pattern.sequence)
                            \union Elements(pattern.sameCall) : Contradicted(c)
        \/ \E i, j \in 1 .. Len(pattern.sequence) : i < j /\
                OrderKey(Witness(pattern.sequence[i])) > OrderKey(Witness(pattern.sequence[j]))
        \/ \E c, d \in Elements(pattern.sameCall) :
                ProducingCall(Witness(c)) # ProducingCall(Witness(d))

(* An abstention names every required clause that was not shown under the
   category of its cause, a contradicted one too: "no information is lost". *)
AbstentionIsExplained ==
    Done /\ result.status = "abstain" =>
        /\ result.reasons # {}
        /\ \A c \in Required : ~Shown(c) =>
                [clause |-> c,
                 category |-> CASE Contradicted(c) -> "structural mismatch"
                                [] Undecided(c) /\ Checked(c) /\ matches[c] = <<>> ->
                                        "missing fact"
                                [] Undecided(c) /\ (~Checked(c) \/ matches[c] # <<>>) ->
                                        "unresolvable layout"]
                    \in result.reasons

=============================================================================
