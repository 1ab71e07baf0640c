------------------------------ MODULE Pipeline ------------------------------
(***************************************************************************)
(* One pattern through the analysis: the matcher finds its candidates,     *)
(* then grounding::ground_all checks them one after another                *)
(* (crates/cli/src/commands/analyze.rs, crates/grounding/src/lib.rs).      *)
(*                                                                         *)
(* The matcher is module Matcher, the grounding engine module Grounding,   *)
(* and a candidate's bindings are what the one hands to the other.  Both   *)
(* evaluate the clauses' predicates in the same immutable trace with the   *)
(* same function, so they share `matches`; what they conclude from it is   *)
(* each one's own.                                                         *)
(***************************************************************************)
EXTENDS Matcher

CONSTANTS
    Kinds,  \* the predicate kinds; the default registry verifies them all
    NoFact  \* no fact cited

ASSUME KindAssumption ==
    \A p \in PatternSet : \A c \in 1 .. Len(p.evidence) : p.evidence[c].kind \in Kinds
ASSUME NoFactAssumption == NoFact \notin Facts \union {RootFact}

(* The arena's first call is the root: no fact is produced by an earlier one. *)
ASSUME RootAssumption == RootFact.call = 0

VARIABLES
    stage,           \* of the analysis
    current,         \* the candidate under way
    registered,      \* the kinds verified: the default registry's, all of them
    ownPattern,      \* ground_all looks the candidate's own pattern up
    cited,           \* its facts, clause by clause
    groundPhase,     \* where ground() is, or "idle" between candidates
    chain, sequenceOutcome, sameCallOutcome, result,
    results          \* what ground_all has collected

groundVars == <<registered, ownPattern, cited, groundPhase, chain, sequenceOutcome, sameCallOutcome, result>>
allVars == <<vars, stage, current, groundVars, results>>

G == INSTANCE Grounding WITH phase <- groundPhase, StrayFacts <- {}

PipelineInit ==
    /\ Init
    /\ stage = "matching"
    /\ current = 1
    /\ registered = Kinds /\ ownPattern = TRUE
    /\ cited = <<>> /\ groundPhase = "idle"
    /\ chain = <<>> /\ sequenceOutcome = G!Absent /\ sameCallOutcome = G!Absent
    /\ result = G!NoResult
    /\ results = <<>>

MatchStep ==
    /\ stage = "matching"
    /\ phase \notin {"done", "failed"}
    /\ Next
    /\ UNCHANGED <<stage, current, groundVars, results>>

(* find_all_matches has returned: `?` ends the analysis on an error. *)
MatchingReturns ==
    /\ stage = "matching"
    /\ \/ phase = "done" /\ stage' = "grounding"
       \/ phase = "failed" /\ stage' = "aborted"
    /\ UNCHANGED <<vars, current, groundVars, results>>

(* candidate.fact_for(evidence), for every clause. *)
FactFor(candidate) ==
    [c \in Clauses |-> IF c \in DOMAIN candidate THEN candidate[c].fact ELSE NoFact]

TakeCandidate ==
    /\ stage = "grounding" /\ groundPhase = "idle"
    /\ current <= Len(candidates)
    /\ cited' = FactFor(candidates[current])
    /\ groundPhase' = "identity"
    /\ chain' = <<>> /\ sequenceOutcome' = G!Absent /\ sameCallOutcome' = G!Absent
    /\ result' = G!NoResult
    /\ UNCHANGED <<vars, stage, current, registered, ownPattern, results>>

GroundStep ==
    /\ stage = "grounding"
    /\ groundPhase \notin {"idle", "done", "error"}
    /\ G!Next
    /\ UNCHANGED <<vars, stage, current, results>>

Collect ==
    /\ stage = "grounding" /\ groundPhase = "done"
    /\ results' = Append(results, result)
    /\ current' = current + 1
    /\ groundPhase' = "idle"
    /\ UNCHANGED <<vars, stage, registered, ownPattern, cited, chain,
                   sequenceOutcome, sameCallOutcome, result>>

(* The first error ends ground_all: what it had collected is dropped. *)
GroundingFails ==
    /\ stage = "grounding" /\ groundPhase = "error"
    /\ stage' = "aborted"
    /\ results' = <<>>
    /\ UNCHANGED <<vars, current, groundVars>>

Report ==
    /\ stage = "grounding" /\ groundPhase = "idle"
    /\ current > Len(candidates)
    /\ stage' = "reported"
    /\ UNCHANGED <<vars, current, groundVars, results>>

(* analyze has returned. *)
AnalysisReturned == stage \in {"reported", "aborted"} /\ UNCHANGED allVars

PipelineNext ==
    \/ MatchStep \/ MatchingReturns
    \/ TakeCandidate \/ GroundStep \/ Collect \/ GroundingFails
    \/ Report \/ AnalysisReturned

PipelineSpec == PipelineInit /\ [][PipelineNext]_allVars

----------------------------------------------------------------------------
(* Properties of the two engines together.                                 *)

Grounded(status) == groundPhase = "done" /\ result.status = status

Grouped == Elements(Sequence) \union Members
Weighty == G!Required \union Grouped
SpansTheTransaction(c) == pattern.evidence[c].kind = "transaction"

(* A grounded candidate of the matcher is an occurrence of the pattern: its
   constraint holds, which grounding never evaluates; every required clause is
   shown by the trace, which the matcher never asks for; every fact it cites
   satisfies its clause, the anchor's among them; and the steps and members are
   in order and of one call. *)
GroundedIsAnOccurrence ==
    Grounded("grounded") =>
        /\ Holds(pattern.constraint, MatchedClauses)
        /\ \A c \in Weighty : G!Shown(c)
        /\ \A c \in Clauses : cited[c] \in G!FactsOf(c) \union {NoFact}
        /\ HasAnchor => cited[Anchor] # NoFact
        /\ \A i, j \in 1 .. Len(Sequence) : i < j =>
                OrderKey(cited[Sequence[i]]) <= OrderKey(cited[Sequence[j]])
        /\ \A c, d \in Members : ProducingCall(G!Witness(c)) = ProducingCall(G!Witness(d))

(* Grounding contradicts the matcher only over something the matcher does not
   check: a clause the pattern wants absent; the transaction as a whole as a
   step after one that ran below the root call; or same_call, which
   global_candidate never looks at, in a pattern without an anchor.  The two
   orders and the two notions of one call never come apart on a fact. *)
UngroundedOnlyOverAbsence ==
    Grounded("ungrounded") =>
        \/ \E c \in Weighty : c \in G!Negative /\ matches[c] # <<>>
        \/ \E i, j \in 1 .. Len(Sequence) :
                /\ i < j /\ SpansTheTransaction(Sequence[j])
                /\ OrderKey(cited[Sequence[i]]) > OrderKey(RootFact)
        \/ /\ ~HasAnchor
           /\ \E c, d \in Members : ProducingCall(G!Witness(c)) # ProducingCall(G!Witness(d))

(* Grounding abstains from a candidate of the matcher only because a required
   or grouped clause cannot be decided from the trace, or because a pattern
   without an anchor asks for the call of a clause it wants absent. *)
AbstainsOnlyInDoubt ==
    Grounded("abstain") =>
        \/ \E c \in Weighty : G!Undecided(c)
        \/ ~HasAnchor /\ \E c \in Members \intersect G!Negative : matches[c] = <<>>

(* The analysis aborts only on a pattern that is itself refused: the matcher
   never hands over a candidate that does not resolve in the trace. *)
AbortsOnlyOverThePattern ==
    stage = "aborted" =>
        \/ ~ References(pattern) \subseteq Clauses
        \/ G!Positive \intersect G!Negative # {}

=============================================================================
