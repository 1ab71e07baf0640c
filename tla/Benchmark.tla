------------------------------ MODULE Benchmark ------------------------------
(***************************************************************************)
(* The benchmark harness (crates/benchmark-harness/src): a directory of    *)
(* case definitions is loaded into a suite (fixtures.rs), every case is    *)
(* run through ingestion, matching, grounding and taxonomy mapping         *)
(* (runner.rs), and the results are reduced to a report (metrics.rs,       *)
(* report.rs).                                                             *)
(*                                                                         *)
(* What ingestion, the matcher and grounding answer is left open: each may *)
(* fail, and grounding may give any status to any candidate.               *)
(***************************************************************************)
EXTENDS Integers, Sequences, FiniteSets, SequencesExt, Taxonomy

CONSTANTS
    Nothing,        \* Option::None
    Directories,    \* directories: Seq of files, by name
    MaxCandidates   \* model bound: candidates of one pattern in one trace

ASSUME CandidatesAssumption == MaxCandidates \in Nat

(* What PatternOutcome may be. *)
Outcomes == {"Grounded", "Abstain", "Ungrounded", "NoMatch"}

(* A file is [json, definition]: whether its name ends in .json, and Nothing or
   [id, patterns, expected].  An entry of patterns is [set, pattern]: which of
   source and file it sets, and Nothing (unreadable, or does not compile) or
   [id, version, family].  An expectation is [id, outcome]. *)
IsList(list) == list \in Seq(ToSet(list))
Listing(files) ==
    /\ IsList(files)
    /\ \A i \in DOMAIN files :
            /\ files[i].json \in BOOLEAN
            /\ files[i].definition # Nothing =>
                    /\ IsList(files[i].definition.patterns)
                    /\ \A k \in DOMAIN files[i].definition.patterns :
                            files[i].definition.patterns[k].set \in
                                {"source", "file", "both", "neither"}
                    /\ IsList(files[i].definition.expected)
                    /\ \A k \in DOMAIN files[i].definition.expected :
                            files[i].definition.expected[k].outcome \in Outcomes

ASSUME DirectoriesAssumption == \A files \in Directories : Listing(files)
ASSUME NothingAssumption == Nothing \notin Outcomes

VARIABLES
    directory,      \* the files of the suite's directory, sorted by name
    loaded,         \* how many of them load_suite_from_dir has read
    suite,          \* the cases loaded: [id, patterns, expected]
    phase,          \* "load", "run", "done" or "refused"
    results,        \* Seq of case results: [id, results, errors]
    stage,          \* of the case under way: "ingest", "match" or "ground"
    done,           \* its patterns that have been dealt with
    candidates,     \* candidates of the pattern under way
    current,        \* its pattern results and errors so far
    report,         \* the report, or Nothing
    answers         \* history: what the pipeline answered, case by case

suiteVars == <<directory, loaded, suite, phase, results, stage, done, candidates,
               current, report, answers>>

GroundingStatuses == Outcomes \ {"NoMatch"}
EmptyCase == [results |-> <<>>, errors |-> 0]

SuiteInit ==
    /\ directory \in Directories
    /\ loaded = 0 /\ suite = <<>> /\ phase = "load" /\ results = <<>>
    /\ stage = "ingest" /\ done = 0 /\ candidates = 0 /\ current = EmptyCase
    /\ report = Nothing /\ answers = <<>>

running == <<results, stage, done, candidates, current, report, answers>>

----------------------------------------------------------------------------
(* load_suite_from_dir, load_case.                                          *)

(* Mutant of ExactlyOne: an entry with both is taken. *)
AtLeastOne(entry) == entry.set \in {"source", "file", "both"}
ExactlyOne(entry) == entry.set \in {"source", "file"}

Loads(definition) ==
    /\ definition # Nothing
    /\ \A i \in DOMAIN definition.patterns :
            ExactlyOne(definition.patterns[i]) /\ definition.patterns[i].pattern # Nothing

Case(definition) ==
    [id |-> definition.id, expected |-> definition.expected,
     patterns |-> [i \in DOMAIN definition.patterns |-> definition.patterns[i].pattern]]

(* One file: not a definition, a case, or the end of the whole suite. *)
LoadCase ==
    /\ phase = "load" /\ loaded < Len(directory)
    /\ loaded' = loaded + 1
    /\ LET file == directory[loaded + 1]
       IN  \/ /\ ~file.json
              /\ UNCHANGED <<suite, phase>>
           \/ /\ file.json /\ Loads(file.definition)
              /\ suite' = Append(suite, Case(file.definition))
              /\ UNCHANGED phase
           \/ /\ file.json /\ ~Loads(file.definition)
              /\ phase' = "refused" /\ UNCHANGED suite
    /\ UNCHANGED <<directory, running>>

(* BenchmarkSuite::validate. *)
DistinctIds(cases) ==
    \A i, j \in DOMAIN cases : i # j => cases[i].id # cases[j].id

(* run_suite starts. *)
Validate ==
    /\ phase = "load" /\ loaded = Len(directory)
    /\ phase' = IF DistinctIds(suite) THEN "run" ELSE "refused"
    /\ UNCHANGED <<directory, loaded, suite, running>>

----------------------------------------------------------------------------
(* run_case.                                                                *)

Now == suite[Len(results) + 1]
InCase(where) == phase = "run" /\ Len(results) < Len(suite) /\ stage = where
Pattern == Now.patterns[done + 1]

(* expected_for: by id alone, the first that fits. *)
ExpectedFor(expected, id) ==
    LET fitting == {i \in DOMAIN expected : expected[i].id = id}
    IN  IF fitting = {} THEN Nothing ELSE expected[Min(fitting)].outcome

(* PatternOutcome::strongest. *)
Strongest(one, other) ==
    IF "Grounded" \in {one, other} THEN "Grounded"
    ELSE IF "Abstain" \in {one, other} THEN "Abstain"
    ELSE IF one = "NoMatch" THEN other ELSE one

Result(pattern, statuses) ==
    [id |-> pattern.id, version |-> pattern.version, count |-> Len(statuses),
     actual |-> FoldLeft(Strongest, "NoMatch", statuses),
     expected |-> ExpectedFor(Now.expected, pattern.id),
     statuses |-> statuses,
     taxonomy |-> MapAll(DefaultRegistry, pattern.family, statuses)]

(* For the history: what became of the pattern under way. *)
Answered(failed, statuses) ==
    answers' = [answers EXCEPT ![Len(answers)].patterns =
                    Append(@, [failed |-> failed, statuses |-> statuses])]

(* Without a trace no pattern runs; the error is the case's result. *)
Ingest ==
    /\ InCase("ingest")
    /\ \/ /\ stage' = "match"
          /\ answers' = Append(answers, [trace |-> TRUE, patterns |-> <<>>])
          /\ UNCHANGED results
       \/ /\ results' = Append(results, [id |-> Now.id, results |-> <<>>, errors |-> 1])
          /\ answers' = Append(answers, [trace |-> FALSE, patterns |-> <<>>])
          /\ UNCHANGED stage
    /\ UNCHANGED <<directory, loaded, suite, phase, done, candidates, current, report>>

(* Mutant of AfterError: the case ends at the first pattern that fails. *)
AfterErrorStop == Len(Now.patterns)

(* continue: the pattern is skipped, the case goes on. *)
AfterError == done + 1

Match ==
    /\ InCase("match") /\ done < Len(Now.patterns)
    /\ \/ /\ done' = AfterError
          /\ current' = [current EXCEPT !.errors = @ + 1]
          /\ Answered(TRUE, <<>>)
          /\ UNCHANGED <<stage, candidates>>
       \/ /\ done' = done + 1
          /\ current' = [current EXCEPT !.results = Append(@, Result(Pattern, <<>>))]
          /\ Answered(FALSE, <<>>)
          /\ UNCHANGED <<stage, candidates>>
       \/ /\ candidates' \in 1 .. MaxCandidates
          /\ stage' = "ground"
          /\ UNCHANGED <<done, current, answers>>
    /\ UNCHANGED <<directory, loaded, suite, phase, results, report>>

(* ground_all over the candidates of this pattern, and map_all. *)
Ground ==
    /\ InCase("ground")
    /\ \/ /\ done' = AfterError
          /\ current' = [current EXCEPT !.errors = @ + 1]
          /\ Answered(TRUE, <<>>)
       \/ \E statuses \in [1 .. candidates -> GroundingStatuses] :
            /\ done' = done + 1
            /\ current' = [current EXCEPT !.results = Append(@, Result(Pattern, statuses))]
            /\ Answered(FALSE, statuses)
    /\ stage' = "match" /\ candidates' = 0
    /\ UNCHANGED <<directory, loaded, suite, phase, results, report>>

EndCase ==
    /\ InCase("match") /\ done = Len(Now.patterns)
    /\ results' = Append(results, [id |-> Now.id, results |-> current.results,
                                   errors |-> current.errors])
    /\ stage' = "ingest" /\ done' = 0 /\ current' = EmptyCase
    /\ UNCHANGED <<directory, loaded, suite, phase, candidates, report, answers>>

----------------------------------------------------------------------------
(* metrics::compute and BenchmarkReport::build.                             *)

(* PatternResult::matches_expectation, unscored results counting as passed,
   and CaseResult::passed. *)
Reached(r) == r.expected = Nothing \/ r.expected = r.actual
Passed(case) ==
    case.errors = 0 /\ \A i \in DOMAIN case.results : Reached(case.results[i])

EmptyMatrix == [pair \in Outcomes \X Outcomes |-> 0]
Recorded(matrix, r) ==
    IF r.expected = Nothing THEN matrix
    ELSE [matrix EXCEPT ![<<r.expected, r.actual>>] = @ + 1]

(* BenchmarkMetrics::record: Grounded is the positive class. *)
NoMetrics == [tp |-> 0, fp |-> 0, fn |-> 0, tn |-> 0]
Tallied(m, r) ==
    CASE r.expected = Nothing -> m
      [] r.expected = "Grounded" /\ r.actual = "Grounded" -> [m EXCEPT !.tp = @ + 1]
      [] r.expected \notin {Nothing, "Grounded"} /\ r.actual = "Grounded" -> [m EXCEPT !.fp = @ + 1]
      [] r.expected = "Grounded" /\ r.actual # "Grounded" -> [m EXCEPT !.fn = @ + 1]
      [] OTHER -> [m EXCEPT !.tn = @ + 1]

(* Mutant of PlaceOf: the entry last made is used again. *)
LastPlace(list, key) == IF list = <<>> THEN 1 ELSE Len(list)

(* The place of a key in a list in first-seen order, or the one after its end. *)
PlaceOf(list, key) ==
    IF \E i \in DOMAIN list : list[i].key = key
    THEN CHOOSE i \in DOMAIN list : list[i].key = key
    ELSE Len(list) + 1

NewStats(key) == [key |-> key, runs |-> 0, passed |-> 0, candidates |-> 0,
                  confusion |-> EmptyMatrix]
WithRun(list, key, r) ==
    LET i == PlaceOf(list, key)
        grown == IF i > Len(list) THEN Append(list, NewStats(key)) ELSE list
    IN  [grown EXCEPT ![i].runs = @ + 1,
                      ![i].passed = @ + (IF Reached(r) THEN 1 ELSE 0),
                      ![i].candidates = @ + r.count,
                      ![i].confusion = Recorded(@, r)]

(* One pattern result.  The family comes from its first grounding result, and
   only scored results with one count for a family. *)
WithResult(summary, case, r) ==
    [summary EXCEPT
        !.confusion = Recorded(@, r),
        !.overall = Tallied(@, r),
        !.perPattern = WithRun(@, r.id, r),
        !.perFamily = IF r.expected = Nothing \/ r.statuses = <<>> THEN @
                      ELSE WithRun(@, r.taxonomy[1].family, r),
        !.failures = IF Reached(r) THEN @
                     ELSE Append(@, [case |-> case.id, pattern |-> r.id])]

WithCase(summary, case) ==
    LET noted == IF case.errors = 0 THEN summary
                 ELSE [summary EXCEPT !.failures =
                            Append(@, [case |-> case.id, pattern |-> Nothing])]
    IN  FoldLeft(LAMBDA s, r : WithResult(s, case, r), noted, case.results)

Compute(list) ==
    FoldLeft(WithCase,
             [confusion |-> EmptyMatrix, overall |-> NoMetrics, perPattern |-> <<>>,
              perFamily |-> <<>>, failures |-> <<>>], list)

BuildReport ==
    /\ phase = "run" /\ Len(results) = Len(suite)
    /\ phase' = "done"
    /\ report' = [metrics |-> Compute(results),
                  casesRun |-> Len(results),
                  casesErrored |-> Cardinality({i \in DOMAIN results : results[i].errors > 0}),
                  casesPassed |-> Cardinality({i \in DOMAIN results : Passed(results[i])})]
    /\ UNCHANGED <<directory, loaded, suite, results, stage, done, candidates,
                   current, answers>>

SuiteNext == LoadCase \/ Validate \/ Ingest \/ Match \/ Ground \/ EndCase \/ BuildReport

SuiteSpec == SuiteInit /\ [][SuiteNext]_suiteVars

----------------------------------------------------------------------------
(* Properties.                                                              *)

(* How many of the first n in a list are among the chosen: where the n-th of the
   list, if it is one of them, is in the list of the chosen alone. *)
Rank(chosen, n) == Cardinality({i \in 1 .. n : i \in chosen})

JsonFiles == {i \in DOMAIN directory : directory[i].json}

(* A suite is run only as a whole: when cases run, they are the definitions of
   all .json files in the order of their names, with distinct ids and every
   pattern compiled, and it is refused when any one of them is not in order
   (load_suite_from_dir, load_case, BenchmarkSuite::validate). *)
RunsTheWholeDirectory ==
    LET definition(i) == directory[i].definition
        sound == /\ \A i \in JsonFiles : definition(i) # Nothing
                 /\ \A i, j \in JsonFiles : i # j => definition(i).id # definition(j).id
                 /\ \A i \in JsonFiles : \A k \in DOMAIN definition(i).patterns :
                        LET entry == definition(i).patterns[k]
                        IN  entry.pattern # Nothing /\ entry.set \notin {"both", "neither"}
    IN  /\ phase = "refused" => ~sound
        /\ phase \in {"run", "done"} =>
                /\ sound
                /\ Len(suite) = Cardinality(JsonFiles)
                /\ \A i \in JsonFiles :
                        suite[Rank(JsonFiles, i)].id = definition(i).id

(* The verdict over a set of statuses, whatever their order. *)
VerdictOver(statuses) ==
    CASE "Grounded" \in statuses -> "Grounded"
      [] "Grounded" \notin statuses /\ "Abstain" \in statuses -> "Abstain"
      [] statuses = {"Ungrounded"} -> "Ungrounded"
      [] statuses = {} -> "NoMatch"

(* A stage that fails for one pattern costs that pattern's result and nothing
   else: the case reports every other pattern, in order, with the strongest of
   the statuses its own candidates reached and a taxonomy report for each, and
   names an error exactly when some stage failed (run_case). *)
FailuresStayInTheirPattern ==
    \A c \in DOMAIN results :
        LET case == results[c]
            answer == answers[c]
            kept == {i \in DOMAIN answer.patterns : ~answer.patterns[i].failed}
        IN  /\ answer.trace => Len(answer.patterns) = Len(suite[c].patterns)
            /\ case.errors > 0 <=>
                    ~answer.trace \/ \E i \in DOMAIN answer.patterns : answer.patterns[i].failed
            /\ Len(case.results) = Cardinality(kept)
            /\ \A i \in kept :
                    LET r == case.results[Rank(kept, i)]
                        statuses == answer.patterns[i].statuses
                    IN  /\ r.id = suite[c].patterns[i].id
                        /\ r.version = suite[c].patterns[i].version
                        /\ r.actual = VerdictOver({statuses[k] : k \in DOMAIN statuses})
                        /\ r.count = Len(statuses)
                        /\ [k \in DOMAIN r.taxonomy |-> r.taxonomy[k].status] = statuses

AllResults == FlattenSeq([c \in DOMAIN results |-> results[c].results])
Count(Test(_)) == Cardinality({k \in DOMAIN AllResults : Test(AllResults[k])})
Scored(r) == r.expected # Nothing

(* The figures of a report agree with one another and with the results: each
   scored result is in one cell of the overall matrix, in one of the four
   tallies and in its own pattern's statistics, and nothing else is; and a case
   passes exactly when the list of failures does not name it, whichever way it
   failed (metrics::compute, CaseResult::passed). *)
FiguresBalance ==
    phase = "done" =>
        LET m == report.metrics
            named == {m.failures[i].case : i \in DOMAIN m.failures}
        IN  /\ \A c \in DOMAIN results : results[c].id \in named <=> ~Passed(results[c])
            /\ report.casesPassed = Len(results) - Cardinality(named)
            /\ \A pair \in Outcomes \X Outcomes :
                    /\ m.confusion[pair] = Count(LAMBDA r : <<r.expected, r.actual>> = pair)
                    /\ m.confusion[pair] = SumFunction(
                        [i \in DOMAIN m.perPattern |-> m.perPattern[i].confusion[pair]])
            /\ m.overall.tp + m.overall.fn = Count(LAMBDA r : r.expected = "Grounded")
            /\ m.overall.tp + m.overall.fp = Count(LAMBDA r : Scored(r) /\ r.actual = "Grounded")
            /\ m.overall.tp + m.overall.fp + m.overall.fn + m.overall.tn = SumFunction(m.confusion)
            /\ \A i \in DOMAIN m.perPattern :
                    LET Own(r) == r.id = m.perPattern[i].key
                    IN  /\ m.perPattern[i].runs = Count(Own) /\ m.perPattern[i].runs > 0
                        /\ m.perPattern[i].passed = Count(LAMBDA r : Own(r) /\ Reached(r))
                        /\ SumFunction(m.perPattern[i].confusion) = Count(LAMBDA r : Own(r) /\ Scored(r))
            /\ SumFunction([i \in DOMAIN m.perFamily |-> m.perFamily[i].runs]) =
                    Count(LAMBDA r : Scored(r) /\ r.count > 0)
=============================================================================
