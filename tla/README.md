# Rootcause in TLA+

Rootcause takes the execution trace of one transaction and a set of exploit
patterns and says which patterns the trace shows.  A trace document is ingested
into an arena of facts, a pattern is parsed, validated and compiled from its text,
the **matcher** proposes candidates (structural matches) and **grounding** checks
each candidate against the trace and reports `Grounded`, `Ungrounded` or `Abstain`.
A command line keeps a directory of patterns, and a benchmark harness runs a suite.

The engine is sequential: no threads, no messages, nothing persisted but the files
of the command line.  What is hard about it are *long chains of small early returns
whose results are combined*: lists filled in one place and validated in another, ids
that stand for positions, greedy choices never reconsidered, a parser that goes on
after an error, two engines that decide the same questions with separately written
code, and commands that stop half way.  The models are therefore step-by-step models
of the loops, checked against declarative definitions of what the loops should come to.

All paths below are relative to `src/crates/`.

## 1. The system

| Component | State | Operations | Used by | What is hard | What makes it correct |
|---|---|---|---|---|---|
| fact-model `FactArenaBuilder`/`FactArena` (`arena.rs`, `ids.rs`) | four lists; immutable once built | `next_*_id`, `add_*`, `build`, `net_value_extracted` | ingestion builds; matcher and grounding read | ids are handed out before the fact is added, may be used twice or come from another builder; `build` checks in linear passes and compares ids rather than positions; `u16` depths; checked `i128` sums | a built arena is a tree, in topological order if ids are the builder's own, references resolve, nothing well formed is refused |
| fact-model value types (`call.rs`, `log.rs`, `primitives.rs`, ...) | immutable | constructors with local checks, hex parsing | everything | local checks duplicate or contradict those of callers | - |
| ingestion (`pipeline.rs`, `normalize.rs`, `build.rs`) | work stack, accumulator, id tables | `ingest` = load, decode, normalize, build | cli, benchmark-harness | an explicit stack stands for a recursion; storage contexts inherited over it; indices into lists that are still growing | the arena is the document's tree in pre-order, facts keep their call, exactly the well-formed documents pass |
| dsl front end (`lexer.rs`, `parser.rs`) | position, tokens, diagnostics | `tokenize`, `parse` | cli, benchmark-harness | runs ended by loops of their own; recovery after an error in loops inside loops | no file is accepted in part, every token is the text it came from, every turn moves on |
| dsl back end (`schema.rs`, `validate.rs`, `compile.rs`) | diagnostics | `validate`, `compile` | the same | five walks establish what `compile` takes for granted; names become indices, 64-bit literals 32-bit fields | exactly the legal patterns compile, and mean what was written |
| matcher `TraceIndex`, predicates (`index.rs`, `predicate.rs`) | reentrancy set | `build`, `evaluate` | engine, grounding | one pass that relies on the calls' order; comparisons across integer widths; attributes nothing can decide; the final sort | what is selected is what the clause says, in execution order |
| matcher engine (`engine.rs`, `sequence.rs`, `constraint.rs`, `identity.rs`, `ordering.rs`) | per attempt: fixed bindings, lower bound | `find_candidates`, `find_all_matches` | cli, benchmark-harness | greedy choices; groups resolved after them; fallbacks for unmatched leaves; patterns without anchor | candidates are sound; no occurrence is lost or repeated |
| grounding (`engine.rs`, `polarity.rs`, `verifier.rs`, `report.rs`, `status.rs`) | evidence chain, group outcomes | `ground`, `ground_all` | cli, benchmark-harness | precedence of uncertain, failed and verified over clauses *and* groups; polarity; re-deciding order and call identity | see the theorems of section 4 |
| taxonomy | tables | `map`, `map_all` | cli, benchmark-harness | families without an entry | - |
| benchmark-harness (`fixtures.rs`, `runner.rs`, `types.rs`, `metrics.rs`, `report.rs`) | results per case | `load_suite_from_dir`, `run_case`, `run_suite` | cli | a stage that fails for one pattern of a case; outcome precedence; versions ignored in expectations | a suite runs as a whole, a failure costs one pattern, the figures add up |
| cli formatter (`format/`) | none | `format_file` | cli | literals written unescaped | the text parses to the same tree |
| cli commands (`commands/`, `main.rs`, `error.rs`) | files | `analyze`, `benchmark`, `new-pattern`, `validate-pattern`, `format-pattern`, `doctor` | user | files written one by one, any write may fail; all-or-nothing error handling over a library; exit codes | no work is overwritten unasked, an exit code is a verdict |
| converters (`geth.rs`, `bin/geth_convert.rs`) | none | Geth's `callTracer` JSON to the raw schema | user, before `analyze` | a second list of call kinds, defaults for what a tracer leaves out | a trace that converts is one that ingests, unless it nests too deep for the file |

Everything runs by plain calls: `analyze` calls `ingest`, compiles the library, then
`find_all_matches`, then `ground_all`, and stops at the first error of any of them.
`run_case` calls the same functions and goes on after an error.

## 2. Modules

```
FactArena           FactArenaBuilder
  FactArenaProofs   theorems on FactArena
  Ingestion         ingest()                               (INSTANCE FactArena)
    Converter       geth-convert, and ingest() on what it writes
      IngestionProofs theorems on both                     (INSTANCE FactArenaProofs)
Hex                 constant: hexadecimal texts
  Predicates        TraceIndex::build and predicate::evaluate
    PredicatesProofs  theorems on Predicates
Lexer               tokenize
  Parser            parse, over Lexer's tokens
    Syntax          the language, and what lexer and parser promise
      Formatter     format-pattern: parse, print, lex and parse again
Patterns            constant: compiled patterns, the two walks of the constraint tree
  Compilation       validate and compile
    CompilationProofs theorems on Compilation
  Traces            constant: facts, calls, order keys, what a predicate can return
    Matcher         find_candidates, one pattern
      Pipeline      Matcher + Grounding over ground_all    (INSTANCE Grounding)
        PipelineProofs  theorems on Matcher and Pipeline   (INSTANCE GroundingProofs)
    Grounding       GroundingEngine::ground, one candidate
    GroundingProofs   theorems on Grounding
Taxonomy            constant: registry, mappers, tables
  Benchmark         load_suite_from_dir, run_suite, report
  Commands          the command line over a working directory
    CommandsProofs    theorems on Commands and Benchmark (EXTENDS both)
SequenceProofs      lemmas on sequences, for the proof modules
MC<Module>          the instance TLC checks, with MC<Module>.cfg
                    (MCSyntax holds the instance of Formatter)
```

`MCFactArenaOrder.cfg`, `MCSyntaxEscapes.cfg` and `MCCompilationPanic.cfg` each check one
statement of the repository's documentation that the code does not keep (section 5).  Definitions
named after another one (`PermitsBackwards` before `Permits`) are *mutants*: what a
plausible bug would make of it.  For every property of a passing run there is one
that breaks it; no action uses them.

**FactArena.**  `calls`, `storageChanges`, `logs`, `transfers` are the builder's
vectors, kept to the fields that `build` reads.  `AddCall`, `AddStorageChange`,
`AddLog`, `AddTokenTransfer` are the `add_*` methods with any id that has been or
could now be issued (`Issued`) and any id of another builder (`StrayIds`), both for
what a fact refers to and for what a call or a log calls itself: the methods push
what they are given.  `Build` starts `build()`; `Examine`,
`ReturnError` and `EndPass` are its loops (`roots`, `parents`, `storage`, `logs`,
`transfers`, in that order), one item at a time.  Depths are `u16`
(`DepthModulus`), and `OverflowChecks` is the build profile.

**Ingestion.**  A document's calls are numbered and name their children, so the raw
JSON tree is a sequence.  `Load` is load, decode and the header fields;
`VisitCall`, `NormalizeChange`, `ChangesDone`, `NormalizeLog`, `PushChildren`,
`WalkDone` are `walk_tree` with `process_storage_changes` and `process_logs`;
`AddCall` to `NextList` are the four loops of `build.rs`, `ValidateArena` is
FactArena's own `build()`, `ArenaReturns` the `?` after it.  A field that parses or
does not is a Boolean; addresses are values because storage ownership compares them.
The accumulator on an error path is not modelled: the code drops it.

**Converter.**  A tracer's response is numbered like a document; `Convert` reads it,
converts its frames and writes the file, or refuses, or fails to write, and Ingestion
takes the file from there.  Whether the file decodes is not free but a matter of its nesting:
`serde_json` reads objects and arrays 127 deep (`NestingLimit`), a frame takes two
levels, and the file puts the frames two levels deeper than a bare response
(`TooDeepToRead`, `TooDeepToReread`).  The other documents of the run are there from the start.

**Hex, Predicates.**  Texts are sequences of characters, values sequences of bytes,
and `FixedBytes`, `AnyBytes`, `Unsigned` read the one from the other as
`primitives.rs`, `predicate.rs` and `hex_util.rs` do.  In Predicates `Add*` fill an
arena the builder would accept (fact lists one after the other: their order relative
to each other cannot be seen afterwards), `IndexCall` is one turn of
`TraceIndex::build`, `Evaluate` is `evaluate` with its per-kind function, its sort and
its list of attributes that no fact can decide, `Release` the caller's return.  Ids
are 1-based positions.  A number is an integer; what `u128`, `i128` and `i64` do at
their ends is `AsI128` and `Checked`.

**Lexer, Parser, Syntax.**  A source is a sequence of symbols: a character, or a run
of letters or digits, adjacent runs reading as one.  `ReadEof`, `ReadPunctuation`,
`ReadString`, `ReadNumber`, `ReadWord`, `ReadIllegal` are the branches of
`Lexer::run`.  The parser's loops over sections and declarations are actions, one turn
each (`Constraint`, `Sequence`, `SameCall`, `Metadata`, `Declare`, `CloseEvidence`,
`Unexpected`, `Close`); what a turn parses is a function from a token position to an
outcome with the errors reported on the way, recovery included.  `Syntax` defines the
language a second time, by the positions at which a phrase may end, without spans,
recovery or diagnostics.

**Formatter.**  `PrintedBody` and its parts write the text symbol by symbol,
`LeadingEnd` finds the comments kept, `Write` puts the text in the place of the file
and the lexer and parser start over.

**Compilation.**  The five `Validate*` actions are the passes of `validate()`, each
appending all of its diagnostics; `Reject` and `Compile` are what
`compile()` does after it.  Trees are Parser's with numbers for their texts.  `Compile` may
fail an `expect`, which is the stage `"panicked"`.

**Patterns, Traces.**  A clause is its place in the pattern.  A predicate kind only
matters as `transaction` or any other, and whether it names an attribute that no
fact decides.  `Evaluations` is what `predicate::evaluate` can return over *any*
trace: any set of facts in trace order, or the root call with no order key for a
transaction clause (`FactLists`, `WholeTransaction`).  The per-kind comparisons of
payload fields are thereby abstracted to every outcome they could have;
`BindingsInExecutionOrder` of Predicates is what that abstraction takes for granted.

**Matcher.**  `CheckInBounds`, `Evaluate`, `GlobalCandidate`, `StartAttempts` are
`find_candidates` up to its loop over the anchor's matches; one attempt is
`StartAttempt`, `ResolveStep`*, `CheckConstraint`, `TargetFromFixed` or
`TargetFromFirstMember`, `ResolveMember`*, `Emit`, with the early returns
`SequenceFails` and `Abandon`.  `outcomes` records how each attempt ended: it is the
only history variable and no guard reads it.

**Grounding.**  `CheckIdentity`, `CheckBindings`, `AnalyzePolarity`, `VerifyClause`
(or `NoVerifiers`), `VerifySequence`, `VerifySameCall`, `Aggregate`: `ground()` in
order.  `registered` is the verifier registry, which a caller of the library may
have filled in part.  Two defensive branches of the code cannot be taken by a
candidate that passed `CheckBindings` (a resolving fact without an order key or a
producing call) and are left out.

**Pipeline.**  `MatchStep` is any Matcher step, `TakeCandidate`, `GroundStep`,
`Collect`, `GroundingFails` are `ground_all`'s loop around Grounding.  The two
modules share only the trace (`matches`): grounding re-evaluates predicates with the
matcher's function on the same immutable trace, and recomputes everything else.

**Taxonomy, Benchmark.**  The registry is a function from taxonomies to tables.
`LoadCase` reads the directory file by file, `Validate` is the suite's check,
`Ingest`, `Match`, `Ground`, `EndCase` are `run_case`, and `BuildReport` the metrics.
Every stage may answer anything it can: a failure, any number of candidates up to
`MaxCandidates`, any status.  `answers` is a history variable that records what was
answered, so that the properties can say what the report should have made of it.

**Commands.**  `files` is the directory: per name a pattern, two demo traces and two
texts.  One action per command, reports written by `WriteReport`, `new-pattern` one
file at a time by `WriteScaffold`; a write may fail and then leaves the file as it was
or torn (`fs::write` truncates first).  `Edit` is the author between commands.  What
the engine says of a pattern and a trace is a matter of their contents: a trace names
the evidence it has candidates for, and which of them ground; a pattern may have a clause
in both polarities (`contradictory`), which only grounding refuses, or a version the
compiler has no room for (state `"panics"`), which ends `validate-pattern`, `doctor`,
`analyze` and `benchmark` in a panic.  `println!` on a stdout that is gone is one as well
(`"unprinted"`); the release profile unwinds, and the exit status is 101.

## 3. Runs

| Run | Distinct states | Bounds |
|---|---|---|
| FactArena | 10,546,439 | 4 facts with at most 3 calls, depths modulo 3, two stray ids |
| Ingestion | 119,824 | documents of 1-3 calls with 16 kinds of call each, 4 calls and a chain of 5 with 3 kinds, a chain of 6; tracer responses of 1-3 frames with 10 kinds of frame each, chains of 3 to 5, bare and in their envelope; depth limit 4, nesting limit 7, log indices to 8 |
| Predicates | 373,226 | up to 3 calls and 4 facts, words of 1 byte, `i128` ends at 7 |
| Syntax | 301,988 | every text of up to 4 of 12 symbols, 5 files with every single edit of a symbol, pages of 24 columns |
| Compilation | 73,073 | trees with every defect validation knows, `u32` ends at 3 |
| Grounding | 140,832 | 8 patterns of up to 3 clauses, 2 facts in 2 calls and one that does not resolve, every citation, every registry |
| Pipeline | 946,725 | 22 patterns of up to 3 clauses, 4 facts in 3 calls, every selection of facts per clause, the root call as a citable fact, every kind registered |
| Benchmark | 29,122 | directories of 1-3 files, up to 2 candidates of a pattern |
| Commands | 2,197,983 | 2 names, 9 contents of a pattern, 3 of a trace, 3 commands or edits |

*FactArena* asks what a built arena guarantees whatever ids its caller uses.  Four facts are
two calls below a root and one reference, or a root, a call, a log and a transfer: every
reference kind can dangle, every tree error occurs with a successor, and ids can repeat.
With two stray ids a call can name a parent that stands after it and call itself by an id
above that.  Depths modulo 3 leave room for such a pair without wrapping around, and make
the wrap-around of the `u16` happen in a tree that small.

*Ingestion* asks whether the stack walk is the recursion it replaces and whether
its checks add up.  Four calls give every shape in which sibling order, nesting
and return to an ancestor's sibling differ; three calls suffice for a chain of two
delegate calls below a frame with its own context; a depth limit of 4 is exceeded by the
last of six calls in a chain.  With a nesting limit of 7 a bare response of four frames in
a chain is read and its file is not, one of five or one in its envelope is not read, and
one of three is ingested.
`UsesTheBuilder` (`Arena!Spec`) says that ingestion, with its own bookkeeping hidden,
takes only the steps FactArena allows a caller, with no foreign ids.
`ConvertedTracesIngest` says that converter and ingestion agree on what a trace is:
a response is refused, by whichever of the two, only for a fault of its own, or because
the reader of either does not read that deep.

*Predicates* asks whether a predicate selects what its clause says
(`SelectsWhatTheClauseSays`: every attribute stated a second time, fact by fact, by
what a text denotes), whether the index knows which calls are reentrant
(`ReentrancyIsOnTheStack`) and whether bindings come in execution order although the
arena's lists need not (`BindingsInExecutionOrder`).  `NetValueIsNeverWrong` holds
`net_value_extracted` to the true sum, or to no answer.  Three calls are the
smallest chain with an ancestor that is not the parent and the smallest tree with a
sibling; amounts on both sides of `MaxI128` reach every edge of the arithmetic.

*Syntax* asks whether the tokens are the text (`TokensTileTheText`), whether exactly
the language is accepted (`AcceptsTheLanguage`: recovery neither hides an error nor
invents one), whether an accepted tree is the text's (`TreeIsTheText`: each section
token for token the last one of its kind in the text, the metadata every entry in
order) and whether formatting keeps the tree and the opening comments and is done
when done once (`FormatsToTheSame`, for literals that need no escape, see section 5).  `EveryTurnMovesOn` is what ends the
parser: a turn of its loops leaves the position further on or the loop, and with
deadlock checked every text is parsed to its end.  Every short text reaches every
branch of the lexer at a boundary; recovery needs text around an error, which is
what the edits of whole files (removal, insertion, replacement at each place) are for.

*Compilation* asks whether the five walks and the pass after them agree: a pattern
compiles exactly when it is legal as a whole (`CompilesExactlyTheLegal`) and the
indices and numbers of the compiled one mean what the names and literals did
(`CompiledMeansTheSame`, but for a `within` above `u32::MAX`, see section 5).

*Grounding* asks whether the status follows from the trace for *any* candidate, not
just one the matcher makes.  `Shown`, `Undecided` and `Contradicted` are defined on
the trace, not on the evidence chain.

*Pipeline* asks what a candidate promises (`CandidatesSound`), that greedy sequence
resolution loses nothing (`GreedyIsComplete`, quantifying over all assignments) and
that exactly the extendable occurrences are emitted, once each.  Four facts allow two
in one call (equal order keys), one before and one after.  Three steps are where a
greedy choice could block a later step.

Over the same patterns it then asks where the two engines can come apart.  A grounded candidate is a full
occurrence, although grounding never evaluates the constraint and the matcher never
asks for required clauses; a candidate is ungrounded only over something the matcher
does not check, which is a clause wanted absent, a transaction clause after a deeper
step, or `same_call` in a pattern without an anchor (`global_candidate` never looks at
it, section 5); the analysis aborts only over a pattern.  Two of the patterns have no
anchor and a `same_call`, one over clauses wanted absent and one over clauses that the
constraint does not name.

*Benchmark* asks that a directory is run whole or refused (`RunsTheWholeDirectory`),
that a stage that fails for one pattern costs nothing but that pattern's row
(`FailuresStayInTheirPattern`) and that totals, per-family and per-pattern figures
count the same runs (`FiguresBalance`).  Three files allow two cases and one that is
ignored, malformed or a double; two patterns of one id in two versions are in one case.

*Commands* asks what a command may overwrite whichever write fails (`WorkIsKept`),
what an exit status says (`ExitIsTheVerdict`) and what doctor's approval is worth to
`analyze` (`HealthyLibraryAnalyses`): the library loads, and what is left to fail over is a
clause in both polarities, which doctor does not look for.  Three steps are a scaffold, an edit and a check,
or a failed scaffold, its repetition and a check; one of the two names is a reserved
word, and the contents differ in one thing each.

Bounds in the models: `OpenSizes` and `OpenCalls` (FactArena: how many facts an arena may
hold for another one to be added, and how many calls for another call; Ingestion takes the
builder with all of `Nat`, so that nothing but the document bounds it), `MaxFacts` and `MaxCalls` (Predicates, in the guards of `Add*`), `MaxCandidates` (Benchmark), `MaxCommands` (Commands).  Constants of the
code made small: `MaxCallDepth`, `NestingLimit`, `MaxLogIndex`, `DepthModulus`, `MaxI128`, `MaxU32`,
`Columns`.  Deadlock is checked wherever a call that has returned stutters in an
action of its own; not in Benchmark and Commands, where the program ends.

**Fairness.**  Only Ingestion and Converter state any: weak fairness of the next step, one thread that runs
`geth-convert` or `ingest()` and is never suspended for ever; the weakest that lets a sequential program
terminate.  `Returns` needs it to say that the walk ends on every document.  The
other modules are finite sequences of steps whose end is the content of their
properties, and the parser's termination is `EveryTurnMovesOn`.

## 4. Theorems

TLAPS proves these for every value of the constants that satisfies the modules'
`ASSUME`s, which TLC evaluates on the instances of section 3.

| Theorem | States | Of |
|---|---|---|
| `FactArenaProofs!CallTreeCorrect`, `ReferencesCorrect`, `TreeFirst`, `NoFalseRejection` | `BuiltCallTree`, `BuiltReferencesResolve`, `TreeErrorsFirst`, `RejectsOnlyIllFormed` | any number of facts, foreign ids of calls, logs and references, any depth width, both build profiles |
| `IngestionProofs!UsesBuilder` | `UsesTheBuilder` | documents of any number, size and shape |
| `IngestionProofs!NormalizedAlwaysBuilds` | `ArenaTakesIt`, stated there | the same |
| `IngestionProofs!WalkIsPreOrder`, `FactsKept`, `AcceptsExactly` | `CallsInPreOrder`, `FactsKeepTheirCall`, `AcceptsExactlyTheWellFormed` | the same |
| `IngestionProofs!ConvertedIngest` | `ConvertedTracesIngest` | responses of any number, size and shape |
| `IngestionProofs!ConvertedAreDocuments` | the three above and `UsesTheBuilder`, of `ConverterSpec` | documents and responses |
| `PredicatesProofs!ReentrancyIndex`, `ExecutionOrder`, `SelectsExactly`, `NetValues` | `ReentrancyIsOnTheStack`, `BindingsInExecutionOrder`, `SelectsWhatTheClauseSays`, `NetValueIsNeverWrong` | call trees and traces of any size, any predicates and amounts |
| `CompilationProofs!Exactness`, `SameMeaning` | `CompilesExactlyTheLegal`, `CompiledMeansTheSame` | any trees a parser can make |
| `PipelineProofs!Soundness`, `GreedyCompleteness`, `Exactness`, `OncePerOccurrence` | `CandidatesSound`, `GreedyIsComplete`, `EmitsExactlyTheExtendable`, `EachOccurrenceOnce` | any patterns with distinct steps, any selections |
| `GroundingProofs!TypeCorrect`, `GroundingSound`, `UncertaintyWins`, `NegativeIsJustified`, `NoInformationLost` | `TypeOK`, `GroundedIsShown`, `UncertaintyOutranks`, `UngroundedIsContradicted`, `AbstentionIsExplained` | any patterns, traces, candidates, registries |
| `PipelineProofs!GroundedOccurrences`, `UngroundedCandidates`, `Abstentions`, `Aborts` | `GroundedIsAnOccurrence`, `UngroundedOnlyOverAbsence`, `AbstainsOnlyInDoubt`, `AbortsOnlyOverThePattern` | any patterns and selections, through both engines |
| `CommandsProofs!Verdict`, `Work`, `HealthyAnalysis` | `ExitIsTheVerdict`, `WorkIsKept`, `HealthyLibraryAnalyses` | any names, contents and number of commands |
| `CommandsProofs!WholeDirectory`, `FailuresContained`, `FiguresAddUp` | `RunsTheWholeDirectory`, `FailuresStayInTheirPattern`, `FiguresBalance` | any directories, suites and answers of the pipeline |

*FactArenaProofs.*  Type correctness (`TypeCorrect`) is proved along with them.  `PassInv` says of
each pass what the earlier passes and the items before the cursor have established, and
`ErrorInv` keeps the item an error points at.  What the passes establish (`Tree`) is less than
the documentation promises: `build` compares a parent with the id its child *carries*, which is
a comparison of positions only where ids are the builder's own (`IdsAreOwn`), and so only
then do parents come first.  That the calls are nevertheless one tree (`AllUnderTheRoot`) is
`NoneLeftOut`, by the first call outside a set that holds the root and whatever is below what
it holds; where ids are foreign, by the shallowest such call, whose parent is one level above
it unless a depth wrapped around.

*IngestionProofs.*  `Inv` says where every loop of `ingest()` is: the builder's lists are
the accumulator's as far as they have been handed over, ids are positions, and what a
fact names was there when it was gathered.  With FactArenaProofs, instantiated, for the
builder's own invariant, it gives the refinement (`UsesBuilder`).  The rest needs six
more, each inductive relative to `Inv` and those before it.

- `PlanInv` is about the calls visited *followed by the stack read from its top*
  (`Planned`): visiting leaves that list as it is, and pushing children inserts them where
  the call they belong to ends (`Insertion`), so parents precede children, depths grow by
  one and siblings keep their order at every step.  `NormalizedAlwaysBuilds` follows.
- `WalkInv` compares the walk with the recursion it replaces: what is visited, followed by
  the traversal of what is coming, is `PreOrder`.  `Traversal` is a recursive function, so
  that it has a value at every call is a lemma (`TraversalMeans`, one call more at a time
  from the last, `OrdersBefore`), and so is that the traversal of a list is the
  concatenation of its calls' (`TraverseCat`, `TraverseNext`).
- `PlacedInv` says that a pending call carries its own depth and its parent's storage
  context, as `Nesting` and `StorageContext` have them (`NestingDefined`,
  `StorageContextDefined`, the same way), and a visited one has passed its checks.
- `GatherInv` says that the facts gathered are a `Listing` of those of the calls visited:
  of each call as many as the loops have come to, in order, every log index seen once,
  every transfer from its own log.  There is only one listing of the same facts
  (`OneListing`), so it is the flattened document of `FactsKeepTheirCall`.
- `ValueInv` says what `Call::new` has taken, and `RefusedInv` that a refused document is
  not well formed: every early return is traced to the rule it found broken, a duplicate
  log index to two places of the pre-order (`LogRefuses`).

`AcceptsExactly` is both halves of an equivalence: nothing that breaks a rule is ingested,
wherever in the tree it does, and nothing is refused that breaks none.
`ConvertedIngest` reduces the converter to it.  Every invariant above is kept by a step
of `ingest()` whatever the document, so it is enough that they hold when `Convert` has
ended (`Begun`): what it wrote is a document as `decode` leaves one
(`ConvertedIsDocument`), whose depths are those of the frames (`FrameDepths`) and whose
storage contexts are missing just where the root borrows code (`FramesHaveContexts`), and
so it is well formed just when the response has no fault (`WellFormedResponse`), as far as its
file decodes; one nested too deep for that ends in `MalformedInput` before anything is
normalized (`NotDecoded`).  That
the arena has one call per frame is a matter of counting: the calls visited are each call
of the document once (`AsManyCalls`).  Assumed are
`DocumentAssumption` (the calls of a document that decodes are a tree, numbered so that
parents come first, as JSON text nests them; the fields are what `raw.rs` declares),
`ResponsesAssumption` (the same of a response's frames, and types in capitals, as
`geth.rs` lists them), `DepthFits` (`MAX_CALL_DEPTH`, 1024, is below the end of a `u16`)
and that `NoCall` is no position.

*PredicatesProofs.*  The pass over the calls marks one as reentrant when its
target is among those recorded above its parent.  The invariant says
that parents come before children (`ArenaOK`, what the builder accepts) and that for
each call passed the targets recorded are those of its ancestors (`IndexOK`).  `Ancestors` is the least set closed under parents, so the step from a
parent to its child is `AncestorsStep`: the ancestors of a call are its parent and the
parent's.  `ExecutionOrder` is about the list a predicate gives: a selection keeps the
arena's order (`BoundIs`), and the sort, written as one bucket for each order key, keeps
every binding and puts them in order by key and then by place (`ByOrderSorts`), from
which follows the order in which the calls executed, because a binding's key is its
fact's call (`SelectionSortable`).  `SelectsExactly` compares the six `evaluate` functions
with what the attributes mean, attribute by attribute (`CallSelected` and its
siblings): what a parser takes for a value is what spells it (`ParsedIsSpelled`), amounts
that leave the signed type still compare as numbers because no literal reaches its
end (`ComparesNumbers`), and the walk up the parents finds what the
least closed set holds (`AncestorOfKind`, by the least call they would differ at).  `NetValues` follows
`net_value_extracted` call by call: after each, the net is what the calls so far brought in
less what they took out, or nothing (`FlowExact`).  The sums to compare it with are
over sets, which have no order: that the same sum comes of taking out any element first is
`SumInAnyOrder` in SequenceProofs, proved on a smallest set at which it would not.  Assumed are
`QueriesAssumption` (the predicates are those `dsl::validate` passes: the schema's
names, literals of its types, an `i64` below the end of an `i128`), `ShapesAssumption` (values
are arrays of bytes of their width, amounts unsigned) and `NoneAssumption` (`None` is neither a
number nor a predicate).

*SequenceProofs* is what the others need of sequences.  A comprehension in these modules is
a `FlattenSeq` over an index, which is a recursive function and so, unlike
`SelectSeq`, can be reasoned about: that it is the concatenation of its parts in their order
(`FlattenSeqLists`, `FlattenSelected`, `FlattenSeqCat`) is proved from its equation with the
least place at which it would fail.  A fold over a finite set is defined by a `CHOOSE`; that
there is one, and of which type its values are, is `FoldExists` and `FoldTyped`.
A fold from the left is what its steps make it (`StepsExist`), and how many of a list have a
property grows by each that is appended (`NumberInAppend`).  `OneListing` and `OneSelection` say when two lists of
the same places are one.

*CompilationProofs.*  Each pass of `validate()` is exact (`MetadataExact`, `EvidenceExact`,
`ConstraintExact`, `SequenceExact`, `SameCallExact`): what it collects has an error just
when its part of the pattern is illegal.  So the invariant is `PassedIsLegal` against
`ErrorIn(diagnostics)`: there is an error just when a part passed so far is illegal, which
at the end is `Legal`, and a legal pattern meets every `expect()` but the one over its
version (`LegalCompiles`).  `SameMeaning` is about the pattern made.  The value of a
constraint is a recursive function over its nodes, which has a value at every node because
items come before (`DefinedFromBelow`, one node more at a time); the written constraint and
the compiled one then agree at every node, there being no first one at which they could
differ (`SameTruth`: a reference's name holds just when the place it resolves to does,
because names are distinct, `NameHolds`).  A constraint nobody wrote is the conjunction of
the required clauses, or the one there is (`ImplicitTruth`).  `TreesAssumption` is what
`ast.rs` declares and the grammar makes: a constraint is a tree with one item below a NOT,
a section is there once or not at all, an identifier is one word.

*PipelineProofs* first proves the matcher's own theorems, in two layers.  `IInv` follows an attempt: the lower bound is the
greatest order key fixed so far, and no ordered choice of bindings for the steps
resolved is *before* the one made (`ScanOK`).  That is the exchange argument for the
greedy walk: an assignment that agrees with the anchor and is ordered can be no
earlier at any step, so where the walk finds nothing there is nothing, which is
`GreedyCompleteness` and one half of `Exactness`; the other half and `Soundness` are
that what is fixed is never given up (`ResolvedOK`, `MembersOK`) and that `Emit` adds the
rest of the matched leaves.  `Once`, proved on top, says that the attempts so
far are the occurrences up to the cursor, and the candidates those of them that were
emitted, in their order.  `StepsAssumption` is `validate.rs:446-453` (no clause is two
steps); without it the walk would have to choose one binding for two places.
`LeavesAssumption` says that the walk over a constraint ends, which a finite tree's
does.

*GroundingProofs.*  The invariant says that each entry of
the chain is the verification of its clause (`ChainOK`), that the group outcomes are
what the finished chain gives (`GroupsOK`) and that the result is the aggregate
(`ResultOK`).  `EntryMeaning`, `SequenceMeaning` and `SameCallMeaning` then translate
outcomes into statements about the trace; the sequence check compares neighbours, and
`Monotone` (from `MinExists`) makes that an order of all steps.

It then composes the two engines.  The matcher's invariants (`IInv`, `Once`) go on
holding after it returns, because nothing later touches its variables.  A ground step is
a step of module Grounding over the matcher's own `matches`, so GroundingProofs, instantiated for
the patterns whose references are in bounds (`LegalPatterns`, the only ones the matcher
has candidates of), gives `Inv` from one hand-over to the next; the first third of the module says that the
instance's operators are the ones Pipeline uses.  What is new is the hand-over:
`BindingFacts` (a binding's fact satisfies its clause, and its key and call are that
fact's) and `CandidateFacts` (what soundness of a candidate says of the facts it
cites), so that `CitedFacts` translates the matcher's statement about bindings into
grounding's about facts.  `PipelineInv` is the conjunction: stages and phases agree, the
facts under check are those of the current candidate, every earlier candidate resolved.
The meaning lemmas of GroundingProofs then turn a status into a statement about the
trace, and what the matcher already guarantees is struck out of it: that is why only
three ways of being ungrounded and two of being in doubt are left.  It needs
`RootAssumption`, no fact below the root has a smaller order key than the root, which
ingestion provides (positions are order keys and the root is first), and two that say what the constants
stand for.

*CommandsProofs.*  `UnderWay` is the invariant.  `new-pattern` looks at all its paths
before it writes the first, so it must be shown that those it has yet to write are
still free, which holds because no other command runs before it ends and its roles
are distinct; and the verdict a report waits for is still that of the files.
Neither holds across commands, only within one: between them the author edits.
`HealthyAnalysis` is not inductive at all but about one step: `Analyze` lists the
directory anew, and when `Healthy` holds of what it lists, no two patterns in `Library`
share an id, so the grounding looks each candidate's pattern up and finds the one it was matched
against, and refuses it only if that pattern has a clause in both polarities.  `NamesAssumption`: a directory lists a name once.

Its second half is about Benchmark, whose variables (`suiteVars`) and
specification (`SuiteSpec`) share no name with those of Commands.  `LoadInv` follows the loading: the suite so far is
the definitions of the `.json` files read so far, each at its `Rank` among them (how many of
those up to it are `.json` files), and every one was in order.  A file that does not load
ends the run as *refused*, with itself as the fault; at the end the ids are
compared, and since every file has its own place the ids of the suite are distinct just when those of the
files are.  `DirectoriesAssumption` says what every case file that parses has: its arrays are
lists, an entry sets `source`, `file`, both or neither, and what is expected is an outcome.  `RunInv`
says of each case finished, and of the one under way as far as it has come
(`Reporting`), that it fits what was answered: as many results as patterns that did not
fail, the result of a pattern at its rank among those, errors just when a
stage failed.  That a fold of
`strongest` over the statuses is the verdict of their *set* is `OutcomeIsVerdict`.

The figures are one fold over the cases inside which runs a fold over the results of each.
A summary is balanced with the list of results it has counted; the empty one is with the
empty list, and one more result (`ResultStep`), one more case (`CaseStep`) and so all cases
(`ComputeBalances`) keep it so.  Each result changes one entry of the statistics of
patterns and at most one of those of families, so a sum over a column moves by what the entry does
(`SumChanges`), and the same is then shown of matrix and tallies.  `FiguresInv` adds what
this asks of the results, and that their cases have the ids of the suite's.  Those are
distinct (`LoadInv`), which is why as many names as cases can fail (`AsManyNames`).

Only model-checked: Syntax and the formatter (recursive definitions), and the liveness
property `Returns`.
What `Holds` and the leaves of a constraint come to is proved in CompilationProofs.  To the
matcher's and grounding's theorems they are any functions of the constraint: PipelineProofs
expands the walk over it only to see that two instances of it are one.

## 5. Where the code and its documentation disagree

Three statements of the documentation are runs that TLC finds violated.

- `FactArenaOrder`: in a `FactArena` every parent "appears *earlier* in the call list (no forward
  references)" (`fact-model/src/arena.rs:19-20`, and `calls()` in lines 83-87), and `build`
  checks that a call's own id is the one assigned to it (276-279).  `build` never does, and
  compares the parent with that unchecked id (455): a call with an id of another builder gets a
  later parent through.  The crates themselves use ids of one builder only.
- `CompilationPanic`: `compile` (`dsl/src/compile.rs:44`) "does not panic on any
  input".  `validate` asks only for a version of at least 1, and one above `u32::MAX`
  meets the `expect` of line 152.
- `SyntaxEscapes`: the formatter (`cli/src/format/mod.rs:9-11`) guarantees that its
  text parses to the tree it was given.  `quote` (line 191) writes a literal
  unescaped, and one with a quote or a backslash becomes another one or no literal.

What else was met while modelling, and is in the models as the code has it:

- *Numbers.*  `compile.rs:114` drops a `within` above `u32::MAX` with `.ok()`: the
  window is gone and nobody is told.  `validate` passes an attribute whose hex does
  not parse, and the clause then matches nothing (`predicate.rs:243-248`
  says that cannot happen).  `call(kind: Internal)` is legal (`schema.rs:55`) and never
  matches.  `from_str_radix` takes a leading `+` (`hex_util.rs:27,45`).
  `net_value_extracted` and value flows count reverted calls.
- *Fact model.*  Two calls, or two logs, may share an id.  A root of any depth builds.  A static call with a value
  passes `normalize` and fails in `build`, documented as unreachable from input.
- *Ingestion.*  `decode` is `serde_json::from_slice`, which refuses text nested deeper than
  128 levels; a call takes two, so a trace of more than about 60 calls in a chain, which
  the EVM allows, is `MalformedInput`.  `MAX_CALL_DEPTH` is met only by callers of
  `normalize`.  In the model a document decodes or does not, whatever it holds, so both refusals
  are in it.
- *Converter.*  The file `geth-convert` writes nests two levels deeper than a bare response: a
  chain of 64 frames converts and its file is `MalformedInput`.
- *Matching and grounding.*  `same_call` members pinned to different calls by the greedy
  sequence are given up though another choice would agree.  An optional clause decides
  the status when it is a step of the sequence or a member of `same_call`.
  `global_candidate` (`engine.rs:345`), for a pattern whose clauses are all negated, never
  looks at `same_call`, though `engine.rs:191-197` and `PATTERN_AUTHORING_GUIDE.md:97`
  have every member come from one call; such a candidate is then ungrounded.
  A satisfiable constraint is refused as self-contradictory when a clause occurs in both
  polarities: `doctor` passes such a pattern, and the first candidate of it ends `analyze`.  A transaction clause, documented as compatible with any position in a
  sequence, is rejected by grounding after a step in a deeper call.
- *Parser.*  A repeated section replaces the earlier one without a diagnostic
  (`parser.rs:199-224`), whatever follows the closing brace is ignored (245), and
  `parse_bool_expr` recurses as deep as the text nests (450).
- *Formatter.*  Comments inside a pattern and text after it are lost.
  `format-pattern` runs no validation, though `format/mod.rs:6-8` says it does
  separately; `--write` replaces the file by a plain `fs::write`.
- *Scaffold.*  `validate_identifier` accepts reserved words and `--family` is not checked,
  so what `new-pattern` writes may not parse.  After a failing write the files
  written stay, and the same command is refused without `--force`.
- *Panics.*  A version above `u32::MAX` ends every command that compiles the pattern with
  status 101 and no report, `doctor` included, which is there to find such patterns; so does a
  closed stdout (`output.rs`), which is not `OutputWrite`.
- *Exit codes.*  `error.rs:10-24` promises 1 for a pattern or trace path that cannot
  be read; they are reported as `Dsl` and `Ingestion`, which is 2.  `benchmark` exits 0
  whatever the cases came to.  `doctor` compares only the patterns that compile, and
  `load_patterns` does not refuse two of one id and version.
- *Benchmark.*  `expected_for` ignores versions.  A pattern that failed is not scored,
  so recall does not fall; an expectation for a pattern the case does not have is
  ignored.  `strongest` is said never to see `NoMatch` (`types.rs:81-96`); it does.

## 6. Not modelled, and the plan

*Not modelled.*  **Exports** and report rendering write figures that Benchmark checks.  **Argument parsing**, logging, the
file `--output` names, **timings** and the **sample fixtures** (test data).  Of the fact
model, gas and block fields, `Trace::new`'s three equalities (ingestion copies all
sides from one document), rendering and serialisation.  In Benchmark a pattern compiles or does not: a panicking one ends the process before there is a
report, which Commands has as an outcome of `benchmark`.  Two **defensive branches** of
grounding that no candidate reaches (section 2).  Confidence percentages are kept as counts.

*Abstracted.*  Pipeline, Matcher and Grounding take a predicate's result to be any list
of facts in order; Predicates is what justifies that, and what ties both to a trace.  Commands
takes what the engine says of a pattern and a trace from their contents.

*Left of the plan*, most important first:

1. `Candidates` and `Verdict`: abstract specifications of `find_candidates` and `ground`
   with Matcher and Grounding as implementations.
2. Commands over Benchmark: `benchmark` there stands for any outcome a suite can have.
