------------------------------ MODULE Commands ------------------------------
(***************************************************************************)
(* The rootcause command line (crates/cli/src) over a working directory:   *)
(* the pattern library, its demo traces and what new-pattern scaffolds.    *)
(* Commands run one at a time, and between them the author edits files.    *)
(* A write may fail, and then the file is as it was or torn.               *)
(*                                                                         *)
(* What the engine says of a pattern and a trace is in their contents: a   *)
(* trace names the evidence for which there is a candidate, and that for   *)
(* which the candidate is grounded as well.                                *)
(***************************************************************************)
EXTENDS Integers, Sequences, FiniteSets, SequencesExt, Taxonomy

CONSTANTS
    None,         \* no such file, no such option
    Names,        \* Seq of the names a pattern may have, in their order
    Identifiers,  \* the names and families that are identifiers
    Reserved,     \* those that are words of the language
    Contents,     \* what an author writes into a pattern file
    DemoTraces,   \* and into a demo trace
    Families,     \* the families --family may name
    Workspaces,   \* what the files may hold at first
    MaxCommands   \* model bound: commands and edits of a behaviour

(* A pattern's content is [state, id, version, family, evidence, contradictory,
   canonical, plain]: "good", "invalid" (refused by validation), "panics" (not
   refused, but its version is more than the compiler has room for), "unparsed"
   or "unreadable"; what it looks for; whether its constraint has a clause in both
   polarities, which only grounding refuses; whether it is in the formatter's
   layout, and whether no literal of it needs an escape.  A trace's content is
   [ingests, matches, grounds], both sets of evidence. *)

Stems == ToSet(Names)
Roles == <<"pattern", "positive", "negative", "readme", "note">>
Paths == Stems \X ToSet(Roles)

VARIABLES
    files,     \* what each path holds, or None
    now,       \* the command under way, or None
    last,      \* the command that has ended, until the next step
    commands   \* how many commands and edits there have been

vars == <<files, now, last, commands>>

(* A directory lists a name once. *)
ASSUME NamesAssumption ==
    Names \in Seq(Stems) /\ \A i, j \in DOMAIN Names : Names[i] = Names[j] => i = j
ASSUME WorkspacesAssumption == \A w \in Workspaces : DOMAIN w = Paths

Blank == [state |-> "unparsed", id |-> None, version |-> 0, family |-> None,
          evidence |-> None, contradictory |-> FALSE, canonical |-> FALSE, plain |-> TRUE]
Torn(path) ==
    CASE path[2] = "pattern" -> Blank
      [] path[2] \in {"positive", "negative"} ->
            [ingests |-> FALSE, matches |-> {}, grounds |-> {}]
      [] OTHER -> "text"

Init ==
    /\ files \in Workspaces
    /\ now = None /\ last = None /\ commands = 0

(* What can be in a path by an author's hand. *)
Authored(path) ==
    CASE path[2] = "pattern" -> Contents
      [] path[2] \in {"positive", "negative"} -> DemoTraces
      [] OTHER -> {"text"}

Idle == now = None /\ commands < MaxCommands

Edit ==
    /\ Idle
    /\ \E path \in Paths : \E content \in Authored(path) \union {None} :
            files' = [files EXCEPT ![path] = content]
    /\ commands' = commands + 1 /\ last' = None
    /\ UNCHANGED now

(* CliError::exit_code; main returns 0 when there is none, and a panic unwinds. *)
ExitCode(kind) ==
    CASE kind = "none" -> 0
      [] kind \in {"Usage", "InputPath", "ChecksFailed"} -> 1
      [] kind \in {"Dsl", "Ingestion", "Matcher", "Grounding", "Benchmark", "Export"} -> 2
      [] kind = "OutputWrite" -> 3
      [] kind \in {"panic", "unprinted"} -> 101

(* How a command ended; delivered: its report has been written. *)
Ending(command, name, kind, delivered, findings) ==
    [command |-> command, name |-> name, exit |-> ExitCode(kind), kind |-> kind,
     delivered |-> delivered, findings |-> findings]

Ended(command, name, kind, delivered, findings) ==
    /\ now' = None
    /\ last' = Ending(command, name, kind, delivered, findings)

(* None is a value of its own. *)
ASSUME NoneAssumption ==
    \A name \in Stems, kind \in {"none", "OutputWrite"} :
        Ending("format-pattern --write", name, kind, FALSE, <<>>) # None

(* A command has its report, and (in order) whether its checks passed. *)
Reports(command, name, inOrder, findings) ==
    /\ now' = [command |-> command, name |-> name, step |-> 0, force |-> FALSE,
               family |-> None, inOrder |-> inOrder, findings |-> findings]
    /\ last' = None

Ends(command, name, kind) == Ended(command, name, kind, FALSE, <<>>)

Starts == Idle /\ commands' = commands + 1

(* A mutant of Conclude: the checks are judged before the report is written. *)
ConcludeChecksFirst(written) ==
    IF ~now.inOrder THEN Ends(now.command, now.name, "ChecksFailed")
    ELSE Ended(now.command, now.name, IF written THEN "none" ELSE "OutputWrite",
               written, now.findings)

Conclude(written) ==
    Ended(now.command, now.name,
          IF ~written THEN "OutputWrite" ELSE IF now.inOrder THEN "none" ELSE "ChecksFailed",
          written, now.findings)

(* write_report, to stdout or to --output, and what main does after it; println!
   panics where stdout is gone. *)
WriteReport ==
    /\ now # None /\ now.step = 0
    /\ \/ \E written \in BOOLEAN : Conclude(written)
       \/ Ends(now.command, now.name, "unprinted")
    /\ UNCHANGED <<files, commands>>

----------------------------------------------------------------------------
(* new-pattern.                                                             *)

(* The starter pattern and the starter traces, of one external call each. *)
Scaffold(name, family) ==
    [pattern |-> [state |-> IF {name, family} \subseteq Identifiers \ Reserved
                             THEN "good" ELSE "unparsed",
                  id |-> name, version |-> 1, family |-> family, evidence |-> "any call",
                  contradictory |-> FALSE, canonical |-> TRUE, plain |-> TRUE],
     positive |-> [ingests |-> TRUE, matches |-> {"any call"}, grounds |-> {"any call"}],
     negative |-> [ingests |-> TRUE, matches |-> {"any call"}, grounds |-> {"any call"}],
     readme |-> "text", note |-> "text"]

(* A mutant of Existing: only the pattern file is looked for. *)
ExistingPattern(name) == {role \in {"pattern"} : files[<<name, role>>] # None}
Existing(name) == {role \in ToSet(Roles) : files[<<name, role>>] # None}

(* Every target is looked for before the first is written. *)
NewPattern ==
    /\ Starts
    /\ \E name \in Stems, family \in Families, force \in BOOLEAN :
        IF name \notin Identifiers \/ (~force /\ Existing(name) # {})
        THEN Ends("new-pattern", name, "Usage")
        ELSE /\ now' = [command |-> "new-pattern", name |-> name, step |-> 1, force |-> force,
                        family |-> family, inOrder |-> TRUE, findings |-> <<>>]
             /\ last' = None
    /\ UNCHANGED files

(* write_file, one of the five. *)
WriteScaffold ==
    /\ now # None /\ now.step > 0
    /\ LET path == <<now.name, Roles[now.step]>>
           content == Scaffold(now.name, now.family)[Roles[now.step]]
       IN  \/ /\ files' = [files EXCEPT ![path] = content]
              /\ now' = [now EXCEPT !.step = IF @ = Len(Roles) THEN 0 ELSE @ + 1]
              /\ UNCHANGED last
           \/ /\ files' \in {files, [files EXCEPT ![path] = Torn(path)]}
              /\ Ends(now.command, now.name, "InputPath")
    /\ UNCHANGED commands

----------------------------------------------------------------------------
(* validate-pattern.                                                        *)

Readable(name) ==
    files[<<name, "pattern">>] # None /\ files[<<name, "pattern">>].state # "unreadable"

(* taxonomy_check, and doctor's: map_family has an entry somewhere. *)
Mapped(pattern) == MapResult(DefaultRegistry, pattern.family, None).mappings # <<>>

(* ground_all over the candidates of this one pattern: a grounded finding. *)
Fires(pattern, trace) ==
    pattern.evidence \in trace.matches /\ pattern.evidence \in trace.grounds

(* trace_check: a candidate that cannot be grounded fails it. *)
DemoPasses(pattern, trace, expected) ==
    /\ trace # None /\ trace.ingests
    /\ ~(pattern.contradictory /\ pattern.evidence \in trace.matches)
    /\ Fires(pattern, trace) <=> expected

(* The traces are those by convention, or the one --positive names (--negative
   goes the same way). *)
ValidatePattern ==
    /\ Starts
    /\ \E name \in Stems, given \in DemoTraces \union {None} :
        IF ~Readable(name) THEN Ends("validate-pattern", name, "InputPath")
        ELSE IF files[<<name, "pattern">>].state = "panics"
        THEN Ends("validate-pattern", name, "panic")
        ELSE LET pattern == files[<<name, "pattern">>]
                 positive == IF given = None THEN files[<<name, "positive">>] ELSE given
             IN  Reports(IF given = None THEN "validate-pattern" ELSE "validate-pattern --positive",
                    name,
                    /\ pattern.state = "good"
                    /\ Mapped(pattern)
                    /\ DemoPasses(pattern, positive, TRUE)
                    /\ DemoPasses(pattern, files[<<name, "negative">>], FALSE), <<>>)
    /\ UNCHANGED files

----------------------------------------------------------------------------
(* format-pattern.                                                          *)

(* The text written says the literals as they are (module Formatter): one
   that needs an escape is not a pattern any more. *)
Reformatted(pattern) ==
    IF pattern.canonical THEN pattern
    ELSE IF pattern.plain THEN [pattern EXCEPT !.canonical = TRUE]
    ELSE Blank

(* --check, --write, or neither: the text is the report. *)
FormatPattern ==
    /\ Starts
    /\ \E name \in Stems :
        LET path == <<name, "pattern">>
            pattern == files[path]
        IN  \/ /\ ~Readable(name)
               /\ Ends("format-pattern", name, "InputPath") /\ UNCHANGED files
            \/ /\ Readable(name) /\ pattern.state = "unparsed"
               /\ Ends("format-pattern", name, "Dsl") /\ UNCHANGED files
            \/ /\ Readable(name) /\ pattern.state # "unparsed"
               /\ \/ /\ Ends("format-pattern --check", name,
                              IF pattern.canonical THEN "none" ELSE "ChecksFailed")
                     /\ UNCHANGED files
                  \/ /\ files' = [files EXCEPT ![path] = Reformatted(pattern)]
                     /\ Ends("format-pattern --write", name, "none")
                  \/ /\ files' \in {files, [files EXCEPT ![path] = Torn(path)]}
                     /\ Ends("format-pattern --write", name, "OutputWrite")
                  \/ /\ Reports("format-pattern", name, TRUE, <<>>)
                     /\ UNCHANGED files

----------------------------------------------------------------------------
(* doctor.                                                                  *)

(* load_patterns and doctor list the directory in the order of its names. *)
Listed == {name \in Stems : files[<<name, "pattern">>] # None}
Library ==
    FlattenSeq([i \in DOMAIN Names |->
        IF Names[i] \in Listed THEN <<files[<<Names[i], "pattern">>]>> ELSE <<>>])
Compiles(name) == files[<<name, "pattern">>].state = "good"

(* ids_seen: two files declare one id, whatever the version. *)
Twins(n, m) ==
    /\ n # m /\ Compiles(n) /\ Compiles(m)
    /\ files[<<n, "pattern">>].id = files[<<m, "pattern">>].id

(* scan_pattern_file: what it finds in one file. *)
Unhealthy(name) ==
    \/ ~Compiles(name)
    \/ ~Mapped(files[<<name, "pattern">>])
    \/ None \in {files[<<name, "positive">>], files[<<name, "negative">>]}

(* A mutant of Healthy: each file for itself. *)
HealthyFiles == \A name \in Listed : ~Unhealthy(name)
Healthy ==
    /\ \A name \in Listed : ~Unhealthy(name)
    /\ \A n, m \in Listed : ~Twins(n, m)

Doctor ==
    /\ Starts
    /\ IF Listed = {} THEN Ends("doctor", None, "Usage")
       ELSE IF \E name \in Listed : files[<<name, "pattern">>].state = "panics"
       THEN Ends("doctor", None, "panic")
       ELSE Reports("doctor", None, Healthy, <<>>)
    /\ UNCHANGED files

----------------------------------------------------------------------------
(* analyze.                                                                 *)

(* find_all_matches: pattern after pattern, its candidates. *)
CandidatesOf(patterns, trace) ==
    FlattenSeq([i \in DOMAIN patterns |->
                    IF patterns[i].evidence \in trace.matches THEN <<i>> ELSE <<>>])

(* ground_all: against the first pattern with the candidate's id and version. *)
GroundedAgainst(patterns, i) ==
    CHOOSE j \in DOMAIN patterns :
        /\ patterns[j].id = patterns[i].id /\ patterns[j].version = patterns[i].version
        /\ \A k \in 1 .. j - 1 :
                patterns[k].id # patterns[i].id \/ patterns[k].version # patterns[i].version

(* Finding::from_results: a result with the taxonomy of its family. *)
Finding(patterns, i, status) ==
    LET j == GroundedAgainst(patterns, i)
    IN  [pattern |-> patterns[j].id, matched |-> i, grounded |-> j, status |-> status,
         taxonomy |-> MapResult(DefaultRegistry, patterns[j].family, status).mappings]

(* A pattern with a clause in both polarities grounds nothing: polarity::analyze
   refuses it.  A candidate of another pattern's evidence may come to anything;
   one's own is grounded or not as the trace has it. *)
Statuses(patterns, i, trace) ==
    LET j == GroundedAgainst(patterns, i)
    IN  IF patterns[j].contradictory THEN {"error"}
        ELSE IF patterns[j].evidence # patterns[i].evidence
        THEN {"Grounded", "Abstain", "Ungrounded"}
        ELSE IF patterns[i].evidence \in trace.grounds THEN {"Grounded"}
        ELSE {"Abstain", "Ungrounded"}

(* load_patterns: the first pattern of the listing that does not compile ends it. *)
LoadFault(patterns) ==
    LET failing == {i \in DOMAIN patterns : patterns[i].state # "good"}
    IN  IF failing = {} THEN "none"
        ELSE IF patterns[CHOOSE i \in failing : \A k \in failing : i <= k].state = "panics"
        THEN "panic" ELSE "Dsl"

(* The trace first, then the whole library, then every candidate: the first
   error ends it. *)
Analyze ==
    /\ Starts
    /\ \E trace \in DemoTraces :
        LET patterns == Library
            found == CandidatesOf(patterns, trace)
        IN  \/ Ends("analyze --format csv", None, "Usage")
            \/ ~trace.ingests /\ Ends("analyze", None, "Ingestion")
            \/ trace.ingests /\ patterns = <<>> /\ Ends("analyze", None, "Usage")
            \/ /\ trace.ingests /\ LoadFault(patterns) # "none"
               /\ Ends("analyze", None, LoadFault(patterns))
            \/ /\ trace.ingests /\ patterns # <<>> /\ LoadFault(patterns) = "none"
               /\ \E statuses \in [DOMAIN found -> {"Grounded", "Abstain", "Ungrounded", "error"}] :
                    /\ \A k \in DOMAIN found : statuses[k] \in Statuses(patterns, found[k], trace)
                    /\ IF \E k \in DOMAIN found : statuses[k] = "error"
                       THEN Ends("analyze", None, "Grounding")
                       ELSE Reports("analyze", None, TRUE,
                                    [k \in DOMAIN found |->
                                        Finding(patterns, found[k], statuses[k])])
    /\ UNCHANGED files

(* benchmark (its suite is module Benchmark's): a report is a success,
   whatever it says of the cases. *)
BenchmarkSuite ==
    /\ Starts
    /\ \/ Ends("benchmark", None, "InputPath")
       \/ \E kind \in {"Benchmark", "panic"} : Ends("benchmark", None, kind)
       \/ Reports("benchmark", None, TRUE, <<>>)
    /\ UNCHANGED files

Next ==
    \/ Edit \/ NewPattern \/ WriteScaffold \/ ValidatePattern \/ FormatPattern
    \/ Doctor \/ Analyze \/ BenchmarkSuite \/ WriteReport

Spec == Init /\ [][Next]_vars

----------------------------------------------------------------------------
(* Properties.                                                              *)

(* No command changes what a file holds, or removes it, unless asked to:
   new-pattern replaces nothing without --force, however far it gets and
   whichever write fails, and only format-pattern --write touches a pattern
   that is there, one whose layout is not the canonical one unless the write
   fails (new_pattern::run, main::run_pattern_sdk_command). *)
WorkIsKept ==
    [][\A path \in Paths :
        files[path] # None /\ files'[path] # files[path] =>
            \/ now = None /\ now' = None /\ last' = None
            \/ now # None /\ now.force /\ path[1] = now.name
            \/ /\ last' # None /\ last'.command = "format-pattern --write"
               /\ path = <<last'.name, "pattern">>
               /\ last'.kind = "none" => ~files[path].canonical]_vars

(* The exit status of a checking command is its verdict on the files as they
   are, and it never replaces the report: 0 only if the report is out and all
   is in order, 1 for failed checks only with the report out; and what
   validate-pattern passes, doctor has no complaint about in that file, nor
   grounding about that pattern. *)
ExitIsTheVerdict ==
    last # None /\ last.command \in {"validate-pattern", "doctor"} =>
        /\ last.kind \in {"none", "ChecksFailed"} => last.delivered
        /\ last.exit = 0 /\ last.command = "doctor" => Healthy
        /\ last.kind = "ChecksFailed" /\ last.command = "doctor" => ~Healthy
        /\ last.exit = 0 /\ last.command = "validate-pattern" =>
                ~Unhealthy(last.name) /\ ~files[<<last.name, "pattern">>].contradictory

(* A library the doctor finds nothing in loads, and is analysed unless the
   constraint of one of its patterns has a clause in both polarities, which
   doctor does not look for: every candidate is grounded against the very
   pattern it was matched against, as ground_all asks of its caller, and every
   finding is classified. *)
HealthyLibraryAnalyses ==
    last # None /\ last.command = "analyze" /\ Healthy =>
        /\ last.kind \notin {"Dsl", "panic"}
        /\ last.kind = "Grounding" => \E i \in DOMAIN Library : Library[i].contradictory
        /\ \A k \in DOMAIN last.findings :
                /\ last.findings[k].grounded = last.findings[k].matched
                /\ last.findings[k].taxonomy # <<>>
=============================================================================
