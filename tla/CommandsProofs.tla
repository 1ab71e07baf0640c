--------------------------- MODULE CommandsProofs ---------------------------
(***************************************************************************)
(* What the commands leave of an author's files and what their exit status *)
(* says, for libraries of every size and contents of every kind.           *)
(*                                                                         *)
(* The invariant is about the command under way.  new-pattern without      *)
(* --force still has nothing in the paths it has yet to write, because no  *)
(* other command runs before it ends; and the checks a report waits to be  *)
(* written for are still true of the files.                                *)
(*                                                                         *)
(* The second half is about the benchmark harness: which directories it    *)
(* runs, what a case reports when a stage fails, and that the figures of a *)
(* report fit the results it is made from, result by result and case by    *)
(* case.                                                                   *)
(***************************************************************************)
EXTENDS Commands, Benchmark, SequenceProofs, TLAPS

Fields == {"command", "name", "step", "force", "family", "inOrder", "findings"}

(* What validate-pattern passes. *)
Sane(name) == ~Unhealthy(name) /\ ~files[<<name, "pattern">>].contradictory

(* The command under way. *)
UnderWay ==
    /\ last = None /\ DOMAIN now = Fields /\ now.step \in 0 .. 5
    /\ now.step > 0 => now.command = "new-pattern" /\ now.name \in Stems
    /\ now.step > 0 /\ ~now.force =>
            \A r \in now.step .. 5 : files[<<now.name, Roles[r]>>] = None
    /\ now.step = 0 /\ now.command = "doctor" => (now.inOrder <=> Healthy)
    /\ now.step = 0 /\ now.command = "validate-pattern" /\ now.inOrder => Sane(now.name)

IInv ==
    /\ DOMAIN files = Paths
    /\ now # None => UnderWay
    /\ ExitIsTheVerdict

-----------------------------------------------------------------------------

LEMMA RoleFacts ==
    /\ Len(Roles) = 5
    /\ \A r \in 1 .. 5 : Roles[r] \in ToSet(Roles)
    /\ \A role \in ToSet(Roles) : \E r \in 1 .. 5 : role = Roles[r]
    /\ \A r, q \in 1 .. 5 : Roles[r] = Roles[q] => r = q
BY DEF Roles, ToSet

(* Nothing a command judges changes while the files do not. *)
LEMMA Kept ==
    ASSUME UNCHANGED files
    PROVE  /\ Healthy' = Healthy
           /\ \A name : Unhealthy(name)' = Unhealthy(name) /\ Sane(name)' = Sane(name)
           /\ Library' = Library
<1>1. Listed' = Listed
  BY DEF Listed
<1>2. /\ \A name : Compiles(name)' = Compiles(name)
      /\ \A name : Unhealthy(name)' = Unhealthy(name)
      /\ \A n, m : Twins(n, m)' = Twins(n, m)
  BY DEF Compiles, Unhealthy, Twins, Mapped
<1>3. \A name : Sane(name)' = Sane(name)
  BY <1>2 DEF Sane
<1>4. Library' = Library
  BY <1>1 DEF Library
<1> QED BY <1>1, <1>2, <1>3, <1>4 DEF Healthy

LEMMA EndingFacts ==
    ASSUME NEW command, NEW name, NEW kind, NEW delivered, NEW findings,
           kind \in {"none", "Usage", "InputPath", "ChecksFailed", "OutputWrite"},
           last' = Ending(command, name, kind, delivered, findings)
    PROVE  /\ last'.command = command /\ last'.name = name /\ last'.kind = kind
           /\ last'.delivered = delivered
           /\ last'.exit = 0 => kind = "none"
BY DEF Ending, ExitCode

(* Ending a command that judges nothing, or with an error of its input. *)
LEMMA EndsIsNoVerdict ==
    ASSUME NEW command, NEW name, NEW kind, Ends(command, name, kind),
           \/ command \notin {"validate-pattern", "doctor"}
           \/ kind \in {"Usage", "InputPath", "panic", "unprinted"}
    PROVE  now' = None /\ ExitIsTheVerdict'
<1>1. /\ now' = None /\ last' = Ending(command, name, kind, FALSE, <<>>)
      /\ last'.command = command
  BY DEF Ends, Ended, Ending
<1>2. CASE command \notin {"validate-pattern", "doctor"}
  BY <1>1, <1>2 DEF ExitIsTheVerdict
<1>3. CASE kind \in {"Usage", "InputPath", "panic", "unprinted"}
  <2>1. last'.kind = kind /\ (last'.exit = 0 => kind = "none")
    BY <1>1, <1>3 DEF Ending, ExitCode
  <2> QED BY <1>1, <1>3, <2>1 DEF ExitIsTheVerdict
<1> QED BY <1>1, <1>2, <1>3

(* A report is under way, of checks that are true of the files. *)
LEMMA ReportsIsUnderWay ==
    ASSUME NEW command, NEW name, NEW inOrder, NEW findings,
           Reports(command, name, inOrder, findings), UNCHANGED files,
           command = "doctor" => (inOrder <=> Healthy),
           command = "validate-pattern" /\ inOrder => Sane(name)
    PROVE  UnderWay' /\ ExitIsTheVerdict'
<1>1. /\ now' = [command |-> command, name |-> name, step |-> 0, force |-> FALSE,
                 family |-> None, inOrder |-> inOrder, findings |-> findings]
      /\ last' = None
  BY DEF Reports
<1>2. /\ DOMAIN now' = Fields /\ now'.step = 0 /\ now'.command = command
      /\ now'.name = name /\ now'.inOrder = inOrder
  BY <1>1 DEF Fields
<1>3. UnderWay'
  BY <1>1, <1>2, Kept DEF UnderWay
<1> QED BY <1>1, <1>3 DEF ExitIsTheVerdict

-----------------------------------------------------------------------------
(* The steps.  First what each may do to a path that holds something.       *)

MayChange(path) ==
    \/ now = None /\ now' = None /\ last' = None
    \/ now # None /\ now.force /\ path[1] = now.name
    \/ /\ last' # None /\ last'.command = "format-pattern --write"
       /\ path = <<last'.name, "pattern">>
       /\ last'.kind = "none" => ~files[path].canonical

KeepsWork == \A path \in Paths : files[path] # None /\ files'[path] # files[path] => MayChange(path)

LEMMA EditStep == ASSUME IInv, Edit PROVE IInv' /\ KeepsWork
<1>1. now = None /\ now' = None /\ last' = None /\ DOMAIN files' = Paths
  BY DEF Edit, Idle, IInv
<1> QED BY <1>1 DEF IInv, KeepsWork, MayChange, ExitIsTheVerdict

LEMMA NewPatternStep == ASSUME IInv, NewPattern PROVE IInv' /\ KeepsWork
<1>1. UNCHANGED files
  BY DEF NewPattern
<1>2. PICK name \in Stems, family \in Families, force \in BOOLEAN :
        \/ Ends("new-pattern", name, "Usage")
        \/ /\ force \/ Existing(name) = {}
           /\ now' = [command |-> "new-pattern", name |-> name, step |-> 1, force |-> force,
                      family |-> family, inOrder |-> TRUE, findings |-> <<>>]
           /\ last' = None
  BY DEF NewPattern
<1>3. CASE Ends("new-pattern", name, "Usage")
  BY <1>1, <1>3, EndsIsNoVerdict DEF IInv, KeepsWork
<1>4. CASE /\ force \/ Existing(name) = {}
           /\ now' = [command |-> "new-pattern", name |-> name, step |-> 1, force |-> force,
                      family |-> family, inOrder |-> TRUE, findings |-> <<>>]
           /\ last' = None
  <2>1. /\ DOMAIN now' = Fields /\ now'.step = 1 /\ now'.command = "new-pattern"
        /\ now'.name = name /\ now'.force = force
    BY <1>4 DEF Fields
  <2>2. ~force => \A r \in 1 .. 5 : files[<<name, Roles[r]>>] = None
    BY <1>4, RoleFacts DEF Existing
  <2>3. UnderWay'
    BY <1>1, <1>4, <2>1, <2>2 DEF UnderWay
  <2>4. KeepsWork
    BY <1>1 DEF KeepsWork
  <2>5. ExitIsTheVerdict'
    BY <1>4 DEF ExitIsTheVerdict
  <2> QED BY <1>1, <2>3, <2>4, <2>5 DEF IInv
<1> QED BY <1>2, <1>3, <1>4

LEMMA WriteScaffoldStep == ASSUME IInv, WriteScaffold PROVE IInv' /\ KeepsWork
<1> DEFINE path == <<now.name, Roles[now.step]>>
           content == Scaffold(now.name, now.family)[Roles[now.step]]
<1>1. /\ now # None /\ now.step \in 1 .. 5 /\ DOMAIN now = Fields
      /\ now.command = "new-pattern" /\ now.name \in Stems /\ last = None
      /\ DOMAIN files = Paths
      /\ ~now.force => \A r \in now.step .. 5 : files[<<now.name, Roles[r]>>] = None
  BY DEF WriteScaffold, IInv, UnderWay
<1>2. path \in Paths
  BY <1>1, RoleFacts DEF Paths
<1>3. ~now.force => files[path] = None
  BY <1>1
<1>4. \/ /\ files' = [files EXCEPT ![path] = content]
         /\ now' = [now EXCEPT !.step = IF @ = Len(Roles) THEN 0 ELSE @ + 1]
         /\ last' = last
      \/ /\ \E torn : files' = [files EXCEPT ![path] = torn] \/ files' = files
         /\ Ends("new-pattern", now.name, "InputPath")
  BY <1>1 DEF WriteScaffold
<1> HIDE DEF content
<1>5. DOMAIN files' = Paths /\ \A p \in Paths : p # path => files'[p] = files[p]
  BY <1>1, <1>4
<1>6. KeepsWork
  <2> SUFFICES ASSUME NEW p \in Paths, files[p] # None, files'[p] # files[p]
               PROVE  now # None /\ now.force /\ p[1] = now.name
    BY DEF KeepsWork, MayChange
  <2>1. p = path
    BY <1>5
  <2> QED BY <1>1, <1>3, <2>1
<1>7. CASE Ends("new-pattern", now.name, "InputPath")
  <2>1. now' = None /\ ExitIsTheVerdict'
    BY <1>7, EndsIsNoVerdict
  <2> QED BY <1>5, <1>6, <2>1 DEF IInv
<1>8. CASE /\ now' = [now EXCEPT !.step = IF @ = Len(Roles) THEN 0 ELSE @ + 1]
           /\ last' = last
  <2>1. /\ DOMAIN now' = Fields /\ now'.command = "new-pattern" /\ now'.name = now.name
        /\ now'.force = now.force
        /\ now'.step = IF now.step = 5 THEN 0 ELSE now.step + 1
    BY <1>1, <1>8, RoleFacts DEF Fields
  <2>2. ASSUME now'.step > 0, ~now.force, NEW r \in now'.step .. 5
        PROVE  files'[<<now.name, Roles[r]>>] = None
    <3>1. r \in now.step .. 5 /\ r # now.step /\ r \in 1 .. 5
      BY <1>1, <2>1, <2>2
    <3>2. <<now.name, Roles[r]>> \in Paths /\ <<now.name, Roles[r]>> # path
      BY <1>1, <3>1, RoleFacts DEF Paths
    <3> QED BY <1>1, <1>5, <2>2, <3>1, <3>2
  <2>3. now'.step \in 0 .. 5 /\ last' = None
    BY <1>1, <1>8, <2>1
  <2>4. UnderWay'
    <3>1. /\ now'.step > 0 => now'.command = "new-pattern" /\ now'.name \in Stems
          /\ now'.command \notin {"doctor", "validate-pattern"}
      BY <1>1, <2>1
    <3>2. now'.step > 0 /\ ~now'.force =>
            \A r \in now'.step .. 5 : files'[<<now'.name, Roles[r]>>] = None
      BY <2>1, <2>2
    <3> QED BY <2>1, <2>3, <3>1, <3>2 DEF UnderWay
  <2> QED BY <1>1, <1>5, <1>6, <1>8, <2>3, <2>4 DEF IInv, ExitIsTheVerdict
<1> QED BY <1>4, <1>7, <1>8

LEMMA WriteReportStep == ASSUME IInv, WriteReport PROVE IInv' /\ KeepsWork
<1>1. now # None /\ now.step = 0 /\ UnderWay /\ UNCHANGED files
  BY DEF WriteReport, IInv
<1>2. CASE Ends(now.command, now.name, "unprinted")
  BY <1>1, <1>2, EndsIsNoVerdict DEF IInv, KeepsWork
<1>3. ASSUME NEW written \in BOOLEAN, Conclude(written) PROVE IInv' /\ KeepsWork
  <2> DEFINE kind == IF ~written THEN "OutputWrite"
                     ELSE IF now.inOrder THEN "none" ELSE "ChecksFailed"
  <2>1. now' = None /\ last' = Ending(now.command, now.name, kind, written, now.findings)
    BY <1>3 DEF Conclude, Ended
  <2>2. /\ last'.command = now.command /\ last'.name = now.name /\ last'.kind = kind
        /\ last'.delivered = written /\ (last'.exit = 0 => kind = "none")
    BY <2>1, EndingFacts
  <2>3. kind \in {"none", "ChecksFailed"} => written
    OBVIOUS
  <2>4. kind = "none" => now.inOrder
    OBVIOUS
  <2>5. kind = "ChecksFailed" => ~now.inOrder
    OBVIOUS
  <2> HIDE DEF kind
  <2>6. now.command = "doctor" => (now.inOrder <=> Healthy')
    BY <1>1, Kept DEF UnderWay
  <2>7. ASSUME now.command = "validate-pattern", now.inOrder
        PROVE  ~Unhealthy(last.name)' /\ ~files'[<<last'.name, "pattern">>].contradictory
    BY <1>1, <2>2, <2>7 DEF UnderWay, Sane, Unhealthy, Compiles, Mapped
  <2>8. ExitIsTheVerdict'
    BY <2>2, <2>3, <2>4, <2>5, <2>6, <2>7 DEF ExitIsTheVerdict
  <2> QED BY <1>1, <2>1, <2>8 DEF IInv, KeepsWork
<1> QED BY <1>2, <1>3 DEF WriteReport

LEMMA ValidatePatternStep == ASSUME IInv, ValidatePattern PROVE IInv' /\ KeepsWork
<1>1. UNCHANGED files
  BY DEF ValidatePattern
<1>2. PICK name \in Stems, given \in DemoTraces \union {None} :
        \/ \E kind \in {"InputPath", "panic"} : Ends("validate-pattern", name, kind)
        \/ Reports(IF given = None THEN "validate-pattern" ELSE "validate-pattern --positive",
                   name,
                   /\ files[<<name, "pattern">>].state = "good"
                   /\ Mapped(files[<<name, "pattern">>])
                   /\ DemoPasses(files[<<name, "pattern">>],
                          IF given = None THEN files[<<name, "positive">>] ELSE given, TRUE)
                   /\ DemoPasses(files[<<name, "pattern">>], files[<<name, "negative">>], FALSE),
                   <<>>)
  BY DEF ValidatePattern
<1> DEFINE pattern == files[<<name, "pattern">>]
           positive == IF given = None THEN files[<<name, "positive">>] ELSE given
           inOrder == /\ pattern.state = "good"
                      /\ Mapped(pattern)
                      /\ DemoPasses(pattern, positive, TRUE)
                      /\ DemoPasses(pattern, files[<<name, "negative">>], FALSE)
           command == IF given = None THEN "validate-pattern" ELSE "validate-pattern --positive"
<1>3. CASE \E kind \in {"InputPath", "panic"} : Ends("validate-pattern", name, kind)
  BY <1>1, <1>3, EndsIsNoVerdict DEF IInv, KeepsWork
<1>4. CASE Reports(command, name, inOrder, <<>>)
  <2>1. command # "doctor"
    OBVIOUS
  <2>2. command = "validate-pattern" /\ inOrder => Sane(name)
    <3>1. command = "validate-pattern" => given = None
      OBVIOUS
    <3>2. given = None /\ inOrder => Sane(name)
      BY DEF Sane, Unhealthy, Compiles, DemoPasses, Fires
    <3> QED BY <3>1, <3>2
  <2> HIDE DEF command, inOrder
  <2>3. UnderWay' /\ ExitIsTheVerdict'
    BY <1>1, <1>4, <2>1, <2>2, ReportsIsUnderWay
  <2> QED BY <1>1, <2>3 DEF IInv, KeepsWork
<1> QED BY <1>2, <1>3, <1>4

LEMMA FormatPatternStep == ASSUME IInv, FormatPattern PROVE IInv' /\ KeepsWork
<1>1. PICK name \in Stems :
        \/ \E kind : /\ \/ Ends("format-pattern", name, kind)
                        \/ Ends("format-pattern --check", name, kind)
                     /\ UNCHANGED files
        \/ /\ files' = [files EXCEPT ![<<name, "pattern">>] =
                            Reformatted(files[<<name, "pattern">>])]
           /\ Ends("format-pattern --write", name, "none")
        \/ /\ files' \in {files, [files EXCEPT ![<<name, "pattern">>] =
                                    Torn(<<name, "pattern">>)]}
           /\ Ends("format-pattern --write", name, "OutputWrite")
        \/ /\ Reports("format-pattern", name, TRUE, <<>>)
           /\ UNCHANGED files
  BY DEF FormatPattern
<1> DEFINE path == <<name, "pattern">>
           pattern == files[path]
<1>2. DOMAIN files = Paths
  BY DEF IInv
<1>3. ASSUME NEW kind, \/ Ends("format-pattern", name, kind)
                       \/ Ends("format-pattern --check", name, kind),
             UNCHANGED files
      PROVE  IInv' /\ KeepsWork
  <2>1. now' = None /\ ExitIsTheVerdict'
    BY <1>3, EndsIsNoVerdict
  <2> QED BY <1>2, <1>3, <2>1 DEF IInv, KeepsWork
<1>4. ASSUME NEW kind \in {"none", "OutputWrite"}, NEW content,
             files' = [files EXCEPT ![path] = content] \/ files' = files,
             kind = "none" /\ content # pattern => ~pattern.canonical,
             Ends("format-pattern --write", name, kind)
      PROVE  IInv' /\ KeepsWork
  <2>1. now' = None /\ ExitIsTheVerdict'
    BY <1>4, EndsIsNoVerdict
  <2>2. DOMAIN files' = Paths /\ \A p \in Paths : p # path => files'[p] = files[p]
    BY <1>2, <1>4
  <2>3. files'[path] # files[path] => content # pattern
    <3>1. path \in Paths
      <4>1. Roles[1] = "pattern" /\ Roles[1] \in ToSet(Roles)
        BY RoleFacts DEF Roles
      <4> QED BY <4>1 DEF Paths
    <3> HIDE DEF path
    <3> QED BY <1>2, <1>4, <3>1
  <2>4. /\ last' = Ending("format-pattern --write", name, kind, FALSE, <<>>)
        /\ last' # None /\ last'.command = "format-pattern --write" /\ last'.name = name
        /\ last'.kind = kind
    <3>1. last' = Ending("format-pattern --write", name, kind, FALSE, <<>>)
      BY <1>4 DEF Ends, Ended
    <3> QED BY <3>1, NoneAssumption DEF Ending
  <2>5. KeepsWork
    BY <1>4, <2>2, <2>3, <2>4 DEF KeepsWork, MayChange
  <2> QED BY <2>1, <2>2, <2>5 DEF IInv
<1>5. CASE /\ files' = [files EXCEPT ![path] = Reformatted(pattern)]
           /\ Ends("format-pattern --write", name, "none")
  <2>1. Reformatted(pattern) # pattern => ~pattern.canonical
    BY DEF Reformatted
  <2> QED BY <1>4, <1>5, <2>1
<1>6. CASE /\ files' \in {files, [files EXCEPT ![path] = Torn(path)]}
           /\ Ends("format-pattern --write", name, "OutputWrite")
  BY <1>4, <1>6
<1>7. CASE Reports("format-pattern", name, TRUE, <<>>) /\ UNCHANGED files
  <2>1. UnderWay' /\ ExitIsTheVerdict'
    BY <1>7, ReportsIsUnderWay
  <2> QED BY <1>2, <1>7, <2>1 DEF IInv, KeepsWork
<1> QED BY <1>1, <1>3, <1>5, <1>6, <1>7

LEMMA ReportingStep == ASSUME IInv, Doctor \/ Analyze \/ BenchmarkSuite PROVE IInv' /\ KeepsWork
<1>1. UNCHANGED files /\ DOMAIN files = Paths
  BY DEF Doctor, Analyze, BenchmarkSuite, IInv
<1>2. \/ \E kind \in {"Usage", "panic"} : Ends("doctor", None, kind)
      \/ Reports("doctor", None, Healthy, <<>>)
      \/ \E kind : \E command \in {"analyze", "analyze --format csv", "benchmark"} :
            Ends(command, None, kind)
      \/ \E findings : \E command \in {"analyze", "benchmark"} :
            Reports(command, None, TRUE, findings)
  <2>1. CASE Doctor
    BY <2>1 DEF Doctor
  <2>2. CASE Analyze
    BY <2>2 DEF Analyze
  <2>3. CASE BenchmarkSuite
    BY <2>3 DEF BenchmarkSuite
  <2> QED BY <2>1, <2>2, <2>3
<1>3. CASE \E kind \in {"Usage", "panic"} : Ends("doctor", None, kind)
  BY <1>1, <1>3, EndsIsNoVerdict DEF IInv, KeepsWork
<1>4. CASE Reports("doctor", None, Healthy, <<>>)
  BY <1>1, <1>4, ReportsIsUnderWay DEF IInv, KeepsWork
<1>5. CASE \E kind : \E command \in {"analyze", "analyze --format csv", "benchmark"} :
            Ends(command, None, kind)
  BY <1>1, <1>5, EndsIsNoVerdict DEF IInv, KeepsWork
<1>6. CASE \E findings : \E command \in {"analyze", "benchmark"} :
            Reports(command, None, TRUE, findings)
  BY <1>1, <1>6, ReportsIsUnderWay DEF IInv, KeepsWork
<1> QED BY <1>2, <1>3, <1>4, <1>5, <1>6

LEMMA StutterStep == ASSUME IInv, UNCHANGED vars PROVE IInv' /\ KeepsWork
<1>1. UNCHANGED files /\ UNCHANGED now /\ UNCHANGED last
  BY DEF vars
<1>2. UnderWay' = UnderWay
  BY <1>1, Kept DEF UnderWay, Unhealthy, Compiles, Mapped
<1>3. ExitIsTheVerdict' = ExitIsTheVerdict
  BY <1>1, Kept DEF ExitIsTheVerdict, Unhealthy, Compiles, Mapped
<1> QED BY <1>1, <1>2, <1>3 DEF IInv, KeepsWork

LEMMA EveryStep == ASSUME IInv, [Next]_vars PROVE IInv' /\ KeepsWork
<1>1. CASE Doctor \/ Analyze \/ BenchmarkSuite
  BY <1>1, ReportingStep
<1>2. CASE UNCHANGED vars
  BY <1>2, StutterStep
<1> QED
  BY <1>1, <1>2, EditStep, NewPatternStep, WriteScaffoldStep, ValidatePatternStep,
     FormatPatternStep, WriteReportStep DEF Next

LEMMA InitEstablishes == Init => IInv
BY WorkspacesAssumption DEF Init, IInv, ExitIsTheVerdict

(* validate_pattern, doctor and exit_code: an exit status of 0 or 1 of a
   checking command is the verdict on the files as they are, and never in
   place of the report. *)
THEOREM Verdict == Spec => []ExitIsTheVerdict
<1>1. IInv /\ [Next]_vars => IInv'
  BY EveryStep
<1>2. IInv => ExitIsTheVerdict
  BY DEF IInv
<1> QED BY InitEstablishes, <1>1, <1>2, PTL DEF Spec

(* new_pattern and format_pattern: no command changes or removes what a file
   holds unless it was asked to, whichever write fails. *)
THEOREM Work == Spec => WorkIsKept
<1>1. IInv /\ [Next]_vars => IInv'
  BY EveryStep
<1>2. IInv /\ [Next]_vars =>
        [\A path \in Paths :
            files[path] # None /\ files'[path] # files[path] =>
                \/ now = None /\ now' = None /\ last' = None
                \/ now # None /\ now.force /\ path[1] = now.name
                \/ /\ last' # None /\ last'.command = "format-pattern --write"
                   /\ path = <<last'.name, "pattern">>
                   /\ last'.kind = "none" => ~files[path].canonical]_vars
  BY EveryStep DEF KeepsWork, MayChange
<1> QED BY InitEstablishes, <1>1, <1>2, PTL DEF Spec, WorkIsKept

-----------------------------------------------------------------------------
(* analyze over a library the doctor finds nothing in.                      *)

PatternsListed == {files[<<n, "pattern">>] : n \in Listed}

(* load_patterns: what it loads are the patterns of the directory, each once. *)
LEMMA LibraryLists ==
    /\ Library \in Seq(PatternsListed)
    /\ \E row : /\ \A k \in 1 .. Len(Library) :
                        /\ Names[row[k]] \in Listed
                        /\ Library[k] = files[<<Names[row[k]], "pattern">>]
                /\ \A k, l \in 1 .. Len(Library) : k # l => Names[row[k]] # Names[row[l]]
<1> DEFINE n == Len(Names)
           selected == {i \in 1 .. n : Names[i] \in Listed}
           held == [i \in 1 .. n |-> files[<<Names[i], "pattern">>]]
           seqs == [i \in DOMAIN Names |->
                        IF Names[i] \in Listed THEN <<files[<<Names[i], "pattern">>]>> ELSE <<>>]
<1>1. /\ DOMAIN Names = 1 .. n /\ n \in Nat
      /\ \A i, j \in 1 .. n : Names[i] = Names[j] => i = j
  BY NamesAssumption
<1>2. /\ selected \in SUBSET (1 .. n)
      /\ \A i \in selected : /\ held[i] = files[<<Names[i], "pattern">>]
                             /\ Names[i] \in Listed /\ held[i] \in PatternsListed
  BY DEF PatternsListed
<1>3. seqs = [i \in 1 .. n |-> IF i \in selected THEN <<held[i]>> ELSE <<>>]
  BY <1>1
<1>4. Library = FlattenSeq(seqs)
  BY DEF Library
<1> HIDE DEF seqs, held, selected, n
<1>5. Library \in Seq(PatternsListed)
  BY <1>1, <1>2, <1>3, <1>4, FlattenSelected
<1>6. PICK row : Keeps(Library, row, held, n, selected)
  BY <1>1, <1>2, <1>3, <1>4, FlattenSelected
<1>7. \A k \in 1 .. Len(Library) : row[k] \in selected /\ Library[k] = held[row[k]]
  BY <1>6 DEF Keeps
<1>8. \A k, l \in 1 .. Len(Library) : k < l => row[k] < row[l]
  BY <1>6 DEF Keeps
<1>9. ASSUME NEW k \in 1 .. Len(Library), NEW l \in 1 .. Len(Library), k # l
      PROVE  Names[row[k]] # Names[row[l]]
  <2>1. row[k] \in 1 .. n /\ row[l] \in 1 .. n /\ n \in Nat
    BY <1>1, <1>2, <1>7
  <2>2. k < l \/ l < k
    BY <1>5, <1>9
  <2>3. row[k] # row[l]
    BY <1>8, <2>1, <2>2
  <2> QED BY <1>1, <2>1, <2>3
<1>10. \A k \in 1 .. Len(Library) :
            Names[row[k]] \in Listed /\ Library[k] = files[<<Names[row[k]], "pattern">>]
  BY <1>2, <1>7
<1>11. \A k, l \in 1 .. Len(Library) : k # l => Names[row[k]] # Names[row[l]]
  BY <1>9
<1> QED BY <1>5, <1>10, <1>11

LEMMA HealthyLibrary ==
    ASSUME Healthy
    PROVE  \A i \in 1 .. Len(Library) :
            /\ Library[i].state = "good" /\ Mapped(Library[i])
            /\ \A j \in 1 .. Len(Library) : j # i => Library[j].id # Library[i].id
<1>1. PICK row :
        /\ \A k \in 1 .. Len(Library) :
                Names[row[k]] \in Listed /\ Library[k] = files[<<Names[row[k]], "pattern">>]
        /\ \A k, l \in 1 .. Len(Library) : k # l => Names[row[k]] # Names[row[l]]
  BY LibraryLists
<1> SUFFICES ASSUME NEW i \in 1 .. Len(Library)
             PROVE  /\ Library[i].state = "good" /\ Mapped(Library[i])
                    /\ \A j \in 1 .. Len(Library) : j # i => Library[j].id # Library[i].id
  OBVIOUS
<1>2. ~Unhealthy(Names[row[i]])
  BY <1>1 DEF Healthy
<1>3. ASSUME NEW j \in 1 .. Len(Library), j # i PROVE Library[j].id # Library[i].id
  <2>1. ~Twins(Names[row[i]], Names[row[j]]) /\ ~Unhealthy(Names[row[j]])
    BY <1>1 DEF Healthy
  <2> QED BY <1>1, <1>2, <1>3, <2>1 DEF Twins, Unhealthy
<1> QED BY <1>1, <1>2, <1>3 DEF Unhealthy, Compiles

(* find_all_matches: every candidate is one of a pattern there is. *)
LEMMA CandidatesAreOfPatterns ==
    ASSUME NEW S, NEW patterns \in Seq(S), NEW trace
    PROVE  CandidatesOf(patterns, trace) \in Seq(1 .. Len(patterns))
<1> DEFINE seqs == [i \in DOMAIN patterns |->
                        IF patterns[i].evidence \in trace.matches THEN <<i>> ELSE <<>>]
<1>1. seqs \in Seq(Seq(1 .. Len(patterns)))
  <2>1. /\ \A i \in 1 .. Len(patterns) : <<i>> \in Seq(1 .. Len(patterns))
        /\ <<>> \in Seq(1 .. Len(patterns)) /\ Len(patterns) \in Nat
        /\ DOMAIN seqs = 1 .. Len(patterns)
    OBVIOUS
  <2>2. \A i \in 1 .. Len(patterns) : seqs[i] \in Seq(1 .. Len(patterns))
    BY <2>1
  <2>3. seqs = [i \in 1 .. Len(patterns) |-> seqs[i]]
    OBVIOUS
  <2> HIDE DEF seqs
  <2> QED BY <2>1, <2>2, <2>3
<1>2. CandidatesOf(patterns, trace) = FlattenSeq(seqs)
  BY DEF CandidatesOf
<1> HIDE DEF seqs
<1> QED BY <1>1, <1>2, FlattenSeqLists

(* A pattern is its own, when no other has its id. *)
LEMMA GroundedAgainstItself ==
    ASSUME NEW S, NEW patterns \in Seq(S), NEW i \in 1 .. Len(patterns),
           \A j \in 1 .. Len(patterns) : j # i => patterns[j].id # patterns[i].id
    PROVE  GroundedAgainst(patterns, i) = i
<1> DEFINE Own(j) == /\ patterns[j].id = patterns[i].id /\ patterns[j].version = patterns[i].version
                     /\ \A k \in 1 .. j - 1 : \/ patterns[k].id # patterns[i].id
                                              \/ patterns[k].version # patterns[i].version
<1>1. \A j \in DOMAIN patterns : Own(j) => j = i
  OBVIOUS
<1>2. Own(i)
  <2>1. ASSUME NEW k \in 1 .. i - 1 PROVE patterns[k].id # patterns[i].id
    <3>1. k \in 1 .. Len(patterns) /\ k # i
      OBVIOUS
    <3> QED BY <3>1
  <2> QED BY <2>1
<1>3. i \in DOMAIN patterns
  OBVIOUS
<1>4. GroundedAgainst(patterns, i) = CHOOSE j \in DOMAIN patterns : Own(j)
  BY DEF GroundedAgainst
<1> HIDE DEF Own
<1> QED BY <1>1, <1>2, <1>3, <1>4

(* Finding::from_results, when the pattern's family has a row in a table. *)
LEMMA FindingIsClassified ==
    ASSUME NEW patterns, NEW i, NEW status,
           GroundedAgainst(patterns, i) = i, Mapped(patterns[i])
    PROVE  LET finding == Finding(patterns, i, status)
           IN  finding.grounded = finding.matched /\ finding.taxonomy # <<>>
<1>1. MapResult(DefaultRegistry, patterns[i].family, status).mappings =
      MapResult(DefaultRegistry, patterns[i].family, None).mappings
  BY DEF MapResult
<1> QED BY <1>1 DEF Finding, Mapped

Classified(findings) ==
    \A k \in DOMAIN findings :
        findings[k].grounded = findings[k].matched /\ findings[k].taxonomy # <<>>

(* The findings analyze is about to report, and those it has reported. *)
Analysed ==
    /\ now # None /\ now.command = "analyze" /\ Healthy => Classified(now.findings)
    /\ HealthyLibraryAnalyses

LEMMA AnalyzeIsAnalysed == ASSUME Analyze PROVE Analysed'
<1> DEFINE found(trace) == CandidatesOf(Library, trace)
           AllStatuses == {"Grounded", "Abstain", "Ungrounded", "error"}
           findings(trace, statuses) ==
                [k \in DOMAIN found(trace) |-> Finding(Library, found(trace)[k], statuses[k])]
<1>1. UNCHANGED files /\ Healthy' = Healthy /\ Library' = Library
  BY Kept DEF Analyze
<1>2. PICK trace \in DemoTraces :
        \/ Ends("analyze --format csv", None, "Usage")
        \/ Ends("analyze", None, "Ingestion")
        \/ Ends("analyze", None, "Usage")
        \/ LoadFault(Library) # "none" /\ Ends("analyze", None, LoadFault(Library))
        \/ \E statuses \in [DOMAIN found(trace) -> AllStatuses] :
            /\ \A k \in DOMAIN found(trace) :
                    statuses[k] \in Statuses(Library, found(trace)[k], trace)
            /\ IF \E k \in DOMAIN found(trace) : statuses[k] = "error"
               THEN Ends("analyze", None, "Grounding")
               ELSE Reports("analyze", None, TRUE, findings(trace, statuses))
  BY DEF Analyze
<1>3. Library \in Seq(PatternsListed) /\ found(trace) \in Seq(1 .. Len(Library))
  BY LibraryLists, CandidatesAreOfPatterns
<1> HIDE DEF found
<1>4. ASSUME Healthy, NEW k \in DOMAIN found(trace)
      PROVE  /\ GroundedAgainst(Library, found(trace)[k]) = found(trace)[k]
             /\ Mapped(Library[found(trace)[k]])
  <2>1. found(trace)[k] \in 1 .. Len(Library)
    BY <1>3
  <2> QED BY <1>3, <1>4, <2>1, HealthyLibrary, GroundedAgainstItself
<1>5. ASSUME NEW command, NEW kind, Ends(command, None, kind),
             Healthy /\ command = "analyze" =>
                /\ kind \notin {"Dsl", "panic"}
                /\ kind = "Grounding" => \E i \in DOMAIN Library : Library[i].contradictory
      PROVE  Analysed'
  <2>1. /\ now' = None /\ last'.command = command /\ last'.kind = kind
        /\ last'.findings = <<>>
    BY <1>5 DEF Ends, Ended, Ending
  <2> QED BY <1>1, <1>5, <2>1 DEF Analysed, HealthyLibraryAnalyses
<1>6. CASE LoadFault(Library) # "none" /\ Ends("analyze", None, LoadFault(Library))
  <2>1. DOMAIN Library = 1 .. Len(Library)
    BY <1>3
  <2>2. \E i \in DOMAIN Library : Library[i].state # "good"
    BY <1>6 DEF LoadFault
  <2>3. ~Healthy
    BY <2>1, <2>2, HealthyLibrary
  <2> QED BY <1>5, <1>6, <2>3
<1>7. ASSUME NEW statuses \in [DOMAIN found(trace) -> AllStatuses],
             \A k \in DOMAIN found(trace) :
                    statuses[k] \in Statuses(Library, found(trace)[k], trace),
             IF \E k \in DOMAIN found(trace) : statuses[k] = "error"
             THEN Ends("analyze", None, "Grounding")
             ELSE Reports("analyze", None, TRUE, findings(trace, statuses))
      PROVE  Analysed'
  <2>1. CASE \E k \in DOMAIN found(trace) : statuses[k] = "error"
    <3>1. PICK k \in DOMAIN found(trace) : statuses[k] = "error"
      BY <2>1
    <3>2. Healthy => Library[found(trace)[k]].contradictory
      BY <1>4, <1>7, <3>1 DEF Statuses
    <3>3. found(trace)[k] \in DOMAIN Library
      BY <1>3
    <3> QED BY <1>5, <1>7, <2>1, <3>2, <3>3
  <2>2. CASE ~ \E k \in DOMAIN found(trace) : statuses[k] = "error"
    <3>1. /\ now'.command = "analyze" /\ now'.findings = findings(trace, statuses)
          /\ last' = None
      BY <1>7, <2>2 DEF Reports
    <3>2. Healthy => Classified(findings(trace, statuses))
      BY <1>4, FindingIsClassified DEF Classified
    <3> HIDE DEF findings
    <3>3. Classified(now.findings)' = Classified(findings(trace, statuses))
      BY <3>1 DEF Classified
    <3> QED BY <1>1, <3>1, <3>2, <3>3 DEF Analysed, HealthyLibraryAnalyses
  <2> QED BY <2>1, <2>2
<1> QED BY <1>2, <1>5, <1>6, <1>7

LEMMA EndsNamesIt ==
    ASSUME NEW command, NEW name, NEW kind, Ends(command, name, kind)
    PROVE  now' = None /\ last'.command = command
BY DEF Ends, Ended, Ending

LEMMA ReportsNamesIt ==
    ASSUME NEW command, NEW name, NEW inOrder, NEW findings,
           Reports(command, name, inOrder, findings)
    PROVE  now'.command = command /\ last' = None
BY DEF Reports

(* No other command is analyze, but for the report it waits to have written. *)
LEMMA OthersAreAnalysed ==
    ASSUME IInv, Analysed, [Next]_vars, ~Analyze
    PROVE  Analysed'
<1>1. CASE WriteReport
  <2>1. now # None /\ now' = None /\ UNCHANGED files /\ Healthy' = Healthy
    BY <1>1, Kept DEF WriteReport, Conclude, Ends, Ended
  <2>2. /\ last'.command = now.command /\ last'.findings \in {now.findings, <<>>}
        /\ last'.kind \in {"none", "ChecksFailed", "OutputWrite", "unprinted"}
    BY <1>1 DEF WriteReport, Conclude, Ends, Ended, Ending
  <2> QED BY <2>1, <2>2 DEF Analysed, HealthyLibraryAnalyses, Classified
<1>2. CASE UNCHANGED vars
  <2>1. now' = now /\ last' = last /\ Healthy' = Healthy /\ Library' = Library
    BY <1>2, Kept DEF vars
  <2> QED BY <2>1 DEF Analysed, HealthyLibraryAnalyses, Classified
<1>3. CASE Edit \/ NewPattern \/ WriteScaffold \/ ValidatePattern \/ FormatPattern
           \/ Doctor \/ BenchmarkSuite
  <2>1. /\ now' # None => now'.command # "analyze"
        /\ last' # None => last'.command # "analyze"
    <3>1. CASE Edit
      BY <3>1 DEF Edit, Idle
    <3>2. CASE NewPattern
      BY <3>2 DEF NewPattern, Ends, Ended, Ending
    <3>3. CASE WriteScaffold
      <4>1. now # None /\ now.command = "new-pattern" /\ last = None /\ DOMAIN now = Fields
        BY <3>3 DEF IInv, UnderWay, WriteScaffold
      <4>2. \/ /\ now' = [now EXCEPT !.step = IF @ = Len(Roles) THEN 0 ELSE @ + 1]
               /\ last' = last
            \/ Ends("new-pattern", now.name, "InputPath")
        BY <3>3, <4>1 DEF WriteScaffold
      <4> QED BY <4>1, <4>2 DEF Fields, Ends, Ended, Ending
    <3>4. CASE ValidatePattern
      <4>1. PICK command \in {"validate-pattern", "validate-pattern --positive"} :
                \/ \E name, kind : Ends(command, name, kind)
                \/ \E name, inOrder : Reports(command, name, inOrder, <<>>)
        <5>1. PICK name \in Stems, given \in DemoTraces \union {None} :
                \/ \E kind : Ends("validate-pattern", name, kind)
                \/ \E inOrder : Reports(IF given = None THEN "validate-pattern"
                                        ELSE "validate-pattern --positive",
                                        name, inOrder, <<>>)
          BY <3>4, Zenon DEF ValidatePattern
        <5> QED BY <5>1
      <4>2. command # "analyze"
        OBVIOUS
      <4> QED BY <4>1, <4>2, EndsNamesIt, ReportsNamesIt
    <3>5. CASE FormatPattern
      <4>1. PICK command \in {"format-pattern", "format-pattern --check",
                              "format-pattern --write"} :
                \/ \E name, kind : Ends(command, name, kind)
                \/ \E name : Reports(command, name, TRUE, <<>>)
        BY <3>5, Zenon DEF FormatPattern
      <4>2. command # "analyze"
        OBVIOUS
      <4> QED BY <4>1, <4>2, EndsNamesIt, ReportsNamesIt
    <3>6. CASE Doctor
      <4>1. \/ \E kind : Ends("doctor", None, kind)
            \/ Reports("doctor", None, Healthy, <<>>)
        BY <3>6, Zenon DEF Doctor
      <4> QED BY <4>1, EndsNamesIt, ReportsNamesIt
    <3>7. CASE BenchmarkSuite
      BY <3>7 DEF BenchmarkSuite, Reports, Ends, Ended, Ending
    <3> QED BY <1>3, <3>1, <3>2, <3>3, <3>4, <3>5, <3>6, <3>7
  <2> QED BY <2>1 DEF Analysed, HealthyLibraryAnalyses
<1> QED BY <1>1, <1>2, <1>3 DEF Next

(* analyze after doctor, for libraries of every size and traces of every
   content: a library the doctor finds nothing in loads, no candidate is refused
   unless some pattern has a clause in both polarities, each is grounded against
   the pattern it was matched against and each finding has its taxonomy. *)
THEOREM HealthyAnalysis == Spec => []HealthyLibraryAnalyses
<1>1. Init => Analysed
  BY DEF Init, Analysed, HealthyLibraryAnalyses
<1>2. IInv /\ [Next]_vars => IInv'
  BY EveryStep
<1>3. IInv /\ Analysed /\ [Next]_vars => Analysed'
  BY AnalyzeIsAnalysed, OthersAreAnalysed
<1>4. Analysed => HealthyLibraryAnalyses
  BY DEF Analysed
<1> QED BY InitEstablishes, <1>1, <1>2, <1>3, <1>4, PTL DEF Spec

-----------------------------------------------------------------------------
(***************************************************************************)
(* The harness (module Benchmark), which runs the same engine over a       *)
(* directory of cases.                                                     *)
(***************************************************************************)

(* A list and one element more. *)
LEMMA Lists ==
    ASSUME NEW list, IsList(list)
    PROVE  /\ Len(list) \in Nat /\ DOMAIN list = 1 .. Len(list)
           /\ \A x : /\ IsList(Append(list, x))
                     /\ Len(Append(list, x)) = Len(list) + 1
                     /\ \A i \in 1 .. Len(list) : Append(list, x)[i] = list[i]
                     /\ Append(list, x)[Len(list) + 1] = x
<1>1. list \in Seq({list[i] : i \in DOMAIN list})
  BY DEF IsList, ToSet
<1>2. Len(list) \in Nat /\ DOMAIN list = 1 .. Len(list)
  BY <1>1
<1>3. ASSUME NEW x
      PROVE  /\ IsList(Append(list, x))
             /\ Len(Append(list, x)) = Len(list) + 1
             /\ \A i \in 1 .. Len(list) : Append(list, x)[i] = list[i]
             /\ Append(list, x)[Len(list) + 1] = x
  <2> DEFINE S == {list[i] : i \in DOMAIN list} \union {x}
             longer == Append(list, x)
  <2>1. list \in Seq(S) /\ x \in S
    <3>1. \A i \in 1 .. Len(list) : list[i] \in S
      BY <1>2
    <3>2. list = [i \in 1 .. Len(list) |-> list[i]]
      BY <1>1
    <3> HIDE DEF S
    <3>3. [i \in 1 .. Len(list) |-> list[i]] \in Seq(S)
      BY <1>2, <3>1
    <3> QED BY <3>2, <3>3 DEF S
  <2> HIDE DEF S
  <2>2. /\ longer \in Seq(S) /\ Len(longer) = Len(list) + 1
        /\ \A i \in 1 .. Len(list) : longer[i] = list[i]
        /\ longer[Len(list) + 1] = x
    BY <2>1
  <2>3. longer \in Seq({longer[i] : i \in DOMAIN longer})
    <3> HIDE DEF longer
    <3>1. Len(longer) \in Nat /\ DOMAIN longer = 1 .. Len(longer)
          /\ longer = [i \in 1 .. Len(longer) |-> longer[i]]
      BY <2>2
    <3> DEFINE R == {longer[i] : i \in DOMAIN longer}
    <3>2. \A i \in 1 .. Len(longer) : longer[i] \in R
      BY <3>1
    <3> HIDE DEF R
    <3>3. [i \in 1 .. Len(longer) |-> longer[i]] \in Seq(R)
      BY <3>1, <3>2
    <3> QED BY <3>1, <3>3 DEF R
  <2> QED BY <2>2, <2>3 DEF IsList, ToSet
<1> QED BY <1>2, <1>3

-----------------------------------------------------------------------------
(* Ranks.                                                                   *)

(* The instance counts as we do. *)
(* Ranks go up by one at each of the chosen and nowhere else. *)
LEMMA Ranks ==
    ASSUME NEW chosen, NEW n \in Nat
    PROVE  /\ Rank(chosen, n) \in Nat /\ Rank(chosen, 0) = 0
           /\ n + 1 \in chosen => Rank(chosen, n + 1) = Rank(chosen, n) + 1
           /\ n + 1 \notin chosen => Rank(chosen, n + 1) = Rank(chosen, n)
           /\ \A m \in 0 .. n : Rank(chosen, m) <= Rank(chosen, n)
<1> DEFINE T(k) == {i \in 1 .. k : i \in chosen}
<1>1. \A k \in Nat : IsFiniteSet(T(k)) /\ Cardinality(T(k)) \in Nat
  <2> TAKE k \in Nat
  <2>1. IsFiniteSet(1 .. k) /\ T(k) \in SUBSET (1 .. k)
    BY FS_Interval
  <2> HIDE DEF T
  <2> QED BY <2>1, FS_Subset, FS_CardinalityType
<1>2. T(0) = {} /\ Cardinality({}) = 0
  BY FS_EmptySet
<1>3. ASSUME n + 1 \in chosen PROVE Cardinality(T(n + 1)) = Cardinality(T(n)) + 1
  <2>1. T(n + 1) = T(n) \union {n + 1} /\ n + 1 \notin T(n)
    BY <1>3
  <2> HIDE DEF T
  <2> QED BY <1>1, <2>1, FS_AddElement
<1>4. ASSUME n + 1 \notin chosen PROVE T(n + 1) = T(n)
  BY <1>4
<1>5. ASSUME NEW m \in 0 .. n PROVE Cardinality(T(m)) <= Cardinality(T(n))
  <2>1. T(m) \in SUBSET T(n)
    OBVIOUS
  <2> HIDE DEF T
  <2> QED BY <1>1, <2>1, FS_Subset
<1>6. \A k : Rank(chosen, k) = Cardinality(T(k))
  BY DEF Rank
<1> HIDE DEF T
<1>7. Rank(chosen, n) \in Nat /\ Rank(chosen, 0) = 0
  BY <1>1, <1>2, <1>6
<1>8. /\ n + 1 \in chosen => Rank(chosen, n + 1) = Rank(chosen, n) + 1
      /\ n + 1 \notin chosen => Rank(chosen, n + 1) = Rank(chosen, n)
  BY <1>3, <1>4, <1>6
<1>9. \A m \in 0 .. n : Rank(chosen, m) <= Rank(chosen, n)
  BY <1>5, <1>6
<1> QED BY <1>7, <1>8, <1>9

(* The chosen are ranked in their order, each by a rank of its own. *)
LEMMA RankGrows ==
    ASSUME NEW chosen, NEW m \in Nat, NEW n \in Nat, m < n, n \in chosen
    PROVE  Rank(chosen, m) < Rank(chosen, n)
<1>1. n - 1 \in Nat /\ (n - 1) + 1 = n /\ m \in 0 .. n - 1
  OBVIOUS
<1>2. Rank(chosen, n) = Rank(chosen, n - 1) + 1 /\ Rank(chosen, n - 1) \in Nat
  BY <1>1, Ranks
<1>3. Rank(chosen, m) <= Rank(chosen, n - 1) /\ Rank(chosen, m) \in Nat
  BY <1>1, Ranks
<1> QED BY <1>2, <1>3

LEMMA RankOfAll ==
    ASSUME NEW n \in Nat, NEW chosen \in SUBSET (1 .. n)
    PROVE  Rank(chosen, n) = Cardinality(chosen)
<1>1. {i \in 1 .. n : i \in chosen} = chosen
  OBVIOUS
<1> QED BY <1>1 DEF Rank

(* Only those up to it count. *)
LEMMA RankOfPart ==
    ASSUME NEW n \in Nat, NEW chosen, NEW more, \A i \in 1 .. n : i \in chosen <=> i \in more
    PROVE  Rank(chosen, n) = Rank(more, n)
<1>1. {i \in 1 .. n : i \in chosen} = {i \in 1 .. n : i \in more}
  OBVIOUS
<1> QED BY <1>1 DEF Rank

-----------------------------------------------------------------------------
(* Loading a directory.                                                     *)

JsonAt(i) == i \in DOMAIN directory /\ directory[i].json
Place(i) == Rank(JsonFiles, i)

(* The suite is the cases of the files read, in their order. *)
InLoad ==
    /\ loaded \in 0 .. Len(directory)
    /\ IsList(suite)
    /\ Len(suite) = Place(loaded)
    /\ \A i \in 1 .. loaded : JsonAt(i) =>
            Loads(directory[i].definition) /\ suite[Place(i)] = Case(directory[i].definition)
    /\ \A k \in 1 .. Len(suite) : \E i \in 1 .. loaded : JsonAt(i) /\ Place(i) = k

(* Every file can be read, and their ids are distinct. *)
Sound ==
    /\ \A i \in JsonFiles : Loads(directory[i].definition)
    /\ \A i, j \in JsonFiles : i # j => directory[i].definition.id # directory[j].definition.id

LoadInv ==
    /\ Listing(directory)
    /\ phase # "refused" => InLoad
    /\ phase = "refused" => ~Sound
    /\ phase \in {"run", "done"} => loaded = Len(directory) /\ DistinctIds(suite)

LEMMA Files ==
    ASSUME Listing(directory)
    PROVE  /\ Len(directory) \in Nat /\ DOMAIN directory = 1 .. Len(directory)
           /\ JsonFiles \in SUBSET (1 .. Len(directory))
           /\ \A i : i \in JsonFiles <=> JsonAt(i)
<1>1. Len(directory) \in Nat /\ DOMAIN directory = 1 .. Len(directory)
  BY Lists DEF Listing
<1> QED BY <1>1 DEF JsonFiles, JsonAt

LEMMA PlacesOfFiles ==
    ASSUME LoadInv, phase # "refused", NEW i \in 1 .. loaded, JsonAt(i)
    PROVE  Place(i) \in 1 .. Len(suite)
<1>1. loaded \in Nat /\ i \in Nat /\ i - 1 \in Nat /\ (i - 1) + 1 = i /\ i \in 0 .. loaded
  BY Files DEF LoadInv, InLoad
<1>2. Place(i) = Place(i - 1) + 1 /\ Place(i - 1) \in Nat
  <2>1. i \in JsonFiles
    BY Files DEF LoadInv
  <2> QED BY <1>1, <2>1, Ranks DEF Place
<1>3. Place(i) <= Place(loaded) /\ Place(loaded) = Len(suite) /\ Place(loaded) \in Nat
  BY <1>1, Ranks DEF Place, LoadInv, InLoad
<1> QED BY <1>2, <1>3

(* What makes a suite sound is what its cases are checked for. *)
LEMMA SoundSuite ==
    ASSUME LoadInv, phase # "refused", loaded = Len(directory)
    PROVE  DistinctIds(suite) <=> Sound
<1>1. /\ \A i \in JsonFiles : i \in 1 .. loaded /\ JsonAt(i)
      /\ loaded \in Nat
  BY Files DEF LoadInv
<1>2. \A i \in JsonFiles : /\ Loads(directory[i].definition)
                             /\ Place(i) \in 1 .. Len(suite)
                             /\ suite[Place(i)].id = directory[i].definition.id
  <2> TAKE i \in JsonFiles
  <2>1. i \in 1 .. loaded /\ JsonAt(i)
    BY <1>1
  <2>2. Place(i) \in 1 .. Len(suite)
    BY <2>1, PlacesOfFiles
  <2>3. Loads(directory[i].definition) /\ suite[Place(i)] = Case(directory[i].definition)
    BY <2>1 DEF LoadInv, InLoad
  <2>4. suite[Place(i)].id = directory[i].definition.id
    BY <2>3 DEF Case
  <2> QED BY <2>2, <2>3, <2>4
<1>3. DOMAIN suite = 1 .. Len(suite)
  BY Lists DEF LoadInv, InLoad
<1>4. ASSUME NEW i \in JsonFiles, NEW j \in JsonFiles, i # j PROVE Place(i) # Place(j)
  <2>1. i \in Nat /\ j \in Nat
    BY <1>1
  <2>2. CASE i < j
    <3>1. Place(i) < Place(j)
      BY <1>4, <2>1, <2>2, RankGrows DEF Place
    <3>2. Place(i) \in Nat /\ Place(j) \in Nat
      BY <2>1, Ranks DEF Place
    <3> QED BY <3>1, <3>2
  <2>3. CASE j < i
    <3>1. Place(j) < Place(i)
      BY <1>4, <2>1, <2>3, RankGrows DEF Place
    <3>2. Place(i) \in Nat /\ Place(j) \in Nat
      BY <2>1, Ranks DEF Place
    <3> QED BY <3>1, <3>2
  <2> QED BY <1>4, <2>1, <2>2, <2>3
<1>5. ASSUME DistinctIds(suite) PROVE Sound
  <2>1. ASSUME NEW i \in JsonFiles, NEW j \in JsonFiles, i # j
        PROVE  directory[i].definition.id # directory[j].definition.id
    <3>1. suite[Place(i)].id # suite[Place(j)].id
      BY <1>2, <1>3, <1>4, <1>5, <2>1 DEF DistinctIds
    <3> QED BY <1>2, <3>1
  <2> QED BY <1>2, <2>1 DEF Sound
<1>6. ASSUME ~DistinctIds(suite) PROVE ~Sound
  <2>1. PICK k, l \in 1 .. Len(suite) : k # l /\ suite[k].id = suite[l].id
    BY <1>3, <1>6 DEF DistinctIds
  <2>2. PICK i \in 1 .. loaded : JsonAt(i) /\ Place(i) = k
    BY DEF LoadInv, InLoad
  <2>3. PICK j \in 1 .. loaded : JsonAt(j) /\ Place(j) = l
    BY DEF LoadInv, InLoad
  <2>4. i \in JsonFiles /\ j \in JsonFiles /\ i # j
    BY <2>1, <2>2, <2>3, Files DEF LoadInv
  <2>5. directory[i].definition.id = directory[j].definition.id
    BY <1>2, <2>1, <2>2, <2>3, <2>4
  <2> QED BY <2>4, <2>5 DEF Sound
<1> QED BY <1>5, <1>6

LEMMA SoundMeans ==
    ASSUME Listing(directory)
    PROVE  Sound <=>
              /\ \A i \in JsonFiles : directory[i].definition # Nothing
              /\ \A i, j \in JsonFiles :
                        i # j => directory[i].definition.id # directory[j].definition.id
              /\ \A i \in JsonFiles : \A k \in DOMAIN directory[i].definition.patterns :
                        /\ directory[i].definition.patterns[k].pattern # Nothing
                        /\ directory[i].definition.patterns[k].set \notin {"both", "neither"}
<1>1. ASSUME NEW i \in JsonFiles
      PROVE  Loads(directory[i].definition) <=>
                /\ directory[i].definition # Nothing
                /\ \A k \in DOMAIN directory[i].definition.patterns :
                        /\ directory[i].definition.patterns[k].pattern # Nothing
                        /\ directory[i].definition.patterns[k].set \notin {"both", "neither"}
  <2>1. i \in DOMAIN directory
    BY Files
  <2>2. directory[i].definition # Nothing =>
            \A k \in DOMAIN directory[i].definition.patterns :
                directory[i].definition.patterns[k].set \in {"source", "file", "both", "neither"}
    BY <2>1 DEF Listing
  <2> QED BY <2>2 DEF Loads, ExactlyOne
<1> QED BY <1>1 DEF Sound

LEMMA LoadInductive ==
    ASSUME LoadInv, [SuiteNext]_suiteVars
    PROVE  LoadInv'
<1>1. CASE LoadCase
  <2> DEFINE file == directory[loaded + 1]
  <2>1. /\ phase = "load" /\ loaded < Len(directory) /\ loaded' = loaded + 1
        /\ directory' = directory
    BY <1>1 DEF LoadCase
  <2>2. /\ loaded \in Nat /\ loaded + 1 \in 1 .. Len(directory) /\ Len(directory) \in Nat
        /\ loaded + 1 \in DOMAIN directory
        /\ JsonFiles' = JsonFiles /\ Listing(directory)
        /\ InLoad
    BY <2>1, Files DEF LoadInv, InLoad, JsonFiles
  <2>3. \A i : /\ Place(i)' = Place(i)
               /\ JsonAt(i)' <=> JsonAt(i)
    BY <2>1, <2>2 DEF Place, JsonAt
  <2>4. Sound' <=> Sound
    BY <2>1, <2>2 DEF Sound
  <2>5. JsonAt(loaded + 1) <=> file.json
    BY <2>2 DEF JsonAt
  <2>6. /\ JsonAt(loaded + 1) => Place(loaded + 1) = Place(loaded) + 1
        /\ ~JsonAt(loaded + 1) => Place(loaded + 1) = Place(loaded)
        /\ Place(loaded) \in Nat
    BY <2>2, Ranks, Files DEF Place
  <2>7. ASSUME ~file.json, UNCHANGED <<suite, phase>> PROVE LoadInv'
    <3>1. InLoad'
      BY <2>1, <2>2, <2>3, <2>5, <2>6, <2>7 DEF InLoad
    <3> QED BY <2>1, <2>2, <2>7, <3>1 DEF LoadInv
  <2>8. ASSUME file.json, Loads(file.definition),
               suite' = Append(suite, Case(file.definition)), phase' = phase
        PROVE  LoadInv'
    <3>1. /\ IsList(suite') /\ Len(suite') = Len(suite) + 1 /\ Len(suite) \in Nat
          /\ \A i \in 1 .. Len(suite) : suite'[i] = suite[i]
          /\ suite'[Len(suite) + 1] = Case(file.definition)
      BY <2>2, <2>8, Lists DEF InLoad
    <3>2. /\ JsonAt(loaded + 1) /\ Place(loaded + 1) = Len(suite) + 1
      BY <2>2, <2>5, <2>6, <2>8 DEF InLoad
    <3>3. \A i \in 1 .. loaded : JsonAt(i) =>
              /\ Loads(directory[i].definition)
              /\ suite'[Place(i)] = Case(directory[i].definition)
      <4> TAKE i \in 1 .. loaded
      <4> HAVE JsonAt(i)
      <4>1. Place(i) \in 1 .. Len(suite)
        BY <2>1, PlacesOfFiles
      <4> QED BY <2>2, <3>1, <4>1 DEF InLoad
    <3>4. ASSUME NEW i \in 1 .. loaded + 1, JsonAt(i)
          PROVE  /\ Loads(directory[i].definition)
                 /\ suite'[Place(i)] = Case(directory[i].definition)
      <4>1. CASE i \in 1 .. loaded
        BY <3>3, <3>4, <4>1
      <4>2. CASE i = loaded + 1
        BY <2>8, <3>1, <3>2, <4>2
      <4> QED BY <2>2, <4>1, <4>2
    <3>5. ASSUME NEW k \in 1 .. Len(suite) + 1
          PROVE  \E i \in 1 .. loaded + 1 : JsonAt(i) /\ Place(i) = k
      <4>1. CASE k \in 1 .. Len(suite)
        <5>1. PICK i \in 1 .. loaded : JsonAt(i) /\ Place(i) = k
          BY <2>2, <4>1 DEF InLoad
        <5> QED BY <2>2, <5>1
      <4>2. CASE k = Len(suite) + 1
        BY <2>2, <3>2, <4>2
      <4> QED BY <3>1, <4>1, <4>2
    <3>6. InLoad'
      BY <2>1, <2>2, <2>3, <3>1, <3>2, <3>4, <3>5 DEF InLoad
    <3> QED BY <2>1, <2>2, <2>8, <3>6 DEF LoadInv
  <2>9. ASSUME file.json, ~Loads(file.definition), phase' = "refused"
        PROVE  LoadInv'
    <3>1. ~Sound
      BY <2>2, <2>5, <2>9, Files DEF Sound
    <3> QED BY <2>1, <2>2, <2>4, <2>9, <3>1 DEF LoadInv
  <2> QED BY <1>1, <2>7, <2>8, <2>9 DEF LoadCase
<1>2. CASE Validate
  <2>1. /\ phase = "load" /\ loaded = Len(directory)
        /\ phase' = IF DistinctIds(suite) THEN "run" ELSE "refused"
        /\ directory' = directory /\ loaded' = loaded /\ suite' = suite
    BY <1>2 DEF Validate
  <2>2. DistinctIds(suite) <=> Sound
    BY <2>1, SoundSuite
  <2>3. Sound' <=> Sound
    BY <2>1 DEF Sound, JsonFiles
  <2>4. InLoad' <=> InLoad
    BY <2>1 DEF InLoad, Place, JsonAt, JsonFiles
  <2>5. Listing(directory') /\ InLoad'
    BY <2>1, <2>4 DEF LoadInv
  <2>6. CASE DistinctIds(suite)
    BY <2>1, <2>5, <2>6 DEF LoadInv
  <2>7. CASE ~DistinctIds(suite)
    BY <2>1, <2>2, <2>3, <2>5, <2>7 DEF LoadInv
  <2> QED BY <2>6, <2>7
<1>3. ASSUME UNCHANGED <<directory, loaded, suite>>,
             phase' = phase \/ (phase = "run" /\ phase' = "done")
      PROVE  LoadInv'
  <2>1. directory' = directory /\ loaded' = loaded /\ suite' = suite
    BY <1>3
  <2>2. Sound' <=> Sound
    BY <2>1 DEF Sound, JsonFiles
  <2>3. InLoad' <=> InLoad
    BY <2>1 DEF InLoad, Place, JsonAt, JsonFiles
  <2> QED BY <1>3, <2>1, <2>2, <2>3 DEF LoadInv
<1>4. CASE Ingest \/ Match \/ Ground \/ EndCase \/ BuildReport \/ UNCHANGED suiteVars
  <2>1. UNCHANGED <<directory, loaded, suite>>
    BY <1>4 DEF Ingest, Match, Ground, EndCase, BuildReport, suiteVars
  <2>2. phase' = phase \/ (phase = "run" /\ phase' = "done")
    BY <1>4 DEF Ingest, Match, Ground, EndCase, BuildReport, suiteVars
  <2> QED BY <1>3, <2>1, <2>2
<1> QED BY <1>1, <1>2, <1>4 DEF SuiteNext

LEMMA LoadInit == ASSUME SuiteInit PROVE LoadInv
<1>1. directory \in Directories /\ loaded = 0 /\ suite = <<>> /\ phase = "load"
  BY DEF SuiteInit
<1>2. Listing(directory)
  BY <1>1, DirectoriesAssumption
<1>3. IsList(suite) /\ Len(suite) = 0
  <2>1. <<>> \in Seq(ToSet(<<>>))
    OBVIOUS
  <2> QED BY <1>1, <2>1 DEF IsList
<1>4. Place(0) = 0
  BY Ranks DEF Place
<1>5. loaded \in 0 .. Len(directory)
  BY <1>1, <1>2, Files
<1>6. InLoad
  BY <1>1, <1>3, <1>4, <1>5 DEF InLoad
<1> QED BY <1>1, <1>2, <1>6 DEF LoadInv

(* A suite that runs is the whole of its directory, in order and with nothing
   that could not be read, and one that is refused has a fault, for any
   directory. *)
THEOREM WholeDirectory == SuiteSpec => []RunsTheWholeDirectory
<1>1. SuiteInit => LoadInv
  BY LoadInit
<1>2. LoadInv /\ [SuiteNext]_suiteVars => LoadInv'
  BY LoadInductive
<1>3. LoadInv => RunsTheWholeDirectory
  <2> SUFFICES ASSUME LoadInv PROVE RunsTheWholeDirectory
    OBVIOUS
  <2>1. Listing(directory)
    BY DEF LoadInv
  <2>2. ASSUME phase \in {"run", "done"}
        PROVE  /\ Sound
               /\ Len(suite) = Cardinality(JsonFiles)
               /\ \A i \in JsonFiles : suite[Place(i)].id = directory[i].definition.id
    <3>1. phase # "refused" /\ loaded = Len(directory) /\ DistinctIds(suite) /\ InLoad
      BY <2>2 DEF LoadInv
    <3>2. Sound
      BY <3>1, SoundSuite
    <3>3. Len(suite) = Cardinality(JsonFiles)
      BY <2>1, <3>1, Files, RankOfAll DEF InLoad, Place
    <3>4. \A i \in JsonFiles : suite[Place(i)].id = directory[i].definition.id
      <4> TAKE i \in JsonFiles
      <4>1. i \in 1 .. loaded /\ JsonAt(i)
        BY <2>1, <3>1, Files
      <4>2. suite[Place(i)] = Case(directory[i].definition)
        BY <3>1, <4>1 DEF InLoad
      <4> QED BY <4>2 DEF Case
    <3> QED BY <3>2, <3>3, <3>4
  <2>3. phase = "refused" => ~Sound
    BY DEF LoadInv
  <2> DEFINE Checked ==
                /\ \A i \in JsonFiles : directory[i].definition # Nothing
                /\ \A i, j \in JsonFiles :
                        i # j => directory[i].definition.id # directory[j].definition.id
                /\ \A i \in JsonFiles : \A k \in DOMAIN directory[i].definition.patterns :
                        /\ directory[i].definition.patterns[k].pattern # Nothing
                        /\ directory[i].definition.patterns[k].set \notin {"both", "neither"}
  <2>4. Checked <=> Sound
    BY <2>1, SoundMeans
  <2>5. RunsTheWholeDirectory <=>
            /\ phase = "refused" => ~Checked
            /\ phase \in {"run", "done"} =>
                    /\ Checked
                    /\ Len(suite) = Cardinality(JsonFiles)
                    /\ \A i \in JsonFiles : suite[Place(i)].id = directory[i].definition.id
    BY DEF RunsTheWholeDirectory, Place
  <2> HIDE DEF Checked
  <2> QED BY <2>2, <2>3, <2>4, <2>5
<1> QED BY <1>1, <1>2, <1>3, PTL DEF SuiteSpec

-----------------------------------------------------------------------------
(* The strongest of a pattern's statuses.                                   *)

LEMMA VerdictIs ==
    ASSUME NEW S \in SUBSET GroundingStatuses
    PROVE  VerdictOver(S) = IF "Grounded" \in S THEN "Grounded"
                          ELSE IF "Abstain" \in S THEN "Abstain"
                          ELSE IF "Ungrounded" \in S THEN "Ungrounded" ELSE "NoMatch"
<1>1. \A x \in S : x = "Grounded" \/ x = "Abstain" \/ x = "Ungrounded"
  BY DEF GroundingStatuses, Outcomes
<1>2. CASE "Grounded" \in S
  BY <1>2 DEF VerdictOver
<1>3. CASE "Grounded" \notin S /\ "Abstain" \in S
  BY <1>3 DEF VerdictOver
<1>4. CASE "Grounded" \notin S /\ "Abstain" \notin S /\ "Ungrounded" \in S
  <2>1. S = {"Ungrounded"}
    BY <1>1, <1>4
  <2> QED BY <1>4, <2>1 DEF VerdictOver
<1>5. CASE "Grounded" \notin S /\ "Abstain" \notin S /\ "Ungrounded" \notin S
  <2>1. S = {}
    BY <1>1, <1>5
  <2> QED BY <2>1 DEF VerdictOver
<1> QED BY <1>2, <1>3, <1>4, <1>5

LEMMA VerdictGrows ==
    ASSUME NEW S \in SUBSET GroundingStatuses, NEW x \in GroundingStatuses
    PROVE  Strongest(VerdictOver(S), x) = VerdictOver(S \union {x})
<1>1. S \union {x} \in SUBSET GroundingStatuses
  OBVIOUS
<1>2. x = "Grounded" \/ x = "Abstain" \/ x = "Ungrounded"
  BY DEF GroundingStatuses, Outcomes
<1> QED BY <1>1, <1>2, VerdictIs DEF Strongest

StrongestOf(c, statuses) ==
    c = [s \in SUBSET DOMAIN statuses |->
            IF s = {} THEN "NoMatch"
            ELSE LET x == Max(s) IN Strongest(c[s \ {x}], statuses[x])]

LEMMA StrongestIs ==
    ASSUME NEW pattern, NEW statuses
    PROVE  Result(pattern, statuses).actual =
                (CHOOSE c : StrongestOf(c, statuses))[DOMAIN statuses]
BY DEF Result, StrongestOf, FoldLeft, MapThenFoldSet, Max

LEMMA OutcomeIsVerdict ==
    ASSUME NEW pattern, NEW statuses \in Seq(GroundingStatuses)
    PROVE  Result(pattern, statuses).actual =
                VerdictOver({statuses[k] : k \in DOMAIN statuses})
<1> DEFINE n == Len(statuses)
           S == 1 .. n
           pick == [s \in SUBSET S |-> Max(s)]
           step == [x \in S |-> [v \in Outcomes |-> Strongest(v, statuses[x])]]
<1>1. n \in Nat /\ DOMAIN statuses = S /\ IsFiniteSet(S) /\ "NoMatch" \in Outcomes
  <2>1. n \in Nat /\ DOMAIN statuses = S
    OBVIOUS
  <2> QED BY <2>1, FS_Interval DEF Outcomes
<1>2. \A s \in SUBSET S : pick[s] = Max(s)
  OBVIOUS
<1>3. \A s \in SUBSET S : s # {} => pick[s] \in s /\ \A y \in s : y <= pick[s]
  BY <1>1, <1>2, MaxIs
<1>14. \A x \in S : statuses[x] \in GroundingStatuses
  OBVIOUS
<1>4. /\ step \in [S -> [Outcomes -> Outcomes]]
      /\ \A x \in S : \A v \in Outcomes : step[x][v] = Strongest(v, statuses[x])
  <2>1. \A x \in S : \A v \in Outcomes : Strongest(v, statuses[x]) \in Outcomes
    BY <1>14 DEF Strongest, Outcomes, GroundingStatuses
  <2> HIDE DEF S
  <2> QED BY <2>1
<1> HIDE DEF pick, step
<1>5. Foldable(S, Outcomes, "NoMatch", pick, step)
  BY <1>1, <1>3, <1>4 DEF Foldable, Picking
<1>6. PICK f : /\ f = [s \in SUBSET S |-> f[s]]
               /\ FoldOf(f, S, Outcomes, "NoMatch", pick, step)
  BY <1>5, FoldExists, Zenon
<1>7. \A s \in SUBSET S : s # {} => pick[s] \in S /\ s \ {pick[s]} \in SUBSET S
  BY <1>3
<1> HIDE DEF S, n
<1>8. StrongestOf(f, statuses)
  <2>1. ASSUME NEW s \in SUBSET S, s # {}
        PROVE  f[s] = LET x == Max(s) IN Strongest(f[s \ {x}], statuses[x])
    <3>1. f[s] = step[pick[s]][f[s \ {pick[s]}]]
      BY <1>6, <2>1 DEF FoldOf, Folded
    <3>2. f[s \ {pick[s]}] \in Outcomes
      BY <1>6, <1>7, <2>1 DEF FoldOf
    <3>3. f[s] = Strongest(f[s \ {pick[s]}], statuses[pick[s]])
      BY <1>4, <1>7, <2>1, <3>1, <3>2
    <3> QED BY <1>2, <3>3
  <2>2. f[{}] = "NoMatch"
    BY <1>6 DEF FoldOf, Folded
  <2>4. \A s \in SUBSET S :
            f[s] = IF s = {} THEN "NoMatch"
                   ELSE LET x == Max(s) IN Strongest(f[s \ {x}], statuses[x])
    BY <2>1, <2>2
  <2>3. f = [s \in SUBSET S |-> f[s]]
    BY <1>6, Zenon
  <2> QED BY <1>1, <2>3, <2>4, Zenon DEF StrongestOf
<1> DEFINE c == CHOOSE d : StrongestOf(d, statuses)
<1>9. StrongestOf(c, statuses)
  BY <1>8
<1>10. Result(pattern, statuses).actual = c[S]
  BY <1>1, StrongestIs
<1> HIDE DEF c
<1>11. \A s \in SUBSET S :
            c[s] = IF s = {} THEN "NoMatch"
                   ELSE Strongest(c[s \ {pick[s]}], statuses[pick[s]])
  <2>1. \A s \in SUBSET S :
            c[s] = IF s = {} THEN "NoMatch"
                   ELSE LET x == Max(s) IN Strongest(c[s \ {x}], statuses[x])
    BY <1>1, <1>9 DEF StrongestOf
  <2> QED BY <1>2, <2>1
<1> DEFINE Upto(k) == {statuses[i] : i \in 1 .. k}
           T == {k \in 0 .. n : c[1 .. k] # VerdictOver(Upto(k))}
<1>12. 0 \notin T
  <2>1. 1 .. 0 = {} /\ Upto(0) = {}
    OBVIOUS
  <2>2. c[{}] = "NoMatch"
    BY <1>11
  <2>3. VerdictOver({}) = "NoMatch"
    BY VerdictIs
  <2>4. c[1 .. 0] = VerdictOver(Upto(0))
    BY <2>1, <2>2, <2>3
  <2> HIDE DEF Upto
  <2> QED BY <2>4
<1>13. ASSUME NEW k \in 1 .. n, k - 1 \notin T PROVE k \notin T
  <2>1. 1 .. k \in SUBSET S /\ 1 .. k # {} /\ k \in 1 .. k /\ (1 .. k) \ {k} = 1 .. k - 1
        /\ k - 1 \in 0 .. n
    <3> HIDE DEF T, Upto
    <3>1. k \in Nat /\ 1 <= k /\ k <= n
      BY <1>1
    <3>2. 1 .. k \in SUBSET S /\ k \in 1 .. k /\ (1 .. k) \ {k} = 1 .. k - 1
      BY <1>1, <3>1 DEF S
    <3>3. k - 1 \in 0 .. n
      BY <1>1, <3>1
    <3> QED BY <3>2, <3>3
  <2>2. pick[1 .. k] = k
    <3>1. pick[1 .. k] \in 1 .. k /\ k <= pick[1 .. k]
      BY <1>3, <2>1
    <3> QED BY <1>1, <3>1
  <2>3. c[1 .. k] = Strongest(c[1 .. k - 1], statuses[k])
    BY <1>11, <2>1, <2>2
  <2>4. Upto(k - 1) \in SUBSET GroundingStatuses /\ statuses[k] \in GroundingStatuses
    BY <1>1, <1>14 DEF S
  <2>5. Upto(k) = Upto(k - 1) \union {statuses[k]}
    <3>1. \A i : i \in 1 .. k <=> i \in 1 .. k - 1 \/ i = k
      BY <1>1
    <3> QED BY <3>1
  <2> HIDE DEF Upto
  <2>6. c[1 .. k - 1] = VerdictOver(Upto(k - 1))
    BY <1>13, <2>1
  <2>7. c[1 .. k] = VerdictOver(Upto(k))
    BY <2>3, <2>4, <2>5, <2>6, VerdictGrows
  <2> QED BY <2>7
<1>15. T = {}
  <2> SUFFICES ASSUME T # {} PROVE FALSE
    OBVIOUS
  <2>1. T \in SUBSET Nat
    OBVIOUS
  <2>2. PICK k \in T : \A y \in T : k <= y
    <3> HIDE DEF T
    <3> QED BY <2>1, MinExists
  <2>3. k \in 0 .. n /\ k # 0
    BY <1>12, <2>2
  <2>4. k \in 1 .. n /\ k - 1 \in Nat /\ ~(k <= k - 1)
    BY <1>1, <2>3
  <2> HIDE DEF T
  <2>5. k - 1 \notin T
    BY <2>2, <2>4
  <2> QED BY <1>13, <2>2, <2>4, <2>5
<1>16. c[1 .. n] = VerdictOver(Upto(n))
  <2>1. n \in 0 .. n /\ n \notin T
    <3> HIDE DEF T
    <3> QED BY <1>1, <1>15
  <2> HIDE DEF Upto
  <2> QED BY <2>1
<1>17. Upto(n) = {statuses[k] : k \in DOMAIN statuses}
  BY <1>1 DEF S
<1> QED BY <1>10, <1>16, <1>17 DEF S

-----------------------------------------------------------------------------
(* What a pattern result says.                                              *)

ResultFits(r, pattern, statuses) ==
    /\ r.id = pattern.id /\ r.version = pattern.version
    /\ r.actual = VerdictOver({statuses[k] : k \in DOMAIN statuses})
    /\ r.count = Len(statuses)
    /\ [k \in DOMAIN r.taxonomy |-> r.taxonomy[k].status] = statuses

LEMMA MappedStatus ==
    ASSUME NEW registry, NEW family, NEW statuses, NEW n, statuses = [k \in 1 .. n |-> statuses[k]]
    PROVE  [k \in DOMAIN MapAll(registry, family, statuses) |->
                MapAll(registry, family, statuses)[k].status] = statuses
<1> DEFINE mapped == MapAll(registry, family, statuses)
<1>1. \A status : MapResult(registry, family, status).status = status
  BY DEF MapResult
<1>2. DOMAIN mapped = 1 .. n /\ \A k \in 1 .. n : mapped[k] = MapResult(registry, family, statuses[k])
  BY DEF MapAll
<1> HIDE DEF mapped
<1>3. \A k \in 1 .. n : mapped[k].status = statuses[k]
  BY <1>1, <1>2
<1>4. [k \in DOMAIN mapped |-> mapped[k].status] = statuses
  BY <1>2, <1>3
<1> QED BY <1>4 DEF mapped

LEMMA ResultIs ==
    ASSUME NEW pattern, NEW statuses \in Seq(GroundingStatuses)
    PROVE  ResultFits(Result(pattern, statuses), pattern, statuses)
<1> DEFINE r == Result(pattern, statuses)
<1>1. r.id = pattern.id /\ r.version = pattern.version /\ r.count = Len(statuses)
  BY DEF Result
<1>2. r.taxonomy = MapAll(DefaultRegistry, pattern.family, statuses)
  BY DEF Result
<1>3. statuses = [k \in 1 .. Len(statuses) |-> statuses[k]]
  OBVIOUS
<1>4. [k \in DOMAIN r.taxonomy |-> r.taxonomy[k].status] = statuses
  BY <1>2, <1>3, MappedStatus
<1>5. r.actual = VerdictOver({statuses[k] : k \in DOMAIN statuses})
  BY OutcomeIsVerdict
<1> HIDE DEF r
<1>6. ResultFits(r, pattern, statuses)
  BY <1>1, <1>4, <1>5 DEF ResultFits
<1> QED BY <1>6 DEF r

-----------------------------------------------------------------------------
(* What a case result says.                                                 *)

KeptOf(answer) == {i \in DOMAIN answer.patterns : ~answer.patterns[i].failed}

Fails(answer) == ~answer.trace \/ \E i \in DOMAIN answer.patterns : answer.patterns[i].failed

CaseFits(case, answer, cs) ==
    /\ case.errors > 0 <=> Fails(answer)
    /\ Len(case.results) = Cardinality(KeptOf(answer))
    /\ \A i \in KeptOf(answer) :
            ResultFits(case.results[Rank(KeptOf(answer), i)], cs.patterns[i],
                       answer.patterns[i].statuses)

(* A case under way: what it has reported of the patterns so far. *)
Reporting(case, answer, cs) ==
    /\ IsList(answer.patterns) /\ answer.trace = TRUE
    /\ IsList(case.results) /\ case.errors \in Nat
    /\ CaseFits(case, answer, cs)

(* more has one more pattern's answer, x. *)
Longer(answer, more, x) ==
    LET n == Len(answer.patterns)
    IN  /\ n \in Nat /\ DOMAIN answer.patterns = 1 .. n
        /\ IsList(more.patterns) /\ DOMAIN more.patterns = 1 .. n + 1
        /\ \A i \in 1 .. n : more.patterns[i] = answer.patterns[i]
        /\ more.patterns[n + 1] = x
        /\ KeptOf(more) = KeptOf(answer) \union (IF x.failed THEN {} ELSE {n + 1})
        /\ KeptOf(answer) \in SUBSET (1 .. n)
        /\ \A i \in KeptOf(answer) : Rank(KeptOf(more), i) = Rank(KeptOf(answer), i)
        /\ Rank(KeptOf(answer), n) = Cardinality(KeptOf(answer))

LEMMA KeptGrows ==
    ASSUME NEW answer, IsList(answer.patterns), NEW more, NEW x,
           more.patterns = Append(answer.patterns, x)
    PROVE  Longer(answer, more, x)
<1> DEFINE n == Len(answer.patterns)
<1>1. /\ n \in Nat /\ DOMAIN answer.patterns = 1 .. n
      /\ IsList(more.patterns) /\ Len(more.patterns) = n + 1
      /\ \A i \in 1 .. n : more.patterns[i] = answer.patterns[i]
      /\ more.patterns[n + 1] = x
  BY Lists
<1>2. DOMAIN more.patterns = 1 .. n + 1
  BY <1>1, Lists
<1>3. KeptOf(answer) \in SUBSET (1 .. n)
  BY <1>1 DEF KeptOf
<1> HIDE DEF n
<1>4. \A i : i \in KeptOf(more) <=> i \in KeptOf(answer) \/ (i = n + 1 /\ ~x.failed)
  <2>1. \A i : i \in 1 .. n + 1 <=> i \in 1 .. n \/ i = n + 1
    BY <1>1
  <2>2. n + 1 \notin 1 .. n
    BY <1>1
  <2> QED BY <1>1, <1>2, <2>1, <2>2 DEF KeptOf
<1>5. KeptOf(more) = KeptOf(answer) \union (IF x.failed THEN {} ELSE {n + 1})
  BY <1>4
<1>6. ASSUME NEW i \in KeptOf(answer) PROVE Rank(KeptOf(more), i) = Rank(KeptOf(answer), i)
  <2>1. i \in Nat /\ i <= n
    BY <1>1, <1>3
  <2>2. \A j \in 1 .. i : j \in KeptOf(more) <=> j \in KeptOf(answer)
    BY <1>1, <1>4, <2>1
  <2> QED BY <2>1, <2>2, RankOfPart
<1>7. Rank(KeptOf(answer), n) = Cardinality(KeptOf(answer))
  BY <1>1, <1>3, RankOfAll
<1> QED BY <1>1, <1>2, <1>3, <1>5, <1>6, <1>7 DEF n, Longer

LEMMA PatternFails ==
    ASSUME NEW case, NEW answer, NEW cs, Reporting(case, answer, cs),
           NEW case2, NEW answer2, NEW x, x.failed = TRUE,
           case2.errors = case.errors + 1, case2.results = case.results,
           answer2.trace = TRUE, answer2.patterns = Append(answer.patterns, x)
    PROVE  Reporting(case2, answer2, cs)
<1>1. /\ IsList(answer2.patterns) /\ KeptOf(answer2) = KeptOf(answer)
      /\ Len(answer.patterns) + 1 \in DOMAIN answer2.patterns
      /\ answer2.patterns[Len(answer.patterns) + 1] = x
      /\ \A i \in KeptOf(answer) : answer2.patterns[i] = answer.patterns[i]
  <2>1. IsList(answer.patterns)
    BY DEF Reporting
  <2>2. Longer(answer, answer2, x)
    BY <2>1, KeptGrows, Zenon
  <2> QED BY <2>2 DEF Longer
<1>2. case2.errors \in Nat /\ case2.errors > 0
  BY DEF Reporting
<1>3. Fails(answer2)
  BY <1>1 DEF Fails
<1>4. Len(case2.results) = Cardinality(KeptOf(answer2))
  BY <1>1 DEF Reporting, CaseFits
<1>5. \A i \in KeptOf(answer2) :
            ResultFits(case2.results[Rank(KeptOf(answer2), i)], cs.patterns[i],
                       answer2.patterns[i].statuses)
  BY <1>1 DEF Reporting, CaseFits
<1> QED BY <1>1, <1>2, <1>3, <1>4, <1>5 DEF Reporting, CaseFits

LEMMA PatternAnswers ==
    ASSUME NEW case, NEW answer, NEW cs, Reporting(case, answer, cs),
           NEW case2, NEW answer2, NEW x, x.failed = FALSE,
           NEW r, ResultFits(r, cs.patterns[Len(answer.patterns) + 1], x.statuses),
           case2.errors = case.errors, case2.results = Append(case.results, r),
           answer2.trace = TRUE, answer2.patterns = Append(answer.patterns, x)
    PROVE  Reporting(case2, answer2, cs)
<1> DEFINE n == Len(answer.patterns)
           m == Len(case.results)
<1>1. /\ IsList(answer2.patterns) /\ KeptOf(answer2) = KeptOf(answer) \union {n + 1}
      /\ n \in Nat /\ DOMAIN answer.patterns = 1 .. n /\ DOMAIN answer2.patterns = 1 .. n + 1
      /\ answer2.patterns[n + 1] = x
      /\ \A i \in 1 .. n : answer2.patterns[i] = answer.patterns[i]
      /\ KeptOf(answer) \in SUBSET (1 .. n)
      /\ \A i \in KeptOf(answer) : Rank(KeptOf(answer2), i) = Rank(KeptOf(answer), i)
      /\ Rank(KeptOf(answer), n) = Cardinality(KeptOf(answer))
  <2>1. IsList(answer.patterns)
    BY DEF Reporting
  <2>2. Longer(answer, answer2, x)
    BY <2>1, KeptGrows, Zenon
  <2>3. (IF x.failed THEN {} ELSE {n + 1}) = {n + 1}
    OBVIOUS
  <2> QED BY <2>2, <2>3 DEF Longer
<1>2. /\ IsList(case2.results) /\ Len(case2.results) = m + 1 /\ m \in Nat
      /\ \A i \in 1 .. m : case2.results[i] = case.results[i]
      /\ case2.results[m + 1] = r
  BY Lists DEF Reporting
<1> HIDE DEF n, m
<1>3. m = Cardinality(KeptOf(answer))
  BY DEF Reporting, CaseFits, m
<1>4. Rank(KeptOf(answer2), n + 1) = m + 1
  <2>1. Rank(KeptOf(answer2), n) = m
    <3>1. \A i \in 1 .. n : i \in KeptOf(answer2) <=> i \in KeptOf(answer)
      BY <1>1
    <3> QED BY <1>1, <1>3, <3>1, RankOfPart
  <2>2. n + 1 \in KeptOf(answer2)
    BY <1>1
  <2> QED BY <1>1, <2>1, <2>2, Ranks
<1>5. Len(case2.results) = Cardinality(KeptOf(answer2))
  <2>1. KeptOf(answer2) \in SUBSET (1 .. n + 1) /\ n + 1 \in Nat
    BY <1>1
  <2> QED BY <1>2, <1>4, <2>1, RankOfAll
<1>6. case2.errors \in Nat /\ (case2.errors > 0 <=> Fails(answer2))
  <2>1. Fails(answer2) <=> Fails(answer)
    <3>1. \A i : i \in 1 .. n + 1 <=> i \in 1 .. n \/ i = n + 1
      BY <1>1
    <3>2. (\E i \in 1 .. n + 1 : answer2.patterns[i].failed)
                <=> \E i \in 1 .. n : answer.patterns[i].failed
      BY <1>1, <3>1
    <3> QED BY <1>1, <3>2 DEF Fails, Reporting
  <2> QED BY <2>1 DEF Reporting, CaseFits
<1>7. ASSUME NEW i \in KeptOf(answer2)
      PROVE  ResultFits(case2.results[Rank(KeptOf(answer2), i)], cs.patterns[i],
                        answer2.patterns[i].statuses)
  <2>1. CASE i = n + 1
    BY <1>1, <1>2, <1>4, <2>1 DEF n
  <2>2. CASE i \in KeptOf(answer)
    <3>1. i \in Nat /\ i - 1 \in Nat /\ (i - 1) + 1 = i /\ i <= n
      BY <1>1, <2>2
    <3>2. Rank(KeptOf(answer), i) = Rank(KeptOf(answer), i - 1) + 1
          /\ Rank(KeptOf(answer), i - 1) \in Nat
      BY <2>2, <3>1, Ranks
    <3>3. Rank(KeptOf(answer), i) <= Rank(KeptOf(answer), n)
      BY <1>1, <3>1, Ranks
    <3>4. Rank(KeptOf(answer), i) \in 1 .. m
      BY <1>1, <1>2, <1>3, <3>2, <3>3
    <3>5. case2.results[Rank(KeptOf(answer2), i)] = case.results[Rank(KeptOf(answer), i)]
      BY <1>1, <1>2, <2>2, <3>4
    <3>6. answer2.patterns[i] = answer.patterns[i]
      BY <1>1, <2>2
    <3>7. ResultFits(case.results[Rank(KeptOf(answer), i)], cs.patterns[i],
                     answer.patterns[i].statuses)
      BY <2>2 DEF Reporting, CaseFits
    <3> QED BY <3>5, <3>6, <3>7
  <2> QED BY <1>1, <2>1, <2>2
<1> QED BY <1>1, <1>2, <1>5, <1>6, <1>7 DEF Reporting, CaseFits

(* Before the first pattern there is nothing to report. *)
LEMMA NothingYet ==
    ASSUME NEW cs, NEW case, case.errors = 0, case.results = <<>>,
           NEW answer, answer.trace = TRUE, answer.patterns = <<>>
    PROVE  Reporting(case, answer, cs)
<1>1. KeptOf(answer) = {} /\ ~Fails(answer)
  BY DEF KeptOf, Fails
<1>2. IsList(<<>>)
  <2>1. <<>> \in Seq(ToSet(<<>>))
    OBVIOUS
  <2> QED BY <2>1 DEF IsList
<1>3. Cardinality({}) = 0
  BY FS_EmptySet
<1> QED BY <1>1, <1>2, <1>3 DEF Reporting, CaseFits

-----------------------------------------------------------------------------
(* Running a suite.                                                         *)

CaseOK(c) ==
    /\ CaseFits(results[c], answers[c], suite[c])
    /\ answers[c].trace => Len(answers[c].patterns) = Len(suite[c].patterns)

(* The case under way, and what was answered in it. *)
CaseUnderWay ==
    LET answer == answers[Len(answers)]
    IN  /\ Len(answers) = Len(results) + 1
        /\ answer = [trace |-> answer.trace, patterns |-> answer.patterns]
        /\ Len(answer.patterns) = done
        /\ current = [results |-> current.results, errors |-> current.errors]
        /\ Reporting(current, answer, suite[Len(results) + 1])
        /\ stage = "ground" => candidates \in Nat

RunInv ==
    /\ IsList(results) /\ IsList(answers)
    /\ phase \notin {"run", "done"} => Len(results) = 0 /\ stage = "ingest"
    /\ \A c \in 1 .. Len(results) : CaseOK(c)
    /\ stage = "ingest" => Len(answers) = Len(results) /\ done = 0 /\ current = EmptyCase
    /\ stage # "ingest" => CaseUnderWay

LEMMA ListIs ==
    ASSUME NEW n \in Nat, NEW f, f = [i \in 1 .. n |-> f[i]]
    PROVE  IsList(f) /\ Len(f) = n
<1> DEFINE S == {f[i] : i \in DOMAIN f}
<1>1. DOMAIN f = 1 .. n
  OBVIOUS
<1>2. \A i \in 1 .. n : f[i] \in S
  BY <1>1
<1> HIDE DEF S
<1>3. f \in Seq(S) /\ Len(f) = n
  BY <1>2
<1> QED BY <1>3 DEF S, IsList, ToSet

(* One more answer in the case under way. *)
LEMMA AnswersOf ==
    ASSUME RunInv, stage # "ingest", NEW failed, NEW statuses, Answered(failed, statuses)
    PROVE  /\ IsList(answers') /\ Len(answers') = Len(answers)
           /\ Len(answers) \in Nat /\ Len(answers) = Len(results) + 1 /\ Len(results) \in Nat
           /\ \A c \in 1 .. Len(results) : answers'[c] = answers[c]
           /\ answers'[Len(answers)] =
                [trace |-> answers[Len(answers)].trace,
                 patterns |-> Append(answers[Len(answers)].patterns,
                                     [failed |-> failed, statuses |-> statuses])]
<1> DEFINE n == Len(answers)
           x == [failed |-> failed, statuses |-> statuses]
           more == [trace |-> answers[n].trace, patterns |-> Append(answers[n].patterns, x)]
<1>1. /\ n \in Nat /\ DOMAIN answers = 1 .. n /\ Len(results) \in Nat /\ n = Len(results) + 1
      /\ answers = [i \in 1 .. n |-> answers[i]]
  <2>1. answers \in Seq({answers[i] : i \in DOMAIN answers})
    BY DEF RunInv, IsList, ToSet
  <2>2. Len(results) \in Nat /\ n = Len(results) + 1
    BY Lists DEF RunInv, CaseUnderWay
  <2> QED BY <2>1, <2>2
<1>2. answers[n] = [trace |-> answers[n].trace, patterns |-> answers[n].patterns]
  BY DEF RunInv, CaseUnderWay
<1>3. answers' = [answers EXCEPT ![n].patterns = Append(answers[n].patterns, x)]
  BY DEF Answered
<1> HIDE DEF n, x
<1>4. answers'[n] = more
  <2> DEFINE a == answers[n]
             longer == Append(a.patterns, x)
  <2>1. n \in DOMAIN answers
    BY <1>1
  <2>2. answers' = [answers EXCEPT ![n].patterns = longer]
    BY <1>3
  <2>3. a = [trace |-> a.trace, patterns |-> a.patterns]
    BY <1>2
  <2> HIDE DEF longer
  <2>4. answers'[n] = [a EXCEPT !.patterns = longer]
    BY <2>1, <2>2
  <2> HIDE DEF a
  <2>5. [a EXCEPT !.patterns = longer] = [trace |-> a.trace, patterns |-> longer]
    BY <2>3
  <2>6. more = [trace |-> a.trace, patterns |-> longer]
    BY DEF longer, a
  <2> QED BY <2>4, <2>5, <2>6
<1>5. \A i \in 1 .. n : i # n => answers'[i] = answers[i]
  BY <1>1, <1>3
<1>6. answers' = [i \in 1 .. n |-> answers'[i]]
  BY <1>1, <1>3
<1>7. IsList(answers') /\ Len(answers') = n
  BY <1>1, <1>6, ListIs
<1> QED BY <1>1, <1>4, <1>5, <1>7 DEF n, x

(* The cases that have ended stay what they are. *)
LEMMA CasesStay ==
    ASSUME RunInv, suite' = suite, NEW n \in Nat, n <= Len(results),
           \A c \in 1 .. n : results'[c] = results[c] /\ answers'[c] = answers[c]
    PROVE  \A c \in 1 .. n : CaseOK(c)'
<1> TAKE c \in 1 .. n
<1>1. Len(results) \in Nat
  BY Lists DEF RunInv
<1>2. c \in 1 .. Len(results) /\ results'[c] = results[c] /\ answers'[c] = answers[c]
  BY <1>1
<1>3. CaseOK(c)
  BY <1>2 DEF RunInv
<1> QED BY <1>2, <1>3 DEF CaseOK

(* A pattern has been answered, one way or another. *)
LEMMA AnsweredInv ==
    ASSUME RunInv, phase = "run", stage # "ingest", UNCHANGED <<suite, phase, results>>,
           NEW failed, NEW statuses, Answered(failed, statuses),
           stage' = "match", done' = done + 1,
           current' = [results |-> current'.results, errors |-> current'.errors],
           Reporting(current', answers'[Len(answers)], suite[Len(results) + 1])
    PROVE  RunInv'
<1>1. /\ IsList(answers') /\ Len(answers') = Len(answers)
      /\ Len(answers) \in Nat /\ Len(answers) = Len(results) + 1 /\ Len(results) \in Nat
      /\ \A c \in 1 .. Len(results) : answers'[c] = answers[c]
  BY AnswersOf
<1>2. /\ answers'[Len(answers)].patterns =
            Append(answers[Len(answers)].patterns, [failed |-> failed, statuses |-> statuses])
      /\ answers'[Len(answers)] = [trace |-> answers'[Len(answers)].trace,
                                   patterns |-> answers'[Len(answers)].patterns]
  <2>1. answers'[Len(answers)] =
            [trace |-> answers[Len(answers)].trace,
             patterns |-> Append(answers[Len(answers)].patterns,
                                 [failed |-> failed, statuses |-> statuses])]
    BY AnswersOf
  <2> QED BY <2>1
<1>3. Len(answers'[Len(answers)].patterns) = done + 1
  <2>1. IsList(answers[Len(answers)].patterns) /\ Len(answers[Len(answers)].patterns) = done
    BY DEF RunInv, CaseUnderWay, Reporting
  <2> QED BY <1>2, <2>1, Lists
<1>4. CaseUnderWay'
  BY <1>1, <1>2, <1>3 DEF CaseUnderWay
<1>5. \A c \in 1 .. Len(results) : CaseOK(c)'
  BY <1>1, CasesStay
<1>6. results' = results /\ IsList(results) /\ phase' = "run" /\ stage' = "match"
  BY DEF RunInv
<1>7. \A c \in 1 .. Len(results') : CaseOK(c)'
  BY <1>5, <1>6
<1> QED BY <1>1, <1>4, <1>6, <1>7 DEF RunInv

LEMMA RunInductive ==
    ASSUME RunInv, [SuiteNext]_suiteVars
    PROVE  RunInv'
<1>1. CASE LoadCase \/ Validate
  <2>1. phase = "load" /\ UNCHANGED <<results, stage, done, current, answers>>
    BY <1>1 DEF LoadCase, Validate, running
  <2>2. Len(results) = 0 /\ stage = "ingest"
    BY <2>1 DEF RunInv
  <2> QED BY <2>1, <2>2 DEF RunInv
<1>2. CASE Ingest
  <2>1. phase = "run" /\ stage = "ingest" /\ Len(results) < Len(suite)
        /\ UNCHANGED <<suite, phase, done, current>>
    BY <1>2 DEF Ingest, InCase
  <2>2. /\ IsList(results) /\ IsList(answers) /\ Len(results) \in Nat
        /\ Len(answers) = Len(results) /\ done = 0 /\ current = EmptyCase
    BY <2>1, Lists DEF RunInv
  <2>3. ASSUME stage' = "match", UNCHANGED results,
               answers' = Append(answers, [trace |-> TRUE, patterns |-> <<>>])
        PROVE  RunInv'
    <3> DEFINE n == Len(results)
               answer == [trace |-> TRUE, patterns |-> <<>>]
    <3>1. /\ IsList(answers') /\ Len(answers') = n + 1 /\ n \in Nat
          /\ \A c \in 1 .. n : answers'[c] = answers[c]
          /\ answers'[n + 1] = answer
      BY <2>2, <2>3, Lists
    <3>2. \A c \in 1 .. n : CaseOK(c)'
      BY <2>1, <2>3, <3>1, CasesStay
    <3>3. answer.trace = TRUE /\ answer.patterns = <<>> /\ Len(<<>>) = 0
      OBVIOUS
    <3>4. current.errors = 0 /\ current.results = <<>>
          /\ current = [results |-> current.results, errors |-> current.errors]
      BY <2>2 DEF EmptyCase
    <3> HIDE DEF answer
    <3>5. Reporting(current, answer, suite[n + 1])
      BY <3>3, <3>4, NothingYet, Zenon
    <3>6. CaseUnderWay'
      <4>1. answer = [trace |-> answer.trace, patterns |-> answer.patterns]
        BY <3>3 DEF answer
      <4> QED BY <2>1, <2>2, <2>3, <3>1, <3>3, <3>4, <3>5, <4>1 DEF CaseUnderWay
    <3> QED BY <2>1, <2>2, <2>3, <3>1, <3>2, <3>6 DEF RunInv
  <2>4. ASSUME results' = Append(results, [id |-> Now.id, results |-> <<>>, errors |-> 1]),
               answers' = Append(answers, [trace |-> FALSE, patterns |-> <<>>]),
               UNCHANGED stage
        PROVE  RunInv'
    <3> DEFINE n == Len(results)
               answer == [trace |-> FALSE, patterns |-> <<>>]
               case == [id |-> Now.id, results |-> <<>>, errors |-> 1]
    <3>1. /\ IsList(answers') /\ Len(answers') = n + 1 /\ n \in Nat
          /\ \A c \in 1 .. n : answers'[c] = answers[c]
          /\ answers'[n + 1] = answer
      BY <2>2, <2>4, Lists
    <3>2. /\ IsList(results') /\ Len(results') = n + 1
          /\ \A c \in 1 .. n : results'[c] = results[c]
          /\ results'[n + 1] = case
      BY <2>2, <2>4, Lists
    <3>3. \A c \in 1 .. n : CaseOK(c)'
      <4>1. n <= Len(results) /\ suite' = suite
        BY <2>1, <3>1
      <4> HIDE DEF n, answer, case
      <4> QED BY <3>1, <3>2, <4>1, CasesStay
    <3>4. answer.trace = FALSE /\ answer.patterns = <<>> /\ case.results = <<>>
          /\ case.errors = 1
      OBVIOUS
    <3> HIDE DEF answer, case
    <3>5. CaseFits(case, answer, suite[n + 1])
      <4>1. KeptOf(answer) = {} /\ Cardinality({}) = 0 /\ Fails(answer)
        BY <3>4, FS_EmptySet DEF KeptOf, Fails
      <4> QED BY <3>4, <4>1 DEF CaseFits
    <3>6. \A c \in {n + 1} : CaseOK(c)'
      <4> SUFFICES ASSUME NEW c, c = n + 1 PROVE CaseOK(c)'
        OBVIOUS
      <4>1. results'[c] = case /\ answers'[c] = answer /\ suite'[c] = suite[n + 1]
        BY <2>1, <3>1, <3>2
      <4> QED BY <3>4, <3>5, <4>1 DEF CaseOK
    <3>7. \A c \in 1 .. Len(results') : CaseOK(c)'
      <4>1. \A c \in 1 .. n + 1 : c \in 1 .. n \/ c = n + 1
        BY <3>1
      <4> QED BY <3>2, <3>3, <3>6, <4>1
    <3> QED BY <2>1, <2>2, <2>4, <3>1, <3>2, <3>7 DEF RunInv
  <2> QED BY <1>2, <2>3, <2>4 DEF Ingest
<1>3. ASSUME phase = "run", stage # "ingest", UNCHANGED <<suite, phase, results>>,
             stage' = "match", done' = done + 1,
             current' = [current EXCEPT !.errors = @ + 1], Answered(TRUE, <<>>)
      PROVE  RunInv'
  <2> DEFINE answer == answers[Len(answers)]
             answer2 == answers'[Len(answers)]
             x == [failed |-> TRUE, statuses |-> <<>>]
             cs == suite[Len(results) + 1]
  <2>1. /\ Reporting(current, answer, cs)
        /\ current = [results |-> current.results, errors |-> current.errors]
    BY <1>3 DEF RunInv, CaseUnderWay
  <2>2. answer2 = [trace |-> answer.trace, patterns |-> Append(answer.patterns, x)]
        /\ answer.trace = TRUE
    BY <1>3, AnswersOf DEF RunInv, CaseUnderWay, Reporting
  <2>3. answer2.trace = TRUE /\ answer2.patterns = Append(answer.patterns, x) /\ x.failed = TRUE
    BY <2>2
  <2>4. current'.errors = current.errors + 1 /\ current'.results = current.results
        /\ current' = [results |-> current'.results, errors |-> current'.errors]
    BY <1>3, <2>1
  <2> HIDE DEF answer, answer2, x, cs
  <2>5. Reporting(current', answer2, cs)
    BY <2>1, <2>3, <2>4, PatternFails, Zenon
  <2> USE DEF answer2, cs
  <2> QED BY <1>3, <2>4, <2>5, AnsweredInv
<1>4. ASSUME phase = "run", stage # "ingest", UNCHANGED <<suite, phase, results>>,
             stage' = "match", done' = done + 1, NEW statuses \in Seq(GroundingStatuses),
             current' = [current EXCEPT !.results = Append(@, Result(Pattern, statuses))],
             Answered(FALSE, statuses)
      PROVE  RunInv'
  <2> DEFINE answer == answers[Len(answers)]
             answer2 == answers'[Len(answers)]
             x == [failed |-> FALSE, statuses |-> statuses]
             cs == suite[Len(results) + 1]
             r == Result(Pattern, statuses)
  <2>1. /\ Reporting(current, answer, cs) /\ Len(answer.patterns) = done
        /\ current = [results |-> current.results, errors |-> current.errors]
    BY <1>4 DEF RunInv, CaseUnderWay
  <2>2. answer2 = [trace |-> answer.trace, patterns |-> Append(answer.patterns, x)]
        /\ answer.trace = TRUE
    BY <1>4, AnswersOf DEF RunInv, CaseUnderWay, Reporting
  <2>3. answer2.trace = TRUE /\ answer2.patterns = Append(answer.patterns, x) /\ x.failed = FALSE
        /\ x.statuses = statuses
    BY <2>2
  <2>4. current'.errors = current.errors /\ current'.results = Append(current.results, r)
        /\ current' = [results |-> current'.results, errors |-> current'.errors]
    <3> HIDE DEF r
    <3>1. current' = [current EXCEPT !.results = Append(current.results, r)]
      BY <1>4 DEF r
    <3> QED BY <2>1, <3>1
  <2>5. ResultFits(r, Pattern, statuses)
    BY ResultIs
  <2>6. Pattern = cs.patterns[Len(answer.patterns) + 1]
    BY <2>1 DEF Pattern, Now
  <2> HIDE DEF answer, answer2, x, cs, r
  <2>7. ResultFits(r, cs.patterns[Len(answer.patterns) + 1], x.statuses)
    BY <2>3, <2>5, <2>6
  <2>8. Reporting(current', answer2, cs)
    BY <2>1, <2>3, <2>4, <2>7, PatternAnswers, Zenon
  <2> USE DEF answer2, cs
  <2> QED BY <1>4, <2>4, <2>8, AnsweredInv
<1>5. CASE Match
  <2>1. phase = "run" /\ stage = "match" /\ UNCHANGED <<suite, phase, results>>
    BY <1>5 DEF Match, InCase
  <2>2. ASSUME done' = AfterError, current' = [current EXCEPT !.errors = @ + 1],
               Answered(TRUE, <<>>), UNCHANGED <<stage, candidates>>
        PROVE  RunInv'
    BY <1>3, <2>1, <2>2 DEF AfterError
  <2>3. ASSUME done' = done + 1,
               current' = [current EXCEPT !.results = Append(@, Result(Pattern, <<>>))],
               Answered(FALSE, <<>>), UNCHANGED <<stage, candidates>>
        PROVE  RunInv'
    <3>1. <<>> \in Seq(GroundingStatuses)
      OBVIOUS
    <3> QED BY <1>4, <2>1, <2>3, <3>1
  <2>4. ASSUME candidates' \in 1 .. MaxCandidates, stage' = "ground",
               UNCHANGED <<done, current, answers>>
        PROVE  RunInv'
    <3>1. candidates' \in Nat /\ CaseUnderWay
      BY <2>1, <2>4 DEF RunInv
    <3>2. CaseUnderWay'
      BY <2>1, <2>4, <3>1 DEF CaseUnderWay
    <3>3. \A c \in 1 .. Len(results) : CaseOK(c)'
      BY <2>1, <2>4 DEF RunInv, CaseOK
    <3> QED BY <2>1, <2>4, <3>2, <3>3 DEF RunInv
  <2> QED BY <1>5, <2>2, <2>3, <2>4 DEF Match
<1>6. CASE Ground
  <2>1. /\ phase = "run" /\ stage = "ground" /\ UNCHANGED <<suite, phase, results>>
        /\ stage' = "match"
    BY <1>6 DEF Ground, InCase
  <2>2. ASSUME done' = AfterError, current' = [current EXCEPT !.errors = @ + 1],
               Answered(TRUE, <<>>)
        PROVE  RunInv'
    BY <1>3, <2>1, <2>2 DEF AfterError
  <2>3. ASSUME NEW statuses \in [1 .. candidates -> GroundingStatuses], done' = done + 1,
               current' = [current EXCEPT !.results = Append(@, Result(Pattern, statuses))],
               Answered(FALSE, statuses)
        PROVE  RunInv'
    <3>1. candidates \in Nat
      BY <2>1 DEF RunInv, CaseUnderWay
    <3>2. statuses \in Seq(GroundingStatuses)
      BY <2>3, <3>1
    <3> QED BY <1>4, <2>1, <2>3, <3>2
  <2> QED BY <1>6, <2>2, <2>3 DEF Ground
<1>7. CASE EndCase
  <2> DEFINE n == Len(results)
             answer == answers[n + 1]
             case == [id |-> Now.id, results |-> current.results, errors |-> current.errors]
  <2>1. /\ phase = "run" /\ stage = "match" /\ done = Len(Now.patterns)
        /\ results' = Append(results, case)
        /\ stage' = "ingest" /\ done' = 0 /\ current' = EmptyCase
        /\ UNCHANGED <<suite, phase, answers>>
    BY <1>7 DEF EndCase, InCase
  <2>2. /\ Len(answers) = n + 1 /\ Len(answer.patterns) = done
        /\ Reporting(current, answer, suite[n + 1])
    BY <2>1 DEF RunInv, CaseUnderWay
  <2>3. /\ IsList(results') /\ Len(results') = n + 1 /\ n \in Nat
        /\ \A c \in 1 .. n : results'[c] = results[c]
        /\ results'[n + 1] = case
    BY <2>1, Lists DEF RunInv
  <2>4. \A c \in 1 .. n : CaseOK(c)'
    BY <2>1, <2>3, CasesStay
  <2>5. case.results = current.results /\ case.errors = current.errors
    OBVIOUS
  <2>6. Now = suite[n + 1]
    BY DEF Now
  <2> HIDE DEF case, answer
  <2>7. CaseFits(case, answer, suite[n + 1])
    BY <2>2, <2>5 DEF Reporting, CaseFits
  <2>8. \A c \in {n + 1} : CaseOK(c)'
    <3> SUFFICES ASSUME NEW c, c = n + 1 PROVE CaseOK(c)'
      OBVIOUS
    <3>1. results'[c] = case /\ answers'[c] = answer /\ suite'[c] = suite[n + 1]
      BY <2>1, <2>3 DEF answer
    <3>2. Len(answer.patterns) = Len(suite[n + 1].patterns)
      BY <2>1, <2>2, <2>6
    <3> QED BY <2>7, <3>1, <3>2 DEF CaseOK
  <2>9. \A c \in 1 .. Len(results') : CaseOK(c)'
    <3>1. \A c \in 1 .. n + 1 : c \in 1 .. n \/ c = n + 1
      BY <2>3
    <3> QED BY <2>3, <2>4, <2>8, <3>1
  <2> QED BY <2>1, <2>2, <2>3, <2>9 DEF RunInv
<1>8. CASE BuildReport \/ UNCHANGED suiteVars
  <2>1. UNCHANGED <<suite, results, stage, done, candidates, current, answers>>
    BY <1>8 DEF BuildReport, suiteVars
  <2>2. phase' = phase \/ phase' = "done"
    BY <1>8 DEF BuildReport, suiteVars
  <2>3. CaseUnderWay' <=> CaseUnderWay
    BY <2>1 DEF CaseUnderWay
  <2>4. \A c \in 1 .. Len(results) : CaseOK(c)'
    BY <2>1 DEF RunInv, CaseOK
  <2> QED BY <2>1, <2>2, <2>3, <2>4 DEF RunInv
<1> QED BY <1>1, <1>2, <1>5, <1>6, <1>7, <1>8 DEF SuiteNext

LEMMA RunInit == ASSUME SuiteInit PROVE RunInv
<1>1. /\ phase = "load" /\ results = <<>> /\ stage = "ingest" /\ done = 0
      /\ current = EmptyCase /\ answers = <<>>
  BY DEF SuiteInit
<1>2. IsList(<<>>)
  <2>1. <<>> \in Seq(ToSet(<<>>))
    OBVIOUS
  <2> QED BY <2>1 DEF IsList
<1> QED BY <1>1, <1>2 DEF RunInv

(* A stage that fails for one pattern of a case costs that pattern's result and
   nothing else, and what a case reports of the others is what its pipeline
   answered, for any suite and any answers. *)
THEOREM FailuresContained == SuiteSpec => []FailuresStayInTheirPattern
<1>1. SuiteInit => RunInv
  BY RunInit
<1>2. RunInv /\ [SuiteNext]_suiteVars => RunInv'
  BY RunInductive
<1>3. RunInv => FailuresStayInTheirPattern
  <2> SUFFICES ASSUME RunInv PROVE FailuresStayInTheirPattern
    OBVIOUS
  <2>1. DOMAIN results = 1 .. Len(results)
    BY Lists DEF RunInv
  <2>2. \A c \in DOMAIN results : CaseOK(c)
    BY <2>1 DEF RunInv
  <2>3. ASSUME NEW c \in DOMAIN results
        PROVE  /\ answers[c].trace => Len(answers[c].patterns) = Len(suite[c].patterns)
               /\ results[c].errors > 0 <=> Fails(answers[c])
               /\ Len(results[c].results) = Cardinality(KeptOf(answers[c]))
               /\ \A i \in KeptOf(answers[c]) :
                        ResultFits(results[c].results[Rank(KeptOf(answers[c]), i)],
                                   suite[c].patterns[i], answers[c].patterns[i].statuses)
    BY <2>2 DEF CaseOK, CaseFits
  <2>4. ASSUME NEW c \in DOMAIN results
        PROVE  Len(results[c].results) = Cardinality(KeptOf(answers[c]))
    BY <2>3
  <2>5. ASSUME NEW c \in DOMAIN results, NEW i \in KeptOf(answers[c])
        PROVE  /\ results[c].results[Rank(KeptOf(answers[c]), i)].id = suite[c].patterns[i].id
               /\ results[c].results[Rank(KeptOf(answers[c]), i)].version = suite[c].patterns[i].version
               /\ results[c].results[Rank(KeptOf(answers[c]), i)].actual
                     = VerdictOver({answers[c].patterns[i].statuses[k] :
                                     k \in DOMAIN answers[c].patterns[i].statuses})
               /\ results[c].results[Rank(KeptOf(answers[c]), i)].count
                     = Len(answers[c].patterns[i].statuses)
               /\ [k \in DOMAIN results[c].results[Rank(KeptOf(answers[c]), i)].taxonomy |->
                        results[c].results[Rank(KeptOf(answers[c]), i)].taxonomy[k].status]
                     = answers[c].patterns[i].statuses
    BY <2>3, <2>5, Zenon DEF ResultFits
  <2>6. ASSUME NEW c \in DOMAIN results
        PROVE  results[c].errors > 0 <=>
                  ~answers[c].trace
                    \/ \E i \in DOMAIN answers[c].patterns : answers[c].patterns[i].failed
    BY <2>3, Zenon DEF Fails
  <2> QED BY <2>3, <2>4, <2>5, <2>6, Zenon DEF FailuresStayInTheirPattern, KeptOf
<1> QED BY <1>1, <1>2, <1>3, PTL DEF SuiteSpec

-----------------------------------------------------------------------------
(* The figures of a report: a result in a matrix.                           *)

Pairs == Outcomes \X Outcomes
Cells == [Pairs -> Nat]

LEMMA PairsFinite == IsFiniteSet(Pairs)
<1>1. IsFiniteSet(Outcomes)
  <2>1. IsFiniteSet({"Grounded"})
    BY FS_Singleton
  <2>2. IsFiniteSet({"Grounded"} \union {"Abstain"})
    BY <2>1, FS_AddElement
  <2>3. IsFiniteSet(({"Grounded"} \union {"Abstain"}) \union {"Ungrounded"})
    BY <2>2, FS_AddElement
  <2>4. IsFiniteSet((({"Grounded"} \union {"Abstain"}) \union {"Ungrounded"}) \union {"NoMatch"})
    BY <2>3, FS_AddElement
  <2>5. Outcomes = (({"Grounded"} \union {"Abstain"}) \union {"Ungrounded"}) \union {"NoMatch"}
    BY DEF Outcomes
  <2> QED BY <2>4, <2>5
<1> QED BY <1>1, FS_Product DEF Pairs

(* A result of run_case: expectations and outcomes are of the enumeration. *)
WellFormed(r) ==
    /\ r.count \in Nat /\ r.actual \in Outcomes /\ r.expected \in Outcomes \union {Nothing}
    /\ r.statuses = <<>> <=> r.count = 0

(* The keys it has in the statistics, of its pattern and its family, are in X. *)
ResultOK(r, X) ==
    /\ WellFormed(r)
    /\ r.id \in X
    /\ r.statuses # <<>> => r.taxonomy[1].family \in X

InCell(r, pair) == <<r.expected, r.actual>> = pair

(* What recording a result does to one cell and to the whole of a matrix. *)
LEMMA RecordedIs ==
    ASSUME NEW X, NEW r, ResultOK(r, X), NEW matrix \in Cells
    PROVE  /\ Recorded(matrix, r) \in Cells
           /\ \A pair \in Pairs : Recorded(matrix, r)[pair] = matrix[pair] + Bit(InCell(r, pair))
           /\ SumFunction(matrix) \in Int
           /\ SumFunction(Recorded(matrix, r)) = SumFunction(matrix) + Bit(Scored(r))
<1> DEFINE cell == <<r.expected, r.actual>>
           after == Recorded(matrix, r)
<1>1. /\ DOMAIN matrix = Pairs /\ IsFiniteSet(DOMAIN matrix)
      /\ \A pair \in Pairs : matrix[pair] \in Nat
  BY PairsFinite DEF Cells
<1>2. CASE r.expected = Nothing
  <2>1. after = matrix /\ ~Scored(r)
    BY <1>2 DEF Recorded, Scored
  <2>2. \A pair \in Pairs : ~InCell(r, pair)
    BY <1>2, NothingAssumption DEF InCell, Pairs
  <2>3. SumFunction(matrix) \in Int
    <3>1. PICK c : Sums(c, matrix, DOMAIN matrix) /\ SumFunction(matrix) = c[DOMAIN matrix]
      <4>1. \A x \in DOMAIN matrix : matrix[x] \in Int
        BY <1>1
      <4> QED BY <1>1, <4>1, SumFunctionSums
    <3> QED BY <3>1 DEF Sums
  <2>4. Bit(Scored(r)) = 0 /\ \A pair \in Pairs : Bit(InCell(r, pair)) = 0
    BY <2>1, <2>2 DEF Bit
  <2>5. \A pair \in Pairs : after[pair] = matrix[pair] + Bit(InCell(r, pair))
    BY <1>1, <2>1, <2>4
  <2> QED BY <2>1, <2>3, <2>4, <2>5
<1>3. CASE r.expected # Nothing
  <2>1. cell \in Pairs /\ Scored(r)
    BY <1>3 DEF ResultOK, WellFormed, Pairs, Scored
  <2>2. after = [matrix EXCEPT ![cell] = @ + 1]
    BY <1>3 DEF Recorded
  <2>3. \A pair \in Pairs : InCell(r, pair) <=> pair = cell
    BY DEF InCell
  <2> HIDE DEF cell, after
  <2>4. /\ DOMAIN after = Pairs /\ after \in Cells
        /\ after[cell] = matrix[cell] + 1
        /\ \A pair \in Pairs : pair # cell => after[pair] = matrix[pair]
    BY <1>1, <2>1, <2>2 DEF Cells
  <2>5. /\ SumFunction(matrix) \in Int
        /\ SumFunction(after) = SumFunction(matrix) + (after[cell] - matrix[cell])
    <3>1. DOMAIN after = DOMAIN matrix \union {cell} /\ after[cell] \in Int
      BY <1>1, <2>1, <2>4
    <3>2. \A x \in DOMAIN matrix : matrix[x] \in Int
      BY <1>1
    <3>3. \A x \in DOMAIN matrix \ {cell} : after[x] = matrix[x]
      BY <1>1, <2>4
    <3>4. /\ SumFunction(matrix) \in Int
          /\ SumFunction(after) = SumFunction(matrix)
                + (after[cell] - (IF cell \in DOMAIN matrix THEN matrix[cell] ELSE 0))
      BY <1>1, <3>1, <3>2, <3>3, SumChanges
    <3> QED BY <1>1, <2>1, <3>4
  <2>6. SumFunction(after) = SumFunction(matrix) + 1
    BY <1>1, <2>1, <2>4, <2>5
  <2>7. \A pair \in Pairs : after[pair] = matrix[pair] + Bit(InCell(r, pair))
    BY <1>1, <2>3, <2>4 DEF Bit
  <2> QED BY <2>1, <2>4, <2>5, <2>6, <2>7 DEF Bit, after
<1> QED BY <1>2, <1>3

LEMMA EmptyMatrixIs == EmptyMatrix \in Cells /\ SumFunction(EmptyMatrix) = 0
<1>1. EmptyMatrix \in Cells /\ DOMAIN EmptyMatrix = Pairs /\ \A pair \in Pairs : EmptyMatrix[pair] = 0
  BY DEF EmptyMatrix, Cells, Pairs
<1> QED BY <1>1, PairsFinite, SumOfZeros

-----------------------------------------------------------------------------
(* Statistics of a pattern or of a family.                                  *)

StatsOf(X) == [key : X, runs : Nat, passed : Nat, candidates : Nat, confusion : Cells]

(* What a result does to an entry of the statistics. *)
Grown(old, new, r) ==
    /\ new.key = old.key
    /\ new.runs = old.runs + 1
    /\ new.passed = old.passed + Bit(Reached(r))
    /\ new.confusion = Recorded(old.confusion, r)

EntryAt(list, i, key) == IF i > Len(list) THEN NewStats(key) ELSE list[i]

(* out is a list with one more run, of the entry at i. *)
Bumps(list, out, i, key, r) ==
    /\ i \in 1 .. Len(list) + 1
    /\ i <= Len(list) => list[i].key = key
    /\ i > Len(list) => \A j \in 1 .. Len(list) : list[j].key # key
    /\ Len(out) = IF i > Len(list) THEN Len(list) + 1 ELSE Len(list)
    /\ \A j \in 1 .. Len(list) : j # i => out[j] = list[j]
    /\ Grown(EntryAt(list, i, key), out[i], r)

(* Statistics with every figure replaced. *)
Replaced(old, u, v, w, z) ==
    [old EXCEPT !.runs = u, !.passed = v, !.candidates = w, !.confusion = z]

LEMMA StatsReplaced ==
    ASSUME NEW k, NEW a, NEW p, NEW c, NEW m, NEW u, NEW v, NEW w, NEW z, NEW old,
           old = [key |-> k, runs |-> a, passed |-> p, candidates |-> c, confusion |-> m]
    PROVE  Replaced(old, u, v, w, z)
            = [key |-> k, runs |-> u, passed |-> v, candidates |-> w, confusion |-> z]
<1>1. PICK r1 : r1 = [old EXCEPT !.runs = u]
  OBVIOUS
<1>2. r1 = [key |-> k, runs |-> u, passed |-> p, candidates |-> c, confusion |-> m]
  BY <1>1
<1>3. PICK r2 : r2 = [r1 EXCEPT !.passed = v]
  OBVIOUS
<1>4. r2 = [key |-> k, runs |-> u, passed |-> v, candidates |-> c, confusion |-> m]
  BY <1>2, <1>3
<1>5. PICK r3 : r3 = [r2 EXCEPT !.candidates = w]
  OBVIOUS
<1>6. r3 = [key |-> k, runs |-> u, passed |-> v, candidates |-> w, confusion |-> m]
  BY <1>4, <1>5
<1>7. [r3 EXCEPT !.confusion = z]
        = [key |-> k, runs |-> u, passed |-> v, candidates |-> w, confusion |-> z]
  BY <1>6
<1>8. [old EXCEPT !.runs = u, !.passed = v, !.candidates = w, !.confusion = z]
        = [[[[old EXCEPT !.runs = u] EXCEPT !.passed = v] EXCEPT !.candidates = w]
                EXCEPT !.confusion = z]
  OBVIOUS
<1> QED BY <1>1, <1>3, <1>5, <1>7, <1>8, Zenon DEF Replaced

LEMMA NewStatsIs ==
    ASSUME NEW X, NEW key \in X
    PROVE  /\ NewStats(key) \in StatsOf(X) /\ NewStats(key).key = key
           /\ NewStats(key).runs = 0 /\ NewStats(key).passed = 0
           /\ NewStats(key).confusion = EmptyMatrix
BY EmptyMatrixIs DEF NewStats, StatsOf

(* WithRun finds the one entry of its key, or makes it, and changes no other. *)
LEMMA WithRunIs ==
    ASSUME NEW X, NEW list \in Seq(StatsOf(X)), NEW key \in X, NEW r, ResultOK(r, X)
    PROVE  /\ WithRun(list, key, r) \in Seq(StatsOf(X))
           /\ Bumps(list, WithRun(list, key, r), PlaceOf(list, key), key, r)
<1> DEFINE n == Len(list)
           i == PlaceOf(list, key)
           grown == IF i > n THEN Append(list, NewStats(key)) ELSE list
           old == EntryAt(list, i, key)
           new == [old EXCEPT !.runs = @ + 1, !.passed = @ + (IF Reached(r) THEN 1 ELSE 0),
                              !.candidates = @ + r.count, !.confusion = Recorded(@, r)]
           out == WithRun(list, key, r)
<1>1. /\ n \in Nat /\ DOMAIN list = 1 .. n
      /\ i \in 1 .. n + 1
      /\ i <= n => list[i].key = key
      /\ i > n => \A j \in 1 .. n : list[j].key # key
  <2>1. n \in Nat /\ DOMAIN list = 1 .. n
    OBVIOUS
  <2>2. CASE \E j \in DOMAIN list : list[j].key = key
    <3>1. i = CHOOSE j \in DOMAIN list : list[j].key = key
      BY <2>2 DEF PlaceOf
    <3> HIDE DEF i
    <3>2. i \in DOMAIN list /\ list[i].key = key
      BY <2>2, <3>1
    <3> QED BY <2>1, <3>2
  <2>3. CASE ~ \E j \in DOMAIN list : list[j].key = key
    <3>1. i = n + 1
      BY <2>3 DEF PlaceOf
    <3> HIDE DEF i
    <3> QED BY <2>1, <2>3, <3>1
  <2> QED BY <2>2, <2>3
<1> HIDE DEF i
<1>2. NewStats(key) \in StatsOf(X) /\ NewStats(key).key = key
  BY NewStatsIs
<1>3. /\ grown \in Seq(StatsOf(X)) /\ i \in 1 .. Len(grown)
      /\ Len(grown) = IF i > n THEN n + 1 ELSE n
      /\ grown[i] = old
      /\ \A j \in 1 .. n : grown[j] = list[j]
  <2>1. CASE i > n
    <3>1. i = n + 1 /\ grown = Append(list, NewStats(key)) /\ old = NewStats(key)
      BY <1>1, <2>1 DEF EntryAt
    <3> HIDE DEF grown, old
    <3> QED BY <1>1, <1>2, <2>1, <3>1
  <2>2. CASE ~(i > n)
    <3>1. i \in 1 .. n /\ grown = list /\ old = list[i]
      BY <1>1, <2>2 DEF EntryAt
    <3> HIDE DEF grown, old
    <3> QED BY <1>1, <2>2, <3>1
  <2> QED BY <2>1, <2>2
<1>4. out = [grown EXCEPT ![i] = new]
  <2>1. out = [grown EXCEPT ![i].runs = @ + 1,
                            ![i].passed = @ + (IF Reached(r) THEN 1 ELSE 0),
                            ![i].candidates = @ + r.count,
                            ![i].confusion = Recorded(@, r)]
    BY DEF WithRun, i
  <2> HIDE DEF grown, old, out
  <2>2. grown = [j \in 1 .. Len(grown) |-> grown[j]] /\ old \in StatsOf(X)
    BY <1>3
  <2>3. old = [key |-> old.key, runs |-> old.runs, passed |-> old.passed,
               candidates |-> old.candidates, confusion |-> old.confusion]
    BY <2>2 DEF StatsOf
  <2> QED BY <1>3, <2>1, <2>2, <2>3
<1> HIDE DEF grown
<1>5. old \in StatsOf(X) /\ old.key = key
  <2>1. old \in StatsOf(X)
    BY <1>3
  <2>2. old.key = key
    BY <1>1, <1>2 DEF EntryAt
  <2> QED BY <2>1, <2>2
<1> HIDE DEF old, out
<1>6. new \in StatsOf(X) /\ Grown(old, new, r)
  <2>1. /\ old.runs \in Nat /\ old.passed \in Nat /\ old.candidates \in Nat /\ old.confusion \in Cells
        /\ old.key \in X
    BY <1>5 DEF StatsOf
  <2>2. Recorded(old.confusion, r) \in Cells
    BY <2>1, RecordedIs
  <2>3. r.count \in Nat
    BY DEF ResultOK, WellFormed
  <2>4. /\ new.key = old.key /\ new.runs = old.runs + 1
        /\ new.passed = old.passed + (IF Reached(r) THEN 1 ELSE 0)
        /\ new.confusion = Recorded(old.confusion, r)
        /\ new.candidates = old.candidates + r.count
    BY <1>5 DEF StatsOf
  <2>5. new = [key |-> old.key, runs |-> old.runs + 1,
               passed |-> old.passed + (IF Reached(r) THEN 1 ELSE 0),
               candidates |-> old.candidates + r.count,
               confusion |-> Recorded(old.confusion, r)]
    <3>1. PICK k, a, p, c, m : old = [key |-> k, runs |-> a, passed |-> p, candidates |-> c,
                                      confusion |-> m]
      BY <1>5 DEF StatsOf
    <3>2. old.key = k /\ old.runs = a /\ old.passed = p /\ old.candidates = c /\ old.confusion = m
      BY <3>1
    <3> DEFINE u == a + 1
               v == p + (IF Reached(r) THEN 1 ELSE 0)
               w == c + r.count
               z == Recorded(m, r)
    <3>3. new = Replaced(old, u, v, w, z)
      BY <3>2 DEF Replaced
    <3>4. [key |-> old.key, runs |-> old.runs + 1,
               passed |-> old.passed + (IF Reached(r) THEN 1 ELSE 0),
               candidates |-> old.candidates + r.count,
               confusion |-> Recorded(old.confusion, r)]
            = [key |-> k, runs |-> u, passed |-> v, candidates |-> w, confusion |-> z]
      BY <3>2
    <3> HIDE DEF u, v, w, z, new
    <3>5. Replaced(old, u, v, w, z)
            = [key |-> k, runs |-> u, passed |-> v, candidates |-> w, confusion |-> z]
      BY <3>1, StatsReplaced
    <3> QED BY <3>3, <3>4, <3>5, Zenon
  <2> HIDE DEF new
  <2>6. new \in StatsOf(X)
    <3> DEFINE u == old.runs + 1
               v == old.passed + (IF Reached(r) THEN 1 ELSE 0)
               w == old.candidates + r.count
               z == Recorded(old.confusion, r)
    <3>1. u \in Nat /\ v \in Nat /\ w \in Nat /\ z \in Cells
      BY <2>1, <2>2, <2>3
    <3>2. new = [key |-> old.key, runs |-> u, passed |-> v, candidates |-> w, confusion |-> z]
      BY <2>5
    <3> HIDE DEF u, v, w, z
    <3> QED BY <2>1, <3>1, <3>2 DEF StatsOf
  <2> QED BY <2>4, <2>6 DEF Grown, Bit
<1> HIDE DEF new
<1>7. /\ out \in Seq(StatsOf(X)) /\ Len(out) = Len(grown) /\ out[i] = new
      /\ \A j \in 1 .. Len(grown) : j # i => out[j] = grown[j]
  BY <1>3, <1>4, <1>6
<1>8. \A j \in 1 .. n : j # i => out[j] = list[j]
  BY <1>1, <1>3, <1>7
<1>9. Bumps(list, out, i, key, r)
  BY <1>1, <1>3, <1>6, <1>7, <1>8 DEF Bumps, old
<1> QED BY <1>7, <1>9 DEF out, i

(* Those of a set of results that a figure counts. *)
OfCell(R, pair) == {r \in R : InCell(r, pair)}
OfScored(R) == {r \in R : Scored(r)}
OfExpected(R) == {r \in R : r.expected = "Grounded"}
OfActual(R) == {r \in R : Scored(r) /\ r.actual = "Grounded"}
OfFamilies(R) == {r \in R : Scored(r) /\ r.count > 0}
Own(R, key) == {r \in R : r.id = key}
OwnReached(R, key) == {r \in R : r.id = key /\ Reached(r)}
OwnScored(R, key) == {r \in R : r.id = key /\ Scored(r)}

(* One figure of every entry of the statistics. *)
Column(list, pair) == [i \in DOMAIN list |-> list[i].confusion[pair]]
Runs(list) == [i \in DOMAIN list |-> list[i].runs]

OwnFigures(entry, L, R) ==
    /\ entry.runs = NumberIn(L, Own(R, entry.key))
    /\ entry.passed = NumberIn(L, OwnReached(R, entry.key))
    /\ SumFunction(entry.confusion) = NumberIn(L, OwnScored(R, entry.key))

(* The statistics of every pattern fit the results L, and so do their totals. *)
PatternsBalance(list, L, R) ==
    /\ \A i, j \in DOMAIN list : i # j => list[i].key # list[j].key
    /\ \A k \in DOMAIN L : \E i \in DOMAIN list : list[i].key = L[k].id
    /\ \A i \in DOMAIN list : list[i].runs > 0 /\ OwnFigures(list[i], L, R)
    /\ \A pair \in Pairs : SumFunction(Column(list, pair)) = NumberIn(L, OfCell(R, pair))

FamiliesBalance(list, L, R) == SumFunction(Runs(list)) = NumberIn(L, OfFamilies(R))

ResultsOK(R, X) == \A r \in R : ResultOK(r, X)

(* The places of a list before and after one more run. *)
LEMMA BumpsPlaces ==
    ASSUME NEW X, NEW list \in Seq(StatsOf(X)), NEW out \in Seq(StatsOf(X)), NEW i, NEW key, NEW r,
           Bumps(list, out, i, key, r)
    PROVE  /\ Len(list) \in Nat /\ DOMAIN list = 1 .. Len(list) /\ DOMAIN out = DOMAIN list \union {i}
           /\ i \in DOMAIN list => EntryAt(list, i, key) = list[i] /\ list[i].key = key
           /\ i \notin DOMAIN list =>
                /\ EntryAt(list, i, key) = NewStats(key)
                /\ \A j \in DOMAIN list : list[j].key # key
           /\ \A j \in DOMAIN list : j # i => out[j] = list[j]
           /\ Grown(EntryAt(list, i, key), out[i], r)
<1>1. Len(list) \in Nat /\ DOMAIN list = 1 .. Len(list) /\ DOMAIN out = 1 .. Len(out)
  OBVIOUS
<1>2. i \in 1 .. Len(list) + 1 /\ Len(out) = IF i > Len(list) THEN Len(list) + 1 ELSE Len(list)
  BY DEF Bumps
<1>3. DOMAIN out = DOMAIN list \union {i}
  BY <1>1, <1>2
<1>4. /\ i \in DOMAIN list => ~(i > Len(list)) /\ i <= Len(list)
      /\ i \notin DOMAIN list => i > Len(list)
  BY <1>1, <1>2
<1> QED BY <1>1, <1>3, <1>4 DEF Bumps, EntryAt

(* How a column of the statistics changes. *)
LEMMA ColumnGrows ==
    ASSUME NEW X, NEW list \in Seq(StatsOf(X)), NEW out \in Seq(StatsOf(X)), NEW i, NEW key \in X,
           NEW r, Bumps(list, out, i, key, r), ResultOK(r, X), NEW pair \in Pairs
    PROVE  /\ SumFunction(Column(list, pair)) \in Int
           /\ SumFunction(Column(out, pair)) = SumFunction(Column(list, pair)) + Bit(InCell(r, pair))
<1> DEFINE f == Column(list, pair)
           g == Column(out, pair)
           old == EntryAt(list, i, key)
<1>1. /\ Len(list) \in Nat /\ DOMAIN list = 1 .. Len(list) /\ DOMAIN out = DOMAIN list \union {i}
      /\ i \in DOMAIN list => old = list[i] /\ list[i].key = key
      /\ i \notin DOMAIN list => old = NewStats(key) /\ \A j \in DOMAIN list : list[j].key # key
      /\ \A j \in DOMAIN list : j # i => out[j] = list[j]
      /\ Grown(old, out[i], r)
  BY BumpsPlaces
<1>2. \A j \in DOMAIN list : list[j] \in StatsOf(X)
  OBVIOUS
<1> HIDE DEF old
<1>3. /\ DOMAIN f = DOMAIN list /\ DOMAIN g = DOMAIN f \union {i}
      /\ \A j \in DOMAIN list : f[j] = list[j].confusion[pair]
      /\ g[i] = out[i].confusion[pair]
      /\ \A j \in DOMAIN f \ {i} : g[j] = f[j]
  BY <1>1 DEF Column
<1> HIDE DEF f, g
<1>4. IsFiniteSet(DOMAIN f)
  BY <1>1, <1>3, FS_Interval
<1>5. \A j \in DOMAIN f : list[j].confusion \in Cells /\ f[j] \in Int
  <2>1. \A j \in DOMAIN f : list[j].confusion \in Cells
    BY <1>2, <1>3 DEF StatsOf
  <2>2. \A matrix \in Cells : matrix[pair] \in Int
    BY DEF Cells
  <2> QED BY <1>3, <2>1, <2>2
<1>6. old.confusion \in Cells /\ old.confusion[pair] = IF i \in DOMAIN f THEN f[i] ELSE 0
  <2>1. CASE i \in DOMAIN list
    BY <1>1, <1>3, <1>5, <2>1
  <2>2. CASE i \notin DOMAIN list
    <3>1. NewStats(key).confusion = EmptyMatrix
      BY NewStatsIs
    <3>2. EmptyMatrix \in Cells /\ EmptyMatrix[pair] = 0
      BY EmptyMatrixIs DEF EmptyMatrix, Pairs
    <3> QED BY <1>1, <1>3, <2>2, <3>1, <3>2
  <2> QED BY <2>1, <2>2
<1>7. g[i] = old.confusion[pair] + Bit(InCell(r, pair))
  <2>1. Recorded(old.confusion, r)[pair] = old.confusion[pair] + Bit(InCell(r, pair))
    BY <1>6, RecordedIs
  <2> QED BY <1>1, <1>3, <2>1 DEF Grown
<1>8. old.confusion[pair] \in Int /\ Bit(InCell(r, pair)) \in Int
  BY <1>6 DEF Cells, Bit
<1>9. g[i] \in Int
  BY <1>7, <1>8
<1>10. /\ SumFunction(f) \in Int
       /\ SumFunction(g) = SumFunction(f) + (g[i] - (IF i \in DOMAIN f THEN f[i] ELSE 0))
  <2>1. \A j \in DOMAIN f : f[j] \in Int
    BY <1>5
  <2>2. DOMAIN g = DOMAIN f \union {i} /\ \A j \in DOMAIN f \ {i} : g[j] = f[j]
    BY <1>3
  <2> QED BY <1>4, <1>9, <2>1, <2>2, SumChanges
<1>11. SumFunction(g) = SumFunction(f) + Bit(InCell(r, pair))
  BY <1>6, <1>7, <1>8, <1>10
<1> QED BY <1>10, <1>11 DEF f, g

(* One more run adds one to the runs of all entries. *)
LEMMA RunsGrow ==
    ASSUME NEW X, NEW list \in Seq(StatsOf(X)), NEW out \in Seq(StatsOf(X)), NEW i, NEW key \in X,
           NEW r, Bumps(list, out, i, key, r)
    PROVE  /\ SumFunction(Runs(list)) \in Int
           /\ SumFunction(Runs(out)) = SumFunction(Runs(list)) + 1
<1> DEFINE f == Runs(list)
           g == Runs(out)
           old == EntryAt(list, i, key)
<1>1. /\ Len(list) \in Nat /\ DOMAIN list = 1 .. Len(list) /\ DOMAIN out = DOMAIN list \union {i}
      /\ i \in DOMAIN list => old = list[i] /\ list[i].key = key
      /\ i \notin DOMAIN list => old = NewStats(key) /\ \A j \in DOMAIN list : list[j].key # key
      /\ \A j \in DOMAIN list : j # i => out[j] = list[j]
      /\ Grown(old, out[i], r)
  BY BumpsPlaces
<1>2. \A j \in DOMAIN list : list[j] \in StatsOf(X)
  OBVIOUS
<1> HIDE DEF old
<1>3. /\ DOMAIN f = DOMAIN list /\ DOMAIN g = DOMAIN f \union {i}
      /\ \A j \in DOMAIN list : f[j] = list[j].runs
      /\ g[i] = old.runs + 1
      /\ \A j \in DOMAIN f \ {i} : g[j] = f[j]
  BY <1>1 DEF Runs, Grown
<1> HIDE DEF f, g
<1>4. IsFiniteSet(DOMAIN f)
  BY <1>1, <1>3, FS_Interval
<1>5. \A j \in DOMAIN f : f[j] \in Int
  BY <1>2, <1>3 DEF StatsOf
<1>6. old.runs \in Int /\ old.runs = IF i \in DOMAIN f THEN f[i] ELSE 0
  <2>1. CASE i \in DOMAIN list
    BY <1>1, <1>3, <1>5, <2>1
  <2>2. CASE i \notin DOMAIN list
    <3>1. NewStats(key).runs = 0
      BY NewStatsIs
    <3> QED BY <1>1, <1>3, <2>2, <3>1
  <2> QED BY <2>1, <2>2
<1>7. g[i] \in Int
  BY <1>3, <1>6
<1>8. /\ SumFunction(f) \in Int
      /\ SumFunction(g) = SumFunction(f) + (g[i] - (IF i \in DOMAIN f THEN f[i] ELSE 0))
  <2>1. DOMAIN g = DOMAIN f \union {i} /\ \A j \in DOMAIN f \ {i} : g[j] = f[j]
    BY <1>3
  <2> QED BY <1>4, <1>5, <1>7, <2>1, SumChanges
<1>9. SumFunction(g) = SumFunction(f) + 1
  BY <1>3, <1>6, <1>8
<1> QED BY <1>8, <1>9 DEF f, g

(* What a further result of some other pattern, or of none so far, leaves. *)
LEMMA OwnFiguresKept ==
    ASSUME NEW X, NEW R, NEW L \in Seq(R), NEW r \in R, NEW entry, OwnFigures(entry, L, R),
           entry.key # r.id
    PROVE  OwnFigures(entry, Append(L, r), R)
<1> DEFINE A == Own(R, entry.key)
           B == OwnReached(R, entry.key)
           C == OwnScored(R, entry.key)
<1>1. r \notin A /\ r \notin B /\ r \notin C
  BY DEF Own, OwnReached, OwnScored
<1> HIDE DEF A, B, C
<1>2. \A Q : r \notin Q => NumberIn(Append(L, r), Q) = NumberIn(L, Q)
  <2> SUFFICES ASSUME NEW Q, r \notin Q PROVE NumberIn(Append(L, r), Q) = NumberIn(L, Q)
    OBVIOUS
  <2>1. Bit(r \in Q) = 0
    BY DEF Bit
  <2>2. NumberIn(L, Q) \in Nat /\ NumberIn(Append(L, r), Q) = NumberIn(L, Q) + Bit(r \in Q)
    BY NumberInAppend
  <2> QED BY <2>1, <2>2
<1>3. /\ NumberIn(Append(L, r), A) = NumberIn(L, A)
      /\ NumberIn(Append(L, r), B) = NumberIn(L, B)
      /\ NumberIn(Append(L, r), C) = NumberIn(L, C)
  BY <1>1, <1>2
<1> QED BY <1>3 DEF OwnFigures, A, B, C

(* The entry that a further result is of still fits the results. *)
LEMMA OwnFiguresGrow ==
    ASSUME NEW X, NEW R, NEW L \in Seq(R), NEW r \in R, ResultOK(r, X),
           NEW old \in StatsOf(X), OwnFigures(old, L, R), old.key = r.id,
           NEW new, Grown(old, new, r)
    PROVE  OwnFigures(new, Append(L, r), R) /\ new.runs > 0
<1> DEFINE A == Own(R, r.id)
           B == OwnReached(R, r.id)
           C == OwnScored(R, r.id)
           more == Append(L, r)
<1>1. r \in A /\ (r \in B <=> Reached(r)) /\ (r \in C <=> Scored(r))
  BY DEF Own, OwnReached, OwnScored
<1>2. /\ old.runs = NumberIn(L, A) /\ old.passed = NumberIn(L, B)
      /\ SumFunction(old.confusion) = NumberIn(L, C)
  BY DEF OwnFigures
<1> HIDE DEF A, B, C
<1>3. /\ NumberIn(more, A) = NumberIn(L, A) + Bit(r \in A)
      /\ NumberIn(more, B) = NumberIn(L, B) + Bit(r \in B)
      /\ NumberIn(more, C) = NumberIn(L, C) + Bit(r \in C)
  BY NumberInAppend
<1>4. Bit(r \in A) = 1 /\ Bit(r \in B) = Bit(Reached(r)) /\ Bit(r \in C) = Bit(Scored(r))
  BY <1>1 DEF Bit
<1>5. old.confusion \in Cells /\ old.runs \in Nat
  BY DEF StatsOf
<1>6. SumFunction(Recorded(old.confusion, r)) = SumFunction(old.confusion) + Bit(Scored(r))
  BY <1>5, RecordedIs
<1> HIDE DEF more
<1>7. /\ new.key = r.id /\ new.runs = NumberIn(more, A) /\ new.passed = NumberIn(more, B)
      /\ SumFunction(new.confusion) = NumberIn(more, C)
  BY <1>2, <1>3, <1>4, <1>6 DEF Grown
<1>8. new.runs > 0
  BY <1>5 DEF Grown
<1> QED BY <1>7, <1>8 DEF OwnFigures, A, B, C, more

(* One more result keeps the statistics of the patterns in balance with the list. *)
LEMMA PatternsStep ==
    ASSUME NEW X, NEW R, ResultsOK(R, X), NEW L \in Seq(R), NEW r \in R,
           NEW list \in Seq(StatsOf(X)), PatternsBalance(list, L, R)
    PROVE  PatternsBalance(WithRun(list, r.id, r), Append(L, r), R)
<1> DEFINE out == WithRun(list, r.id, r)
           i == PlaceOf(list, r.id)
           more == Append(L, r)
           old == EntryAt(list, i, r.id)
<1>1. ResultOK(r, X) /\ r.id \in X
  BY DEF ResultsOK, ResultOK
<1>2. out \in Seq(StatsOf(X)) /\ Bumps(list, out, i, r.id, r)
  BY <1>1, WithRunIs
<1> HIDE DEF out, i
<1>3. /\ Len(list) \in Nat /\ DOMAIN list = 1 .. Len(list) /\ DOMAIN out = DOMAIN list \union {i}
      /\ i \in DOMAIN list => old = list[i] /\ list[i].key = r.id
      /\ i \notin DOMAIN list => old = NewStats(r.id) /\ \A j \in DOMAIN list : list[j].key # r.id
      /\ \A j \in DOMAIN list : j # i => out[j] = list[j]
      /\ Grown(old, out[i], r)
  BY <1>2, BumpsPlaces
<1>4. old \in StatsOf(X) /\ old.key = r.id /\ OwnFigures(old, L, R)
  <2>1. CASE i \in DOMAIN list
    BY <1>3, <2>1 DEF PatternsBalance
  <2>2. CASE i \notin DOMAIN list
    <3>1. old \in StatsOf(X) /\ old.key = r.id /\ old.runs = 0 /\ old.passed = 0
          /\ old.confusion = EmptyMatrix
      BY <1>1, <1>3, <2>2, NewStatsIs
    <3>2. \A k \in DOMAIN L : L[k].id # r.id
      BY <1>3, <2>2 DEF PatternsBalance
    <3>3. /\ NumberIn(L, Own(R, r.id)) = 0 /\ NumberIn(L, OwnReached(R, r.id)) = 0
          /\ NumberIn(L, OwnScored(R, r.id)) = 0
      <4>1. \A k \in DOMAIN L : /\ L[k] \notin Own(R, r.id) /\ L[k] \notin OwnReached(R, r.id)
                                /\ L[k] \notin OwnScored(R, r.id)
        BY <3>2 DEF Own, OwnReached, OwnScored
      <4> QED BY <4>1, NumberInNone
    <3> HIDE DEF old
    <3> QED BY <3>1, <3>3, EmptyMatrixIs DEF OwnFigures
  <2> QED BY <2>1, <2>2
<1> HIDE DEF old
<1>5. OwnFigures(out[i], more, R) /\ out[i].runs > 0 /\ out[i].key = r.id
  <2>1. OwnFigures(out[i], more, R) /\ out[i].runs > 0
    BY <1>1, <1>3, <1>4, OwnFiguresGrow
  <2>2. out[i].key = r.id
    BY <1>3, <1>4 DEF Grown
  <2> QED BY <2>1, <2>2
<1>6. \A j \in DOMAIN list : j # i => list[j].key # r.id
  BY <1>3 DEF PatternsBalance
<1>7. \A j \in DOMAIN list : j # i => out[j].runs > 0 /\ OwnFigures(out[j], more, R)
  <2> SUFFICES ASSUME NEW j \in DOMAIN list, j # i
               PROVE  out[j].runs > 0 /\ OwnFigures(out[j], more, R)
    OBVIOUS
  <2>1. out[j] = list[j] /\ list[j].runs > 0 /\ OwnFigures(list[j], L, R) /\ list[j].key # r.id
    BY <1>3, <1>6 DEF PatternsBalance
  <2>2. OwnFigures(list[j], more, R)
    BY <2>1, OwnFiguresKept
  <2> QED BY <2>1, <2>2
<1>8. \A j, k \in DOMAIN out : j # k => out[j].key # out[k].key
  <2> SUFFICES ASSUME NEW j \in DOMAIN out, NEW k \in DOMAIN out, j # k PROVE out[j].key # out[k].key
    OBVIOUS
  <2>1. CASE j = i
    BY <1>3, <1>5, <1>6, <2>1
  <2>2. CASE k = i
    BY <1>3, <1>5, <1>6, <2>2
  <2>3. CASE j # i /\ k # i
    BY <1>3, <2>3 DEF PatternsBalance
  <2> QED BY <2>1, <2>2, <2>3
<1>9. \A k \in DOMAIN more : \E j \in DOMAIN out : out[j].key = more[k].id
  <2>1. /\ DOMAIN more = DOMAIN L \union {Len(L) + 1} /\ more[Len(L) + 1] = r
        /\ \A k \in DOMAIN L : more[k] = L[k]
    OBVIOUS
  <2> HIDE DEF more
  <2>2. ASSUME NEW k \in DOMAIN L PROVE \E j \in DOMAIN out : out[j].key = L[k].id
    <3>1. PICK j \in DOMAIN list : list[j].key = L[k].id
      BY DEF PatternsBalance
    <3>2. out[j].key = list[j].key /\ j \in DOMAIN out
      BY <1>3, <1>5
    <3> QED BY <3>1, <3>2
  <2>3. i \in DOMAIN out
    BY <1>3
  <2> QED BY <1>5, <2>1, <2>2, <2>3
<1>10. \A pair \in Pairs : SumFunction(Column(out, pair)) = NumberIn(more, OfCell(R, pair))
  <2> TAKE pair \in Pairs
  <2> DEFINE Q == OfCell(R, pair)
  <2>1. SumFunction(Column(out, pair)) = SumFunction(Column(list, pair)) + Bit(InCell(r, pair))
    BY <1>1, <1>2, ColumnGrows
  <2>2. r \in Q <=> InCell(r, pair)
    BY DEF OfCell
  <2>3. SumFunction(Column(list, pair)) = NumberIn(L, Q)
    BY DEF PatternsBalance
  <2> HIDE DEF Q
  <2>4. NumberIn(more, Q) = NumberIn(L, Q) + Bit(r \in Q)
    BY NumberInAppend
  <2>5. Bit(r \in Q) = Bit(InCell(r, pair))
    BY <2>2 DEF Bit
  <2> QED BY <2>1, <2>3, <2>4, <2>5 DEF Q
<1>11. \A j \in DOMAIN out : out[j].runs > 0 /\ OwnFigures(out[j], more, R)
  BY <1>3, <1>5, <1>7
<1> HIDE DEF more
<1>12. PatternsBalance(out, more, R)
  BY <1>8, <1>9, <1>10, <1>11 DEF PatternsBalance
<1> QED BY <1>12 DEF out, more

InFamily(r) == r.expected # Nothing /\ r.statuses # <<>>

(* Likewise those of the families, in which only scored results with a candidate count. *)
LEMMA FamiliesStep ==
    ASSUME NEW X, NEW R, ResultsOK(R, X), NEW L \in Seq(R), NEW r \in R,
           NEW list \in Seq(StatsOf(X)), FamiliesBalance(list, L, R),
           NEW out, out = IF InFamily(r) THEN WithRun(list, r.taxonomy[1].family, r) ELSE list
    PROVE  out \in Seq(StatsOf(X)) /\ FamiliesBalance(out, Append(L, r), R)
<1> DEFINE Q == OfFamilies(R)
           key == r.taxonomy[1].family
<1>1. ResultOK(r, X) /\ (r \in Q <=> InFamily(r))
  <2>1. ResultOK(r, X)
    BY DEF ResultsOK
  <2>2. r.count > 0 <=> r.statuses # <<>>
    BY <2>1 DEF ResultOK, WellFormed
  <2> QED BY <2>1, <2>2 DEF OfFamilies, Scored, InFamily
<1>2. SumFunction(Runs(list)) = NumberIn(L, Q)
  BY DEF FamiliesBalance
<1> HIDE DEF Q
<1>3. NumberIn(Append(L, r), Q) = NumberIn(L, Q) + Bit(r \in Q) /\ NumberIn(L, Q) \in Nat
  BY NumberInAppend
<1>4. CASE InFamily(r)
  <2>1. Bit(r \in Q) = 1
    BY <1>1, <1>4 DEF Bit
  <2>2. key \in X
    BY <1>1, <1>4 DEF ResultOK, InFamily
  <2>3. out = WithRun(list, key, r)
    BY <1>4
  <2> HIDE DEF key
  <2>4. out \in Seq(StatsOf(X)) /\ Bumps(list, out, PlaceOf(list, key), key, r)
    BY <1>1, <2>2, <2>3, WithRunIs
  <2>5. SumFunction(Runs(out)) = SumFunction(Runs(list)) + 1
    BY <2>2, <2>4, RunsGrow
  <2>6. SumFunction(Runs(out)) = NumberIn(Append(L, r), Q)
    BY <1>2, <1>3, <2>1, <2>5
  <2> QED BY <2>4, <2>6 DEF FamiliesBalance, Q
<1>5. CASE ~InFamily(r)
  <2>1. Bit(r \in Q) = 0
    BY <1>1, <1>5 DEF Bit
  <2>2. out = list
    BY <1>5
  <2>3. SumFunction(Runs(out)) = NumberIn(Append(L, r), Q)
    BY <1>2, <1>3, <2>1, <2>2
  <2> QED BY <2>2, <2>3 DEF FamiliesBalance, Q
<1> QED BY <1>4, <1>5

Tallies == [tp : Nat, fp : Nat, fn : Nat, tn : Nat]

AllOf(m) == m.tp + m.fp + m.fn + m.tn

(* A result is in exactly one tally if it is scored, and in none if it is not. *)
LEMMA TalliedIs ==
    ASSUME NEW X, NEW r, ResultOK(r, X), NEW m \in Tallies
    PROVE  /\ Tallied(m, r) \in Tallies
           /\ Tallied(m, r).tp + Tallied(m, r).fn = m.tp + m.fn + Bit(r.expected = "Grounded")
           /\ Tallied(m, r).tp + Tallied(m, r).fp =
                    m.tp + m.fp + Bit(Scored(r) /\ r.actual = "Grounded")
           /\ AllOf(Tallied(m, r)) = AllOf(m) + Bit(Scored(r))
<1> DEFINE t == Tallied(m, r)
<1>1. Nothing # "Grounded"
  BY NothingAssumption DEF Outcomes
<1>2. m.tp \in Nat /\ m.fp \in Nat /\ m.fn \in Nat /\ m.tn \in Nat
      /\ m = [tp |-> m.tp, fp |-> m.fp, fn |-> m.fn, tn |-> m.tn]
  BY DEF Tallies
<1>3. CASE r.expected = Nothing
  <2>1. t = m
    BY <1>1, <1>3 DEF Tallied
  <2>2. Bit(r.expected = "Grounded") = 0 /\ Bit(Scored(r) /\ r.actual = "Grounded") = 0
        /\ Bit(Scored(r)) = 0
    BY <1>1, <1>3 DEF Scored, Bit
  <2> HIDE DEF t
  <2> QED BY <1>2, <2>1, <2>2 DEF AllOf, t
<1>4. CASE r.expected = "Grounded" /\ r.actual = "Grounded"
  <2>1. t = [m EXCEPT !.tp = @ + 1]
    BY <1>1, <1>4 DEF Tallied
  <2>2. Bit(r.expected = "Grounded") = 1 /\ Bit(Scored(r) /\ r.actual = "Grounded") = 1
        /\ Bit(Scored(r)) = 1
    BY <1>1, <1>4 DEF Scored, Bit
  <2> HIDE DEF t
  <2>3. t \in Tallies /\ t.tp = m.tp + 1 /\ t.fp = m.fp /\ t.fn = m.fn /\ t.tn = m.tn
    BY <2>1 DEF Tallies
  <2> QED BY <1>2, <2>2, <2>3 DEF AllOf, t
<1>5. CASE r.expected = "Grounded" /\ r.actual # "Grounded"
  <2>1. t = [m EXCEPT !.fn = @ + 1]
    BY <1>1, <1>5 DEF Tallied
  <2>2. Bit(r.expected = "Grounded") = 1 /\ Bit(Scored(r) /\ r.actual = "Grounded") = 0
        /\ Bit(Scored(r)) = 1
    BY <1>1, <1>5 DEF Scored, Bit
  <2> HIDE DEF t
  <2>3. t \in Tallies /\ t.tp = m.tp /\ t.fp = m.fp /\ t.fn = m.fn + 1 /\ t.tn = m.tn
    BY <2>1 DEF Tallies
  <2> QED BY <1>2, <2>2, <2>3 DEF AllOf, t
<1>6. CASE r.expected \notin {Nothing, "Grounded"} /\ r.actual = "Grounded"
  <2>1. t = [m EXCEPT !.fp = @ + 1]
    BY <1>1, <1>6 DEF Tallied
  <2>2. Bit(r.expected = "Grounded") = 0 /\ Bit(Scored(r) /\ r.actual = "Grounded") = 1
        /\ Bit(Scored(r)) = 1
    BY <1>1, <1>6 DEF Scored, Bit
  <2> HIDE DEF t
  <2>3. t \in Tallies /\ t.tp = m.tp /\ t.fp = m.fp + 1 /\ t.fn = m.fn /\ t.tn = m.tn
    BY <2>1 DEF Tallies
  <2> QED BY <1>2, <2>2, <2>3 DEF AllOf, t
<1>7. CASE r.expected \notin {Nothing, "Grounded"} /\ r.actual # "Grounded"
  <2>1. t = [m EXCEPT !.tn = @ + 1]
    BY <1>1, <1>7 DEF Tallied
  <2>2. Bit(r.expected = "Grounded") = 0 /\ Bit(Scored(r) /\ r.actual = "Grounded") = 0
        /\ Bit(Scored(r)) = 1
    BY <1>1, <1>7 DEF Scored, Bit
  <2> HIDE DEF t
  <2>3. t \in Tallies /\ t.tp = m.tp /\ t.fp = m.fp /\ t.fn = m.fn /\ t.tn = m.tn + 1
    BY <2>1 DEF Tallies
  <2> QED BY <1>2, <2>2, <2>3 DEF AllOf, t
<1> QED BY <1>3, <1>4, <1>5, <1>6, <1>7

(* The matrix and the tallies of all results fit the results L. *)
OverallBalances(matrix, tally, L, R) ==
    /\ \A pair \in Pairs : matrix[pair] = NumberIn(L, OfCell(R, pair))
    /\ SumFunction(matrix) = NumberIn(L, OfScored(R))
    /\ tally.tp + tally.fn = NumberIn(L, OfExpected(R))
    /\ tally.tp + tally.fp = NumberIn(L, OfActual(R))
    /\ AllOf(tally) = NumberIn(L, OfScored(R))

(* One more result keeps the overall figures in balance with the list. *)
LEMMA OverallStep ==
    ASSUME NEW X, NEW R, ResultsOK(R, X), NEW L \in Seq(R), NEW r \in R,
           NEW matrix \in Cells, NEW tally \in Tallies, OverallBalances(matrix, tally, L, R)
    PROVE  OverallBalances(Recorded(matrix, r), Tallied(tally, r), Append(L, r), R)
<1> DEFINE more == Append(L, r)
           matrix2 == Recorded(matrix, r)
           tally2 == Tallied(tally, r)
           S == OfScored(R)
           E == OfExpected(R)
           A == OfActual(R)
<1>1. ResultOK(r, X)
  BY DEF ResultsOK
<1>2. /\ \A pair \in Pairs : matrix2[pair] = matrix[pair] + Bit(InCell(r, pair))
      /\ SumFunction(matrix2) = SumFunction(matrix) + Bit(Scored(r))
  BY <1>1, RecordedIs
<1>3. /\ tally2.tp + tally2.fn = tally.tp + tally.fn + Bit(r.expected = "Grounded")
      /\ tally2.tp + tally2.fp = tally.tp + tally.fp + Bit(Scored(r) /\ r.actual = "Grounded")
      /\ AllOf(tally2) = AllOf(tally) + Bit(Scored(r))
  BY <1>1, TalliedIs
<1> HIDE DEF matrix2, tally2, more
<1>4. \A pair \in Pairs : matrix2[pair] = NumberIn(more, OfCell(R, pair))
  <2> TAKE pair \in Pairs
  <2> DEFINE Q == OfCell(R, pair)
  <2>1. (r \in Q <=> InCell(r, pair)) /\ matrix[pair] = NumberIn(L, Q)
    BY DEF OfCell, OverallBalances
  <2> HIDE DEF Q
  <2>2. NumberIn(more, Q) = NumberIn(L, Q) + Bit(r \in Q)
    BY NumberInAppend DEF more
  <2>3. Bit(r \in Q) = Bit(InCell(r, pair))
    BY <2>1 DEF Bit
  <2> QED BY <1>2, <2>1, <2>2, <2>3 DEF Q
<1>5. /\ r \in S <=> Scored(r)
      /\ r \in E <=> r.expected = "Grounded"
      /\ r \in A <=> Scored(r) /\ r.actual = "Grounded"
  BY DEF OfScored, OfExpected, OfActual
<1>6. /\ SumFunction(matrix) = NumberIn(L, S) /\ tally.tp + tally.fn = NumberIn(L, E)
      /\ tally.tp + tally.fp = NumberIn(L, A) /\ AllOf(tally) = NumberIn(L, S)
  BY DEF OverallBalances
<1> HIDE DEF S, E, A
<1>7. /\ Bit(r \in S) = Bit(Scored(r))
      /\ Bit(r \in E) = Bit(r.expected = "Grounded")
      /\ Bit(r \in A) = Bit(Scored(r) /\ r.actual = "Grounded")
  BY <1>5 DEF Bit
<1>8. /\ NumberIn(more, S) = NumberIn(L, S) + Bit(r \in S)
      /\ NumberIn(more, E) = NumberIn(L, E) + Bit(r \in E)
      /\ NumberIn(more, A) = NumberIn(L, A) + Bit(r \in A)
  BY NumberInAppend DEF more
<1>9. /\ SumFunction(matrix2) = NumberIn(more, S) /\ AllOf(tally2) = NumberIn(more, S)
      /\ tally2.tp + tally2.fn = NumberIn(more, E) /\ tally2.tp + tally2.fp = NumberIn(more, A)
  BY <1>2, <1>3, <1>6, <1>7, <1>8
<1> QED BY <1>4, <1>9 DEF OverallBalances, matrix2, tally2, more, S, E, A

-----------------------------------------------------------------------------
(* A summary with one more result.                                          *)

Summaries(X, F) ==
    [confusion : Cells, overall : Tallies, perPattern : Seq(StatsOf(X)),
     perFamily : Seq(StatsOf(X)), failures : Seq(F)]

SummaryWith(m, c, o, p, f, l) ==
    [m EXCEPT !.confusion = c, !.overall = o, !.perPattern = p, !.perFamily = f, !.failures = l]

LEMMA SummaryReplaced ==
    ASSUME NEW m, NEW c1, NEW o1, NEW p1, NEW f1, NEW l1, NEW c, NEW o, NEW p, NEW f, NEW l,
           m = [confusion |-> c1, overall |-> o1, perPattern |-> p1, perFamily |-> f1,
                failures |-> l1]
    PROVE  SummaryWith(m, c, o, p, f, l) =
                [confusion |-> c, overall |-> o, perPattern |-> p, perFamily |-> f, failures |-> l]
<1>1. PICK m1 : m1 = [m EXCEPT !.confusion = c]
  OBVIOUS
<1>2. m1 = [confusion |-> c, overall |-> o1, perPattern |-> p1, perFamily |-> f1, failures |-> l1]
  BY <1>1
<1>3. PICK m2 : m2 = [m1 EXCEPT !.overall = o]
  OBVIOUS
<1>4. m2 = [confusion |-> c, overall |-> o, perPattern |-> p1, perFamily |-> f1, failures |-> l1]
  BY <1>2, <1>3
<1>5. PICK m3 : m3 = [m2 EXCEPT !.perPattern = p]
  OBVIOUS
<1>6. m3 = [confusion |-> c, overall |-> o, perPattern |-> p, perFamily |-> f1, failures |-> l1]
  BY <1>4, <1>5
<1>7. PICK m4 : m4 = [m3 EXCEPT !.perFamily = f]
  OBVIOUS
<1>8. m4 = [confusion |-> c, overall |-> o, perPattern |-> p, perFamily |-> f, failures |-> l1]
  BY <1>6, <1>7
<1>9. [m4 EXCEPT !.failures = l]
        = [confusion |-> c, overall |-> o, perPattern |-> p, perFamily |-> f, failures |-> l]
  BY <1>8
<1>10. SummaryWith(m, c, o, p, f, l) =
            [[[[[m EXCEPT !.confusion = c] EXCEPT !.overall = o] EXCEPT !.perPattern = p]
                EXCEPT !.perFamily = f] EXCEPT !.failures = l]
  BY DEF SummaryWith
<1> QED BY <1>1, <1>3, <1>5, <1>7, <1>9, <1>10, Zenon

Failed(case, r) == [case |-> case.id, pattern |-> r.id]
WithFailure(list, case, r) == IF Reached(r) THEN list ELSE Append(list, Failed(case, r))
WithFamily(list, r) == IF InFamily(r) THEN WithRun(list, r.taxonomy[1].family, r) ELSE list

(* WithResult figure by figure. *)
LEMMA WithResultIs ==
    ASSUME NEW X, NEW F, NEW m \in Summaries(X, F), NEW case, NEW r
    PROVE  /\ WithResult(m, case, r) =
                [confusion |-> Recorded(m.confusion, r), overall |-> Tallied(m.overall, r),
                 perPattern |-> WithRun(m.perPattern, r.id, r),
                 perFamily |-> WithFamily(m.perFamily, r),
                 failures |-> WithFailure(m.failures, case, r)]
           /\ m.confusion \in Cells /\ m.overall \in Tallies
           /\ m.perPattern \in Seq(StatsOf(X)) /\ m.perFamily \in Seq(StatsOf(X))
           /\ m.failures \in Seq(F)
<1>1. /\ m.confusion \in Cells /\ m.overall \in Tallies
      /\ m.perPattern \in Seq(StatsOf(X)) /\ m.perFamily \in Seq(StatsOf(X))
      /\ m.failures \in Seq(F)
      /\ m = [confusion |-> m.confusion, overall |-> m.overall, perPattern |-> m.perPattern,
              perFamily |-> m.perFamily, failures |-> m.failures]
  BY DEF Summaries
<1>2. WithResult(m, case, r) =
        SummaryWith(m, Recorded(m.confusion, r), Tallied(m.overall, r),
                    WithRun(m.perPattern, r.id, r),
                    IF r.expected = Nothing \/ r.statuses = <<>> THEN m.perFamily
                    ELSE WithRun(m.perFamily, r.taxonomy[1].family, r),
                    IF Reached(r) THEN m.failures
                    ELSE Append(m.failures, [case |-> case.id, pattern |-> r.id]))
  BY Zenon DEF WithResult, SummaryWith
<1>3. WithFamily(m.perFamily, r) = IF r.expected = Nothing \/ r.statuses = <<>> THEN m.perFamily
                                   ELSE WithRun(m.perFamily, r.taxonomy[1].family, r)
  BY DEF WithFamily, InFamily
<1>4. WithFailure(m.failures, case, r) =
        IF Reached(r) THEN m.failures ELSE Append(m.failures, [case |-> case.id, pattern |-> r.id])
  BY DEF WithFailure, Failed
<1>5. WithResult(m, case, r) =
        SummaryWith(m, Recorded(m.confusion, r), Tallied(m.overall, r),
                    WithRun(m.perPattern, r.id, r), WithFamily(m.perFamily, r),
                    WithFailure(m.failures, case, r))
  BY <1>2, <1>3, <1>4, Zenon
<1> QED BY <1>1, <1>5, SummaryReplaced

LEMMA ResultTyped ==
    ASSUME NEW X, NEW F, NEW m \in Summaries(X, F), NEW case, NEW r, ResultOK(r, X),
           Failed(case, r) \in F
    PROVE  WithResult(m, case, r) \in Summaries(X, F)
<1> DEFINE c == Recorded(m.confusion, r)
           o == Tallied(m.overall, r)
           p == WithRun(m.perPattern, r.id, r)
           f == WithFamily(m.perFamily, r)
           l == WithFailure(m.failures, case, r)
<1>1. /\ m.confusion \in Cells /\ m.overall \in Tallies
      /\ m.perPattern \in Seq(StatsOf(X)) /\ m.perFamily \in Seq(StatsOf(X))
      /\ m.failures \in Seq(F)
      /\ WithResult(m, case, r) =
            [confusion |-> c, overall |-> o, perPattern |-> p, perFamily |-> f, failures |-> l]
  BY WithResultIs
<1>2. c \in Cells
  BY <1>1, RecordedIs
<1>3. o \in Tallies
  BY <1>1, TalliedIs
<1>4. p \in Seq(StatsOf(X))
  <2>1. r.id \in X
    BY DEF ResultOK
  <2> QED BY <1>1, <2>1, WithRunIs
<1>5. f \in Seq(StatsOf(X))
  <2>1. CASE InFamily(r)
    <3>1. r.taxonomy[1].family \in X
      BY <2>1 DEF ResultOK, InFamily
    <3>2. WithRun(m.perFamily, r.taxonomy[1].family, r) \in Seq(StatsOf(X))
      BY <1>1, <3>1, WithRunIs
    <3> QED BY <2>1, <3>2 DEF WithFamily
  <2>2. CASE ~InFamily(r)
    BY <1>1, <2>2 DEF WithFamily
  <2> QED BY <2>1, <2>2
<1>6. l \in Seq(F)
  BY <1>1 DEF WithFailure
<1> HIDE DEF c, o, p, f, l
<1> QED BY <1>1, <1>2, <1>3, <1>4, <1>5, <1>6 DEF Summaries

Balanced(m, L, R) ==
    /\ OverallBalances(m.confusion, m.overall, L, R)
    /\ PatternsBalance(m.perPattern, L, R)
    /\ FamiliesBalance(m.perFamily, L, R)

(* The cases that a list of failures names. *)
NamedIn(list) == {list[i].case : i \in DOMAIN list}

(* One more failure names its case. *)
LEMMA NamedMore ==
    ASSUME NEW F, NEW list \in Seq(F), NEW x \in F
    PROVE  NamedIn(Append(list, x)) = NamedIn(list) \union {x.case}
<1> DEFINE more == Append(list, x)
<1>1. /\ DOMAIN more = DOMAIN list \union {Len(list) + 1} /\ more[Len(list) + 1] = x
      /\ \A i \in DOMAIN list : more[i] = list[i]
  OBVIOUS
<1> HIDE DEF more
<1> QED BY <1>1 DEF NamedIn, more

(* All of a summary is kept in balance by one more result. *)
LEMMA ResultStep ==
    ASSUME NEW X, NEW F, NEW R, ResultsOK(R, X), NEW L \in Seq(R), NEW r \in R, NEW case,
           Failed(case, r) \in F, NEW m \in Summaries(X, F), Balanced(m, L, R)
    PROVE  /\ Balanced(WithResult(m, case, r), Append(L, r), R)
           /\ NamedIn(WithResult(m, case, r).failures) =
                NamedIn(m.failures) \union (IF Reached(r) THEN {} ELSE {case.id})
<1> DEFINE out == WithResult(m, case, r)
<1>1. /\ m.confusion \in Cells /\ m.overall \in Tallies
      /\ m.perPattern \in Seq(StatsOf(X)) /\ m.perFamily \in Seq(StatsOf(X))
      /\ m.failures \in Seq(F)
      /\ out = [confusion |-> Recorded(m.confusion, r), overall |-> Tallied(m.overall, r),
                perPattern |-> WithRun(m.perPattern, r.id, r),
                perFamily |-> WithFamily(m.perFamily, r),
                failures |-> WithFailure(m.failures, case, r)]
  BY WithResultIs
<1> HIDE DEF out
<1>2. /\ out.confusion = Recorded(m.confusion, r) /\ out.overall = Tallied(m.overall, r)
      /\ out.perPattern = WithRun(m.perPattern, r.id, r)
      /\ out.perFamily = WithFamily(m.perFamily, r)
      /\ out.failures = WithFailure(m.failures, case, r)
  BY <1>1
<1>3. OverallBalances(out.confusion, out.overall, Append(L, r), R)
  BY <1>1, <1>2, OverallStep DEF Balanced
<1>4. PatternsBalance(out.perPattern, Append(L, r), R)
  BY <1>1, <1>2, PatternsStep DEF Balanced
<1>5. FamiliesBalance(out.perFamily, Append(L, r), R)
  BY <1>1, <1>2, FamiliesStep DEF Balanced, WithFamily
<1>6. NamedIn(out.failures) = NamedIn(m.failures) \union (IF Reached(r) THEN {} ELSE {case.id})
  <2>1. CASE Reached(r)
    BY <1>2, <2>1 DEF WithFailure
  <2>2. CASE ~Reached(r)
    <3>1. out.failures = Append(m.failures, Failed(case, r))
      BY <1>2, <2>2 DEF WithFailure
    <3>2. Failed(case, r).case = case.id
      BY DEF Failed
    <3>3. NamedIn(Append(m.failures, Failed(case, r))) =
                NamedIn(m.failures) \union {Failed(case, r).case}
      BY <1>1, NamedMore
    <3> QED BY <2>2, <3>1, <3>2, <3>3
  <2> QED BY <2>1, <2>2
<1> QED BY <1>3, <1>4, <1>5, <1>6 DEF Balanced, out

-----------------------------------------------------------------------------
(* One case.                                                                *)

Noted(summary, case) ==
    IF case.errors = 0 THEN summary
    ELSE [summary EXCEPT !.failures = Append(@, [case |-> case.id, pattern |-> Nothing])]

CaseRecursion(c, base, case) ==
    c = [s \in SUBSET DOMAIN case.results |->
            IF s = {} THEN base
            ELSE LET x == Max(s) IN WithResult(c[s \ {x}], case, case.results[x])]

LEMMA WithCaseIs ==
    ASSUME NEW summary, NEW case
    PROVE  WithCase(summary, case) =
                (CHOOSE c : CaseRecursion(c, Noted(summary, case), case))[DOMAIN case.results]
BY DEF WithCase, Noted, CaseRecursion, FoldLeft, MapThenFoldSet, Max

(* What a case can add to a summary. *)
CaseIn(case, F, R) ==
    /\ case.results \in Seq(R)
    /\ \A r \in R : Failed(case, r) \in F
    /\ [case |-> case.id, pattern |-> Nothing] \in F

(* Noting that a case had an error touches no figure, and names the case. *)
LEMMA NotedIs ==
    ASSUME NEW X, NEW F, NEW R, NEW case, CaseIn(case, F, R), NEW m \in Summaries(X, F)
    PROVE  /\ Noted(m, case) \in Summaries(X, F)
           /\ Noted(m, case).confusion = m.confusion /\ Noted(m, case).overall = m.overall
           /\ Noted(m, case).perPattern = m.perPattern /\ Noted(m, case).perFamily = m.perFamily
           /\ NamedIn(Noted(m, case).failures) =
                NamedIn(m.failures) \union (IF case.errors = 0 THEN {} ELSE {case.id})
<1> DEFINE x == [case |-> case.id, pattern |-> Nothing]
           l == Append(m.failures, x)
<1>1. CASE case.errors = 0
  BY <1>1 DEF Noted
<1>2. CASE case.errors # 0
  <2>1. m.failures \in Seq(F) /\ x \in F /\ x.case = case.id
    BY DEF Summaries, CaseIn
  <2>2. l \in Seq(F) /\ NamedIn(l) = NamedIn(m.failures) \union {case.id}
    <3> HIDE DEF x
    <3> QED BY <2>1, NamedMore
  <2>3. Noted(m, case) = [m EXCEPT !.failures = l]
    BY <1>2 DEF Noted
  <2> HIDE DEF l
  <2>4. /\ [m EXCEPT !.failures = l] \in Summaries(X, F)
        /\ [m EXCEPT !.failures = l].failures = l
        /\ [m EXCEPT !.failures = l].confusion = m.confusion
        /\ [m EXCEPT !.failures = l].overall = m.overall
        /\ [m EXCEPT !.failures = l].perPattern = m.perPattern
        /\ [m EXCEPT !.failures = l].perFamily = m.perFamily
    BY <2>2 DEF Summaries
  <2> QED BY <1>2, <2>2, <2>3, <2>4
<1> QED BY <1>1, <1>2

LEMMA CaseRecursionExists ==
    ASSUME NEW X, NEW F, NEW R, ResultsOK(R, X), NEW case, CaseIn(case, F, R),
           NEW base \in Summaries(X, F)
    PROVE  \E c : CaseRecursion(c, base, case)
<1> DEFINE rs == case.results
           n == Len(rs)
           V == Summaries(X, F)
           step == [k \in 1 .. n |-> [v \in V |-> WithResult(v, case, rs[k])]]
<1>1. n \in Nat /\ DOMAIN rs = 1 .. n /\ \A k \in 1 .. n : rs[k] \in R
  BY DEF CaseIn
<1> HIDE DEF n
<1>2. \A k \in 1 .. n : \A v \in V : WithResult(v, case, rs[k]) \in V
  <2> TAKE k \in 1 .. n
  <2> TAKE v \in V
  <2>1. rs[k] \in R /\ ResultOK(rs[k], X) /\ Failed(case, rs[k]) \in F
    BY <1>1 DEF ResultsOK, CaseIn
  <2> QED BY <2>1, ResultTyped
<1> HIDE DEF V
<1>3. step \in [1 .. n -> [V -> V]]
  BY <1>2
<1>4. \A k \in 1 .. n : \A v \in V : step[k][v] = WithResult(v, case, rs[k])
  OBVIOUS
<1> HIDE DEF step
<1>5. base \in V
  BY DEF V
<1>9. PICK f : StepsTo(f, n, V, base, step)
  BY <1>1, <1>3, <1>5, StepsExist
<1>6. /\ f = [s \in SUBSET (1 .. n) |-> f[s]]
      /\ f[{}] = base
      /\ \A s \in SUBSET (1 .. n) : f[s] \in V
      /\ \A s \in SUBSET (1 .. n) : s # {} =>
                Max(s) \in 1 .. n /\ f[s] = step[Max(s)][f[s \ {Max(s)}]]
  BY <1>9, Zenon DEF StepsTo
<1>7. \A s \in SUBSET (1 .. n) :
            f[s] = IF s = {} THEN base
                   ELSE LET x == Max(s) IN WithResult(f[s \ {x}], case, rs[x])
  <2> TAKE s \in SUBSET (1 .. n)
  <2>1. CASE s = {}
    BY <1>6, <2>1
  <2>2. CASE s # {}
    <3>1. Max(s) \in 1 .. n /\ f[s] = step[Max(s)][f[s \ {Max(s)}]]
      BY <1>6, <2>2
    <3>2. s \ {Max(s)} \in SUBSET (1 .. n)
      OBVIOUS
    <3>3. f[s \ {Max(s)}] \in V
      BY <1>6, <3>2
    <3>4. f[s] = WithResult(f[s \ {Max(s)}], case, rs[Max(s)])
      BY <1>4, <3>1, <3>3
    <3> QED BY <2>2, <3>4
  <2> QED BY <2>1, <2>2
<1>8. f = [s \in SUBSET DOMAIN rs |->
            IF s = {} THEN base ELSE LET x == Max(s) IN WithResult(f[s \ {x}], case, rs[x])]
  BY <1>1, <1>6, <1>7, Zenon
<1> QED BY <1>8, Zenon DEF CaseRecursion, rs

(* The summary after each result of a case. *)
LEMMA CaseRecursionSteps ==
    ASSUME NEW R, NEW case, case.results \in Seq(R), NEW base, NEW c, CaseRecursion(c, base, case)
    PROVE  /\ c[1 .. 0] = base
           /\ \A k \in 1 .. Len(case.results) :
                    c[1 .. k] = WithResult(c[1 .. k - 1], case, case.results[k])
<1> DEFINE n == Len(case.results)
<1>1. n \in Nat /\ DOMAIN case.results = 1 .. n
  OBVIOUS
<1> HIDE DEF n
<1>2. \A s \in SUBSET (1 .. n) :
            c[s] = IF s = {} THEN base
                   ELSE LET x == Max(s) IN WithResult(c[s \ {x}], case, case.results[x])
  BY <1>1 DEF CaseRecursion
<1>3. c[1 .. 0] = base
  <2>1. 1 .. 0 = {} /\ {} \in SUBSET (1 .. n)
    OBVIOUS
  <2>2. c[{}] = base
    BY <1>2, <2>1
  <2> QED BY <2>1, <2>2
<1>4. \A k \in 1 .. n : c[1 .. k] = WithResult(c[1 .. k - 1], case, case.results[k])
  <2> TAKE k \in 1 .. n
  <2>1. 1 .. k \in SUBSET (1 .. n) /\ 1 .. k # {} /\ Max(1 .. k) = k /\ (1 .. k) \ {k} = 1 .. k - 1
    BY <1>1, UptoIs
  <2>2. c[1 .. k] = WithResult(c[(1 .. k) \ {Max(1 .. k)}], case, case.results[Max(1 .. k)])
    BY <1>2, <2>1
  <2> QED BY <2>1, <2>2
<1> QED BY <1>3, <1>4 DEF n

(* The first k results of a case are in the summary. *)
CaseSoFar(c, m, case, k, L, R, V) ==
    /\ c[1 .. k] \in V
    /\ Balanced(m, L, R) =>
            /\ Balanced(c[1 .. k], L \o SubSeq(case.results, 1, k), R)
            /\ NamedIn(c[1 .. k].failures) =
                    NamedIn(m.failures)
                        \union (IF \A j \in 1 .. k : Reached(case.results[j]) THEN {} ELSE {case.id})

(* A case adds its own results to a summary, and is named unless it passed. *)
LEMMA CaseStep ==
    ASSUME NEW X, NEW F, NEW R, ResultsOK(R, X), NEW L \in Seq(R), NEW case, CaseIn(case, F, R),
           NEW m \in Summaries(X, F)
    PROVE  /\ WithCase(m, case) \in Summaries(X, F)
           /\ Balanced(m, L, R) =>
                /\ Balanced(WithCase(m, case), L \o case.results, R)
                /\ NamedIn(WithCase(m, case).failures) =
                        NamedIn(m.failures) \union (IF Passed(case) THEN {} ELSE {case.id})
<1> DEFINE rs == case.results
           n == Len(rs)
           V == Summaries(X, F)
           base == Noted(m, case)
           c == CHOOSE d : CaseRecursion(d, base, case)
           T == {k \in 0 .. n : CaseSoFar(c, base, case, k, L, R, V)}
<1>1. n \in Nat /\ DOMAIN rs = 1 .. n /\ rs \in Seq(R) /\ \A k \in 1 .. n : rs[k] \in R
  BY DEF CaseIn
<1>2. /\ base \in V
      /\ base.confusion = m.confusion /\ base.overall = m.overall
      /\ base.perPattern = m.perPattern /\ base.perFamily = m.perFamily
      /\ NamedIn(base.failures) =
                NamedIn(m.failures) \union (IF case.errors = 0 THEN {} ELSE {case.id})
  BY NotedIs
<1>3. Balanced(m, L, R) => Balanced(base, L, R)
  BY <1>2 DEF Balanced
<1>4. WithCase(m, case) = c[1 .. n]
  BY <1>1, WithCaseIs
<1> HIDE DEF base
<1>5. CaseRecursion(c, base, case)
  BY <1>2, CaseRecursionExists
<1> HIDE DEF c
<1>6. c[1 .. 0] = base /\ \A k \in 1 .. n : c[1 .. k] = WithResult(c[1 .. k - 1], case, rs[k])
  BY <1>1, <1>5, CaseRecursionSteps
<1>7. CaseSoFar(c, base, case, 0, L, R, V)
  <2>1. SubSeq(rs, 1, 0) = <<>> /\ L \o <<>> = L
    BY <1>1
  <2>2. \A j \in 1 .. 0 : Reached(rs[j])
    OBVIOUS
  <2> HIDE DEF V
  <2> QED BY <1>2, <1>6, <2>1, <2>2 DEF CaseSoFar
<1>8. ASSUME NEW k \in 1 .. n, CaseSoFar(c, base, case, k - 1, L, R, V)
      PROVE  CaseSoFar(c, base, case, k, L, R, V)
  <2> DEFINE v == c[1 .. k - 1]
             M == L \o SubSeq(rs, 1, k - 1)
             r == rs[k]
  <2>1. r \in R /\ ResultOK(r, X) /\ Failed(case, r) \in F
    BY <1>1 DEF ResultsOK, CaseIn
  <2>2. v \in V /\ c[1 .. k] = WithResult(v, case, r)
    BY <1>6, <1>8 DEF CaseSoFar
  <2>3. M \in Seq(R) /\ L \o SubSeq(rs, 1, k) = Append(M, r)
    BY <1>1, PrefixGrows
  <2>4. c[1 .. k] \in V
    <3> HIDE DEF v, r
    <3> QED BY <2>1, <2>2, ResultTyped
  <2>5. ASSUME Balanced(base, L, R)
        PROVE  /\ Balanced(c[1 .. k], L \o SubSeq(rs, 1, k), R)
               /\ NamedIn(c[1 .. k].failures) = NamedIn(base.failures)
                        \union (IF \A j \in 1 .. k : Reached(rs[j]) THEN {} ELSE {case.id})
    <3>1. /\ Balanced(v, M, R)
          /\ NamedIn(v.failures) = NamedIn(base.failures)
                \union (IF \A j \in 1 .. k - 1 : Reached(rs[j]) THEN {} ELSE {case.id})
      BY <1>8, <2>5 DEF CaseSoFar
    <3>2. (\A j \in 1 .. k : Reached(rs[j])) <=> (\A j \in 1 .. k - 1 : Reached(rs[j])) /\ Reached(r)
      <4>1. \A j : j \in 1 .. k <=> j \in 1 .. k - 1 \/ j = k
        BY <1>1
      <4> QED BY <4>1
    <3> HIDE DEF v, M, r
    <3>3. /\ Balanced(WithResult(v, case, r), Append(M, r), R)
          /\ NamedIn(WithResult(v, case, r).failures) =
                NamedIn(v.failures) \union (IF Reached(r) THEN {} ELSE {case.id})
      <4>1. v \in Summaries(X, F) /\ r \in R /\ Failed(case, r) \in F /\ M \in Seq(R)
            /\ Balanced(v, M, R)
        BY <2>1, <2>2, <2>3, <3>1
      <4> QED BY <4>1, ResultStep, SMT
    <3> QED BY <2>2, <2>3, <3>1, <3>2, <3>3
  <2> HIDE DEF V
  <2> QED BY <2>4, <2>5 DEF CaseSoFar
<1>9. CaseSoFar(c, base, case, n, L, R, V)
  <2> HIDE DEF V
  <2>1. 0 \in T /\ \A k \in 1 .. n : k - 1 \in T => k \in T
    BY <1>1, <1>7, <1>8
  <2> HIDE DEF T
  <2>2. \A k \in 0 .. n : k \in T
    BY <1>1, <2>1, Stepwise
  <2>3. n \in T
    BY <1>1, <2>2
  <2> QED BY <2>3 DEF T
<1>10. SubSeq(rs, 1, n) = rs
  BY <1>1
<1>11. Passed(case) <=> case.errors = 0 /\ \A j \in 1 .. n : Reached(rs[j])
  BY <1>1 DEF Passed
<1>12. ASSUME Balanced(m, L, R)
       PROVE  /\ Balanced(WithCase(m, case), L \o case.results, R)
              /\ NamedIn(WithCase(m, case).failures) =
                        NamedIn(m.failures) \union (IF Passed(case) THEN {} ELSE {case.id})
  <2>1. /\ Balanced(c[1 .. n], L \o rs, R)
        /\ NamedIn(c[1 .. n].failures) = NamedIn(base.failures)
                \union (IF \A j \in 1 .. n : Reached(rs[j]) THEN {} ELSE {case.id})
    BY <1>3, <1>9, <1>10, <1>12 DEF CaseSoFar
  <2> QED BY <1>2, <1>4, <1>11, <2>1
<1> QED BY <1>4, <1>9, <1>12 DEF CaseSoFar

-----------------------------------------------------------------------------
(* All cases.                                                               *)

NoSummary == [confusion |-> EmptyMatrix, overall |-> NoMetrics, perPattern |-> <<>>,
              perFamily |-> <<>>, failures |-> <<>>]

SuiteRecursion(c, list) ==
    c = [s \in SUBSET DOMAIN list |->
            IF s = {} THEN NoSummary
            ELSE LET x == Max(s) IN WithCase(c[s \ {x}], list[x])]

LEMMA ComputeIs ==
    ASSUME NEW list
    PROVE  Compute(list) = (CHOOSE c : SuiteRecursion(c, list))[DOMAIN list]
BY DEF Compute, NoSummary, SuiteRecursion, FoldLeft, MapThenFoldSet, Max

CasesIn(list, F, R) ==
    /\ Len(list) \in Nat /\ DOMAIN list = 1 .. Len(list)
    /\ \A k \in 1 .. Len(list) : CaseIn(list[k], F, R)

(* The summary of no case at all. *)
LEMMA NothingBalances ==
    ASSUME NEW X, NEW F, NEW R
    PROVE  /\ NoSummary \in Summaries(X, F) /\ Balanced(NoSummary, <<>>, R)
           /\ NamedIn(NoSummary.failures) = {}
<1>1. \A Q : NumberIn(<<>>, Q) = 0
  <2>1. <<>> \in Seq(R) /\ DOMAIN <<>> = {}
    OBVIOUS
  <2> QED BY <2>1, NumberInNone
<1>2. EmptyMatrix \in Cells /\ SumFunction(EmptyMatrix) = 0
      /\ \A pair \in Pairs : EmptyMatrix[pair] = 0
  <2>1. \A pair \in Pairs : EmptyMatrix[pair] = 0
    BY DEF EmptyMatrix, Pairs
  <2> QED BY <2>1, EmptyMatrixIs
<1>3. NoMetrics \in Tallies /\ NoMetrics.tp + NoMetrics.fn = 0 /\ NoMetrics.tp + NoMetrics.fp = 0
      /\ AllOf(NoMetrics) = 0
  BY DEF NoMetrics, Tallies, AllOf
<1>4. /\ SumFunction(Runs(<<>>)) = 0
      /\ \A pair \in Pairs : SumFunction(Column(<<>>, pair)) = 0
  <2>1. IsFiniteSet({})
    BY FS_EmptySet
  <2>2. DOMAIN Runs(<<>>) = {} /\ \A pair \in Pairs : DOMAIN Column(<<>>, pair) = {}
    BY DEF Runs, Column
  <2> QED BY <2>1, <2>2, SumOfZeros
<1>5. /\ NoSummary.confusion = EmptyMatrix /\ NoSummary.overall = NoMetrics
      /\ NoSummary.perPattern = <<>> /\ NoSummary.perFamily = <<>> /\ NoSummary.failures = <<>>
  BY DEF NoSummary
<1>6. NoSummary \in Summaries(X, F)
  <2>1. <<>> \in Seq(StatsOf(X)) /\ <<>> \in Seq(F)
    OBVIOUS
  <2> QED BY <1>2, <1>3, <2>1 DEF NoSummary, Summaries
<1>7. OverallBalances(EmptyMatrix, NoMetrics, <<>>, R)
  BY <1>1, <1>2, <1>3 DEF OverallBalances
<1>8. PatternsBalance(<<>>, <<>>, R)
  BY <1>1, <1>4 DEF PatternsBalance
<1>9. FamiliesBalance(<<>>, <<>>, R)
  BY <1>1, <1>4 DEF FamiliesBalance
<1>10. NamedIn(<<>>) = {}
  BY DEF NamedIn
<1> QED BY <1>5, <1>6, <1>7, <1>8, <1>9, <1>10 DEF Balanced

LEMMA SuiteRecursionExists ==
    ASSUME NEW X, NEW F, NEW R, ResultsOK(R, X), NEW list, CasesIn(list, F, R)
    PROVE  \E c : SuiteRecursion(c, list)
<1> DEFINE n == Len(list)
           V == Summaries(X, F)
           step == [k \in 1 .. n |-> [v \in V |-> WithCase(v, list[k])]]
<1>1. n \in Nat /\ DOMAIN list = 1 .. n
  BY DEF CasesIn
<1>2. \A k \in 1 .. n : \A v \in V : WithCase(v, list[k]) \in V
  <2> SUFFICES ASSUME NEW k \in 1 .. n, NEW v \in V PROVE WithCase(v, list[k]) \in V
    OBVIOUS
  <2>1. CaseIn(list[k], F, R) /\ <<>> \in Seq(R)
    BY DEF CasesIn
  <2> DEFINE case == list[k]
  <2> HIDE DEF case
  <2>2. CaseIn(case, F, R) => WithCase(v, case) \in V
    BY <2>1, CaseStep
  <2> QED BY <2>1, <2>2 DEF case
<1>3. NoSummary \in V
  BY NothingBalances
<1> HIDE DEF V, n
<1>4. step \in [1 .. n -> [V -> V]]
  BY <1>2
<1>5. \A k \in 1 .. n : \A v \in V : step[k][v] = WithCase(v, list[k])
  OBVIOUS
<1> HIDE DEF step
<1>9. PICK f : StepsTo(f, n, V, NoSummary, step)
  BY <1>1, <1>3, <1>4, StepsExist
<1>6. /\ f = [s \in SUBSET (1 .. n) |-> f[s]]
      /\ f[{}] = NoSummary
      /\ \A s \in SUBSET (1 .. n) : f[s] \in V
      /\ \A s \in SUBSET (1 .. n) : s # {} =>
                Max(s) \in 1 .. n /\ f[s] = step[Max(s)][f[s \ {Max(s)}]]
  BY <1>9, Zenon DEF StepsTo
<1>7. \A s \in SUBSET (1 .. n) :
            f[s] = IF s = {} THEN NoSummary
                   ELSE LET x == Max(s) IN WithCase(f[s \ {x}], list[x])
  <2> TAKE s \in SUBSET (1 .. n)
  <2>1. CASE s = {}
    BY <1>6, <2>1
  <2>2. CASE s # {}
    <3>1. Max(s) \in 1 .. n /\ f[s] = step[Max(s)][f[s \ {Max(s)}]]
      BY <1>6, <2>2
    <3>2. s \ {Max(s)} \in SUBSET (1 .. n)
      OBVIOUS
    <3>3. f[s \ {Max(s)}] \in V
      BY <1>6, <3>2
    <3>4. f[s] = WithCase(f[s \ {Max(s)}], list[Max(s)])
      BY <1>5, <3>1, <3>3
    <3> QED BY <2>2, <3>4
  <2> QED BY <2>1, <2>2
<1>8. f = [s \in SUBSET DOMAIN list |->
            IF s = {} THEN NoSummary ELSE LET x == Max(s) IN WithCase(f[s \ {x}], list[x])]
  BY <1>1, <1>6, <1>7, Zenon
<1> QED BY <1>8, Zenon DEF SuiteRecursion

(* The summary after each case. *)
LEMMA SuiteRecursionSteps ==
    ASSUME NEW list, NEW n \in Nat, DOMAIN list = 1 .. n, NEW c, SuiteRecursion(c, list)
    PROVE  /\ c[1 .. 0] = NoSummary
           /\ \A k \in 1 .. n : c[1 .. k] = WithCase(c[1 .. k - 1], list[k])
<1>1. \A s \in SUBSET (1 .. n) :
            c[s] = IF s = {} THEN NoSummary
                   ELSE LET x == Max(s) IN WithCase(c[s \ {x}], list[x])
  BY DEF SuiteRecursion
<1>2. c[1 .. 0] = NoSummary
  <2>1. 1 .. 0 = {} /\ {} \in SUBSET (1 .. n)
    OBVIOUS
  <2>2. c[{}] = NoSummary
    BY <1>1, <2>1
  <2> QED BY <2>1, <2>2
<1>3. \A k \in 1 .. n : c[1 .. k] = WithCase(c[1 .. k - 1], list[k])
  <2> TAKE k \in 1 .. n
  <2>1. 1 .. k \in SUBSET (1 .. n) /\ 1 .. k # {} /\ Max(1 .. k) = k /\ (1 .. k) \ {k} = 1 .. k - 1
    BY UptoIs
  <2>2. c[1 .. k] = WithCase(c[(1 .. k) \ {Max(1 .. k)}], list[Max(1 .. k)])
    BY <1>1, <2>1
  <2> QED BY <2>1, <2>2
<1> QED BY <1>2, <1>3

(* The results of the first k cases. *)
ResultsUpto(list, k) == FlattenSeq([c \in 1 .. k |-> list[c].results])

LEMMA ResultsGrow ==
    ASSUME NEW F, NEW R, NEW list, CasesIn(list, F, R), NEW k \in 1 .. Len(list)
    PROVE  /\ ResultsUpto(list, k - 1) \in Seq(R)
           /\ ResultsUpto(list, k) = ResultsUpto(list, k - 1) \o list[k].results
<1> DEFINE a == [c \in 1 .. k - 1 |-> list[c].results]
           b == [c \in 1 .. k |-> list[c].results]
           s == list[k].results
<1>1. Len(list) \in Nat /\ \A c \in 1 .. Len(list) : list[c].results \in Seq(R)
  BY DEF CasesIn, CaseIn
<1>2. a \in Seq(Seq(R)) /\ Len(a) = k - 1 /\ s \in Seq(R) /\ k - 1 \in Nat
  BY <1>1
<1>3. b = Append(a, s)
  <2>1. b \in Seq(Seq(R)) /\ Len(b) = k
    BY <1>1
  <2>2. Append(a, s) \in Seq(Seq(R)) /\ Len(Append(a, s)) = k
    BY <1>2
  <2>3. \A i \in 1 .. k : b[i] = Append(a, s)[i]
    <3> TAKE i \in 1 .. k
    <3>1. CASE i = k
      BY <1>2, <3>1
    <3>2. CASE i # k
      <4>1. i \in 1 .. k - 1
        BY <1>2, <3>2
      <4> QED BY <1>2, <4>1
    <3> QED BY <3>1, <3>2
  <2> HIDE DEF a, b, s
  <2> QED BY <2>1, <2>2, <2>3
<1> HIDE DEF a, b, s
<1>4. FlattenSeq(a) \in Seq(R)
  BY <1>2, FlattenSeqLists
<1>5. FlattenSeq(b) = FlattenSeq(a) \o s
  BY <1>2, <1>3, FlattenSeqAppend
<1> QED BY <1>4, <1>5 DEF ResultsUpto, a, b, s

(* The cases among the first k that did not pass. *)
NotPassed(list, k) == {list[j].id : j \in {i \in 1 .. k : ~Passed(list[i])}}

SuiteSoFar(c, list, k, R, V) ==
    /\ c[1 .. k] \in V
    /\ Balanced(c[1 .. k], ResultsUpto(list, k), R)
    /\ NamedIn(c[1 .. k].failures) = NotPassed(list, k)

(* metrics::compute: the summary of all cases fits all their results. *)
LEMMA ComputeBalances ==
    ASSUME NEW X, NEW F, NEW R, ResultsOK(R, X), NEW list, CasesIn(list, F, R)
    PROVE  /\ Compute(list) \in Summaries(X, F)
           /\ ResultsUpto(list, Len(list)) \in Seq(R)
           /\ Balanced(Compute(list), ResultsUpto(list, Len(list)), R)
           /\ NamedIn(Compute(list).failures) = NotPassed(list, Len(list))
<1> DEFINE n == Len(list)
           V == Summaries(X, F)
           c == CHOOSE d : SuiteRecursion(d, list)
           T == {k \in 0 .. n : SuiteSoFar(c, list, k, R, V)}
<1>1. n \in Nat /\ DOMAIN list = 1 .. n /\ \A k \in 1 .. n : CaseIn(list[k], F, R)
  BY DEF CasesIn
<1>2. Compute(list) = c[1 .. n]
  BY <1>1, ComputeIs
<1>3. SuiteRecursion(c, list)
  BY SuiteRecursionExists
<1> HIDE DEF c
<1>4. c[1 .. 0] = NoSummary /\ \A k \in 1 .. n : c[1 .. k] = WithCase(c[1 .. k - 1], list[k])
  BY <1>1, <1>3, SuiteRecursionSteps
<1>5. ResultsUpto(list, 0) = <<>> /\ <<>> \in Seq(R)
  <2>1. [j \in 1 .. 0 |-> list[j].results] = <<>>
    OBVIOUS
  <2> QED BY <2>1, FlattenSeqEmpty DEF ResultsUpto
<1>6. SuiteSoFar(c, list, 0, R, V)
  <2>1. NotPassed(list, 0) = {}
    BY DEF NotPassed
  <2> QED BY <1>4, <1>5, <2>1, NothingBalances DEF SuiteSoFar
<1>7. ASSUME NEW k \in 1 .. n, SuiteSoFar(c, list, k - 1, R, V)
      PROVE  SuiteSoFar(c, list, k, R, V)
  <2> DEFINE v == c[1 .. k - 1]
             M == ResultsUpto(list, k - 1)
             case == list[k]
  <2>1. CaseIn(case, F, R)
    BY <1>1
  <2>2. M \in Seq(R) /\ ResultsUpto(list, k) = M \o case.results
    BY ResultsGrow
  <2>3. v \in V /\ Balanced(v, M, R) /\ NamedIn(v.failures) = NotPassed(list, k - 1)
    BY <1>7 DEF SuiteSoFar
  <2>4. c[1 .. k] = WithCase(v, case)
    BY <1>4
  <2>5. NotPassed(list, k) = NotPassed(list, k - 1) \union (IF Passed(case) THEN {} ELSE {case.id})
    <3>1. \A j : j \in 1 .. k <=> j \in 1 .. k - 1 \/ j = k
      BY <1>1
    <3> QED BY <3>1 DEF NotPassed
  <2> HIDE DEF v, M, case
  <2>6. /\ WithCase(v, case) \in V
        /\ Balanced(WithCase(v, case), M \o case.results, R)
        /\ NamedIn(WithCase(v, case).failures) =
                NamedIn(v.failures) \union (IF Passed(case) THEN {} ELSE {case.id})
    <3>1. /\ CaseIn(case, F, R) /\ M \in Seq(R) /\ v \in Summaries(X, F) /\ Balanced(v, M, R)
          /\ ResultsOK(R, X)
      BY <2>1, <2>2, <2>3
    <3> QED BY <3>1, CaseStep, SMT
  <2> HIDE DEF V
  <2> QED BY <2>2, <2>3, <2>4, <2>5, <2>6 DEF SuiteSoFar
<1>8. SuiteSoFar(c, list, n, R, V)
  <2> HIDE DEF V
  <2>1. 0 \in T /\ \A k \in 1 .. n : k - 1 \in T => k \in T
    BY <1>1, <1>6, <1>7
  <2> HIDE DEF T
  <2>2. \A k \in 0 .. n : k \in T
    BY <1>1, <2>1, Stepwise
  <2>3. n \in T
    BY <1>1, <2>2
  <2> QED BY <2>3 DEF T
<1>9. ResultsUpto(list, n) \in Seq(R)
  <2>1. CASE n = 0
    BY <1>5, <2>1
  <2>2. CASE n # 0
    <3>1. n \in 1 .. n
      BY <1>1, <2>2
    <3>2. /\ ResultsUpto(list, n - 1) \in Seq(R)
          /\ ResultsUpto(list, n) = ResultsUpto(list, n - 1) \o list[n].results
      BY <3>1, ResultsGrow
    <3>3. list[n].results \in Seq(R)
      BY <1>1, <3>1 DEF CaseIn
    <3> QED BY <3>2, <3>3
  <2> QED BY <2>1, <2>2
<1> HIDE DEF V
<1> QED BY <1>2, <1>8, <1>9 DEF SuiteSoFar, V

-----------------------------------------------------------------------------
(* The figures of a report.                                                 *)

CasesWellFormed(list) ==
    /\ Len(list) \in Nat /\ DOMAIN list = 1 .. Len(list)
    /\ \A c \in 1 .. Len(list) :
            /\ IsList(list[c].results)
            /\ \A k \in DOMAIN list[c].results : WellFormed(list[c].results[k])

ResultsIn(list) ==
    UNION {{list[c].results[k] : k \in DOMAIN list[c].results} : c \in 1 .. Len(list)}
KeysIn(R) == {r.id : r \in R} \union {r.taxonomy[1].family : r \in R}
FailuresIn(list) ==
    [case : {list[c].id : c \in 1 .. Len(list)},
     pattern : KeysIn(ResultsIn(list)) \union {Nothing}]

(* The results, keys and failures of a list are among its own. *)
LEMMA CasesAreIn ==
    ASSUME NEW list, CasesWellFormed(list)
    PROVE  /\ ResultsOK(ResultsIn(list), KeysIn(ResultsIn(list)))
           /\ CasesIn(list, FailuresIn(list), ResultsIn(list))
<1> DEFINE R == ResultsIn(list)
           X == KeysIn(R)
           F == FailuresIn(list)
<1>1. \A r \in R : \E c \in 1 .. Len(list) : \E k \in DOMAIN list[c].results : r = list[c].results[k]
  BY DEF ResultsIn
<1>2. \A r \in R : WellFormed(r)
  BY <1>1 DEF CasesWellFormed
<1>3. \A c \in 1 .. Len(list) : \A k \in DOMAIN list[c].results : list[c].results[k] \in R
  BY DEF ResultsIn
<1>4. \A r \in R : r.id \in X /\ r.taxonomy[1].family \in X
  BY DEF KeysIn
<1> HIDE DEF R, X
<1>5. ResultsOK(R, X)
  BY <1>2, <1>4 DEF ResultsOK, ResultOK
<1>6. ASSUME NEW c \in 1 .. Len(list) PROVE CaseIn(list[c], F, R)
  <2> DEFINE case == list[c]
  <2>1. case.results \in Seq(R)
    <3>1. IsList(case.results) /\ \A k \in DOMAIN case.results : case.results[k] \in R
      BY <1>3 DEF CasesWellFormed
    <3> HIDE DEF case
    <3>2. case.results \in Seq({case.results[k] : k \in DOMAIN case.results})
      BY <3>1 DEF IsList, ToSet
    <3> QED BY <3>1, <3>2
  <2>2. case.id \in {list[d].id : d \in 1 .. Len(list)}
    OBVIOUS
  <2> HIDE DEF case
  <2>3. [case |-> case.id, pattern |-> Nothing] \in F
    BY <2>2 DEF FailuresIn
  <2>4. \A r \in R : Failed(case, r) \in F
    BY <1>4, <2>2 DEF FailuresIn, Failed, X, R
  <2>5. CaseIn(case, F, R)
    BY <2>1, <2>3, <2>4 DEF CaseIn
  <2> QED BY <2>5 DEF case
<1> HIDE DEF F
<1>7. CasesIn(list, F, R)
  BY <1>6 DEF CasesIn, CasesWellFormed
<1> QED BY <1>5, <1>7 DEF R, X, F

(* The counts that the figures are compared with. *)
LEMMA CountsAre ==
    ASSUME NEW R, AllResults \in Seq(R)
    PROVE  /\ \A pair \in Pairs :
                Count(LAMBDA r : <<r.expected, r.actual>> = pair) =
                    NumberIn(AllResults, OfCell(R, pair))
           /\ Count(LAMBDA r : r.expected = "Grounded") = NumberIn(AllResults, OfExpected(R))
           /\ Count(LAMBDA r : Scored(r) /\ r.actual = "Grounded") = NumberIn(AllResults, OfActual(R))
           /\ Count(LAMBDA r : Scored(r) /\ r.count > 0) = NumberIn(AllResults, OfFamilies(R))
           /\ \A key :
                /\ Count(LAMBDA r : r.id = key) = NumberIn(AllResults, Own(R, key))
                /\ Count(LAMBDA r : r.id = key /\ Reached(r)) = NumberIn(AllResults, OwnReached(R, key))
                /\ Count(LAMBDA r : r.id = key /\ Scored(r)) = NumberIn(AllResults, OwnScored(R, key))
<1> DEFINE L == AllResults
<1>1. \A k \in DOMAIN L : L[k] \in R
  OBVIOUS
<1> HIDE DEF L
<1>2. \A pair : {k \in DOMAIN L : <<L[k].expected, L[k].actual>> = pair} =
            {k \in DOMAIN L : L[k] \in OfCell(R, pair)}
  BY <1>1 DEF OfCell, InCell
<1>3. {k \in DOMAIN L : L[k].expected = "Grounded"} = {k \in DOMAIN L : L[k] \in OfExpected(R)}
  BY <1>1 DEF OfExpected
<1>4. {k \in DOMAIN L : Scored(L[k]) /\ L[k].actual = "Grounded"} =
            {k \in DOMAIN L : L[k] \in OfActual(R)}
  BY <1>1 DEF OfActual
<1>5. {k \in DOMAIN L : Scored(L[k]) /\ L[k].count > 0} = {k \in DOMAIN L : L[k] \in OfFamilies(R)}
  BY <1>1 DEF OfFamilies
<1>6. \A key : {k \in DOMAIN L : L[k].id = key} = {k \in DOMAIN L : L[k] \in Own(R, key)}
  BY <1>1 DEF Own
<1>7. \A key : {k \in DOMAIN L : L[k].id = key /\ Reached(L[k])} =
            {k \in DOMAIN L : L[k] \in OwnReached(R, key)}
  BY <1>1 DEF OwnReached
<1>8. \A key : {k \in DOMAIN L : L[k].id = key /\ Scored(L[k])} =
            {k \in DOMAIN L : L[k] \in OwnScored(R, key)}
  BY <1>1 DEF OwnScored
<1> QED BY <1>2, <1>3, <1>4, <1>5, <1>6, <1>7, <1>8, Zenon DEF Count, NumberIn, L

(* A report computed from well-formed results of distinct cases is in balance. *)
LEMMA FiguresFollow ==
    ASSUME CasesWellFormed(results), DistinctIds(results),
           report.metrics = Compute(results),
           report.casesPassed = Cardinality({i \in DOMAIN results : Passed(results[i])})
    PROVE  FiguresBalance
<1> DEFINE R == ResultsIn(results)
           X == KeysIn(R)
           F == FailuresIn(results)
           L == AllResults
           m == report.metrics
           n == Len(results)
           named == {m.failures[i].case : i \in DOMAIN m.failures}
<1>1. n \in Nat /\ DOMAIN results = 1 .. n
  BY DEF CasesWellFormed
<1>2. ResultsOK(R, X) /\ CasesIn(results, F, R)
  BY CasesAreIn
<1>3. L = ResultsUpto(results, n)
  BY <1>1 DEF AllResults, ResultsUpto
<1> HIDE DEF R, X, F
<1>4. /\ m \in Summaries(X, F) /\ ResultsUpto(results, n) \in Seq(R)
      /\ Balanced(m, ResultsUpto(results, n), R)
      /\ NamedIn(m.failures) = NotPassed(results, n)
  BY <1>2, ComputeBalances
<1>5. L \in Seq(R) /\ Balanced(m, L, R) /\ named = NotPassed(results, n)
  BY <1>3, <1>4 DEF NamedIn
<1> HIDE DEF m, L, n, named
<1>6. \A c \in DOMAIN results : results[c].id \in named <=> ~Passed(results[c])
  BY <1>1, <1>5 DEF NotPassed, DistinctIds
<1>7. report.casesPassed = Len(results) - Cardinality(named)
  <2> DEFINE good == {i \in DOMAIN results : Passed(results[i])}
             bad == {i \in 1 .. n : ~Passed(results[i])}
             ids == [i \in 1 .. n |-> results[i].id]
  <2>1. bad \in SUBSET (1 .. n) /\ good = (1 .. n) \ bad /\ (1 .. n) \intersect bad = bad
    BY <1>1
  <2>2. \A i, j \in 1 .. n : i # j => ids[i] # ids[j]
    BY <1>1 DEF DistinctIds
  <2>3. named = NamedBy(ids, bad)
    BY <1>5 DEF NotPassed, NamedBy
  <2> HIDE DEF good, bad, ids
  <2>4. Cardinality(NamedBy(ids, bad)) = Cardinality(bad)
    <3>1. n \in Nat /\ bad \in SUBSET (1 .. n)
      BY <1>1, <2>1
    <3> QED BY <2>2, <3>1, AsManyNames, SMT
  <2>5. IsFiniteSet(1 .. n) /\ Cardinality(1 .. n) = n
    BY <1>1, FS_Interval
  <2>6. Cardinality((1 .. n) \ bad) = Cardinality(1 .. n) - Cardinality((1 .. n) \intersect bad)
    BY <2>5, FS_Difference
  <2>7. Cardinality(good) = n - Cardinality(named)
    BY <2>1, <2>3, <2>4, <2>5, <2>6
  <2> QED BY <2>7 DEF good, n
<1>8. /\ \A pair \in Pairs : m.confusion[pair] = NumberIn(L, OfCell(R, pair))
      /\ SumFunction(m.confusion) = NumberIn(L, OfScored(R))
      /\ m.overall.tp + m.overall.fn = NumberIn(L, OfExpected(R))
      /\ m.overall.tp + m.overall.fp = NumberIn(L, OfActual(R))
      /\ m.overall.tp + m.overall.fp + m.overall.fn + m.overall.tn = NumberIn(L, OfScored(R))
  BY <1>5 DEF Balanced, OverallBalances, AllOf
<1>9. /\ \A i \in DOMAIN m.perPattern :
            /\ m.perPattern[i].runs = NumberIn(L, Own(R, m.perPattern[i].key))
            /\ m.perPattern[i].runs > 0
            /\ m.perPattern[i].passed = NumberIn(L, OwnReached(R, m.perPattern[i].key))
            /\ SumFunction(m.perPattern[i].confusion) = NumberIn(L, OwnScored(R, m.perPattern[i].key))
      /\ \A pair \in Pairs :
            SumFunction([i \in DOMAIN m.perPattern |-> m.perPattern[i].confusion[pair]])
                = NumberIn(L, OfCell(R, pair))
  <2>1. PatternsBalance(m.perPattern, L, R)
    BY <1>5 DEF Balanced
  <2>2. \A i \in DOMAIN m.perPattern :
            m.perPattern[i].runs > 0 /\ OwnFigures(m.perPattern[i], L, R)
    BY <2>1 DEF PatternsBalance
  <2>3. \A pair \in Pairs : SumFunction(Column(m.perPattern, pair)) = NumberIn(L, OfCell(R, pair))
    BY <2>1 DEF PatternsBalance
  <2>4. \A pair \in Pairs :
            SumFunction([i \in DOMAIN m.perPattern |-> m.perPattern[i].confusion[pair]])
                = NumberIn(L, OfCell(R, pair))
    BY <2>3, Zenon DEF Column
  <2> QED BY <2>2, <2>4 DEF OwnFigures
<1>10. SumFunction([i \in DOMAIN m.perFamily |-> m.perFamily[i].runs]) = NumberIn(L, OfFamilies(R))
  <2>1. FamiliesBalance(m.perFamily, L, R)
    BY <1>5 DEF Balanced
  <2> QED BY <2>1, Zenon DEF FamiliesBalance, Runs
<1>11. /\ \A pair \in Pairs :
                Count(LAMBDA r : <<r.expected, r.actual>> = pair) = NumberIn(L, OfCell(R, pair))
       /\ Count(LAMBDA r : r.expected = "Grounded") = NumberIn(L, OfExpected(R))
       /\ Count(LAMBDA r : Scored(r) /\ r.actual = "Grounded") = NumberIn(L, OfActual(R))
       /\ Count(LAMBDA r : Scored(r) /\ r.count > 0) = NumberIn(L, OfFamilies(R))
       /\ \A key :
                /\ Count(LAMBDA r : r.id = key) = NumberIn(L, Own(R, key))
                /\ Count(LAMBDA r : r.id = key /\ Reached(r)) = NumberIn(L, OwnReached(R, key))
                /\ Count(LAMBDA r : r.id = key /\ Scored(r)) = NumberIn(L, OwnScored(R, key))
  BY <1>5, CountsAre DEF L
<1>12. \A pair \in Outcomes \X Outcomes :
            /\ m.confusion[pair] = Count(LAMBDA r : <<r.expected, r.actual>> = pair)
            /\ m.confusion[pair] = SumFunction(
                    [i \in DOMAIN m.perPattern |-> m.perPattern[i].confusion[pair]])
  BY <1>8, <1>9, <1>11, Zenon DEF Pairs
<1>13. /\ m.overall.tp + m.overall.fn = Count(LAMBDA r : r.expected = "Grounded")
       /\ m.overall.tp + m.overall.fp = Count(LAMBDA r : Scored(r) /\ r.actual = "Grounded")
       /\ m.overall.tp + m.overall.fp + m.overall.fn + m.overall.tn = SumFunction(m.confusion)
       /\ SumFunction([i \in DOMAIN m.perFamily |-> m.perFamily[i].runs]) =
                Count(LAMBDA r : Scored(r) /\ r.count > 0)
  BY <1>8, <1>10, <1>11, Zenon
<1>14. \A i \in DOMAIN m.perPattern :
            /\ m.perPattern[i].runs = Count(LAMBDA r : r.id = m.perPattern[i].key)
            /\ m.perPattern[i].runs > 0
            /\ m.perPattern[i].passed = Count(LAMBDA r : r.id = m.perPattern[i].key /\ Reached(r))
            /\ SumFunction(m.perPattern[i].confusion) =
                    Count(LAMBDA r : r.id = m.perPattern[i].key /\ Scored(r))
  BY <1>9, <1>11, Zenon
<1> QED BY <1>6, <1>7, <1>12, <1>13, <1>14, Zenon DEF FiguresBalance, m, named

-----------------------------------------------------------------------------
(* What a run leaves for its report.                                        *)

Expectations(cs) ==
    IsList(cs.expected) /\ \A k \in DOMAIN cs.expected : cs.expected[k].outcome \in Outcomes

(* The ids of the cases that have ended are those of the suite. *)
NamesOfCases ==
    \A c \in 1 .. Len(results) : c \in DOMAIN suite /\ results[c].id = suite[c].id

FiguresInv ==
    /\ CasesWellFormed(results) /\ NamesOfCases
    /\ \A k \in DOMAIN current.results : WellFormed(current.results[k])
    /\ phase = "done" =>
            /\ report.metrics = Compute(results)
            /\ report.casesPassed = Cardinality({i \in DOMAIN results : Passed(results[i])})

(* A case of the suite expects what its file says. *)
LEMMA ExpectationsAre ==
    ASSUME LoadInv, phase # "refused", NEW c \in 1 .. Len(suite)
    PROVE  Expectations(suite[c])
<1>1. PICK i \in 1 .. loaded : JsonAt(i) /\ Place(i) = c
  BY DEF LoadInv, InLoad
<1>2. Loads(directory[i].definition) /\ suite[c] = Case(directory[i].definition)
  BY <1>1 DEF LoadInv, InLoad
<1>3. i \in DOMAIN directory /\ directory[i].definition # Nothing
  BY <1>1, <1>2 DEF JsonAt, Loads
<1>4. /\ IsList(directory[i].definition.expected)
      /\ \A k \in DOMAIN directory[i].definition.expected :
                directory[i].definition.expected[k].outcome \in Outcomes
  BY <1>3 DEF LoadInv, Listing
<1>5. suite[c].expected = directory[i].definition.expected
  BY <1>2 DEF Case
<1> QED BY <1>4, <1>5 DEF Expectations

LEMMA ExpectedIs ==
    ASSUME NEW cs, Expectations(cs), NEW id
    PROVE  ExpectedFor(cs.expected, id) \in Outcomes \union {Nothing}
<1> DEFINE fitting == {i \in DOMAIN cs.expected : cs.expected[i].id = id}
<1>1. CASE fitting = {}
  BY <1>1 DEF ExpectedFor
<1>2. CASE fitting # {}
  <2>1. fitting \in SUBSET Nat /\ fitting \in SUBSET DOMAIN cs.expected
    BY Lists DEF Expectations
  <2>2. ExpectedFor(cs.expected, id) = cs.expected[Min(fitting)].outcome
    BY <1>2 DEF ExpectedFor
  <2> HIDE DEF fitting
  <2>3. PICK x \in fitting : \A y \in fitting : x <= y
    BY <1>2, <2>1, MinExists
  <2>4. Min(fitting) \in fitting
    BY <2>3 DEF Min
  <2> QED BY <2>1, <2>2, <2>4 DEF Expectations
<1> QED BY <1>1, <1>2

(* What run_case makes of a pattern that did not fail. *)
LEMMA ResultWellFormed ==
    ASSUME NEW pattern, NEW statuses \in Seq(GroundingStatuses), Expectations(Now)
    PROVE  WellFormed(Result(pattern, statuses))
<1> DEFINE r == Result(pattern, statuses)
           S == {statuses[k] : k \in DOMAIN statuses}
<1>1. /\ r.count = Len(statuses) /\ r.statuses = statuses
      /\ r.expected = ExpectedFor(Now.expected, pattern.id)
  BY DEF Result
<1>2. r.actual = VerdictOver(S)
  BY OutcomeIsVerdict
<1>3. S \in SUBSET GroundingStatuses
  OBVIOUS
<1> HIDE DEF r, S
<1>4. r.actual \in Outcomes
  BY <1>2, <1>3, VerdictIs DEF Outcomes
<1>5. r.expected \in Outcomes \union {Nothing}
  BY <1>1, ExpectedIs
<1>6. r.count \in Nat /\ (r.statuses = <<>> <=> r.count = 0)
  BY <1>1
<1> QED BY <1>4, <1>5, <1>6 DEF WellFormed, r

(* A case that ends is one more well-formed result, of its own id. *)
LEMMA OneMoreCase ==
    ASSUME IsList(results), CasesWellFormed(results), NamesOfCases, suite' = suite,
           Len(results) + 1 \in DOMAIN suite,
           NEW case, IsList(case.results), \A k \in DOMAIN case.results : WellFormed(case.results[k]),
           case.id = Now.id, results' = Append(results, case)
    PROVE  CasesWellFormed(results') /\ NamesOfCases'
<1> DEFINE n == Len(results)
<1>1. /\ n \in Nat /\ IsList(results') /\ Len(results') = n + 1 /\ DOMAIN results' = 1 .. n + 1
      /\ \A c \in 1 .. n : results'[c] = results[c]
      /\ results'[n + 1] = case
  <2>1. /\ n \in Nat /\ IsList(results') /\ Len(results') = n + 1
        /\ \A c \in 1 .. n : results'[c] = results[c]
        /\ results'[n + 1] = case
    BY Lists
  <2> QED BY <2>1, Lists
<1>2. Now.id = suite[n + 1].id
  BY DEF Now
<1>3. \A c \in 1 .. n + 1 : c \in 1 .. n \/ c = n + 1
  BY <1>1
<1>4. \A c \in 1 .. n : IsList(results[c].results)
            /\ \A k \in DOMAIN results[c].results : WellFormed(results[c].results[k])
  BY DEF CasesWellFormed
<1>5. \A c \in 1 .. n : c \in DOMAIN suite /\ results[c].id = suite[c].id
  BY DEF NamesOfCases
<1> HIDE DEF n
<1>6. CasesWellFormed(results')
  BY <1>1, <1>3, <1>4 DEF CasesWellFormed
<1>7. NamesOfCases'
  BY <1>1, <1>2, <1>3, <1>5 DEF NamesOfCases, n
<1> QED BY <1>6, <1>7

LEMMA FiguresInductive ==
    ASSUME LoadInv, RunInv, FiguresInv, [SuiteNext]_suiteVars
    PROVE  FiguresInv'
<1>1. CASE LoadCase \/ Validate
  <2>1. phase = "load" /\ phase' # "done" /\ UNCHANGED <<results, current>>
    BY <1>1 DEF LoadCase, Validate, running
  <2>2. Len(results) = 0
    BY <2>1 DEF RunInv
  <2>3. NamesOfCases'
    BY <2>1, <2>2 DEF NamesOfCases
  <2> QED BY <2>1, <2>3 DEF FiguresInv
<1>2. ASSUME phase = "run", Len(results) < Len(suite)
      PROVE  Len(results) + 1 \in DOMAIN suite /\ Expectations(Now)
  <2>1. IsList(suite) /\ IsList(results)
    BY <1>2 DEF LoadInv, InLoad, RunInv
  <2>2. Len(results) + 1 \in 1 .. Len(suite) /\ DOMAIN suite = 1 .. Len(suite)
    BY <1>2, <2>1, Lists
  <2> QED BY <1>2, <2>2, ExpectationsAre DEF Now
<1>3. CASE Ingest
  <2>1. phase = "run" /\ Len(results) < Len(suite) /\ UNCHANGED <<suite, phase, current>>
    BY <1>3 DEF Ingest, InCase
  <2>2. CASE UNCHANGED results
    BY <2>1, <2>2 DEF FiguresInv, NamesOfCases
  <2>3. CASE results' = Append(results, [id |-> Now.id, results |-> <<>>, errors |-> 1])
    <3> DEFINE case == [id |-> Now.id, results |-> <<>>, errors |-> 1]
    <3>1. IsList(<<>>) /\ DOMAIN <<>> = {}
      <4>1. <<>> \in Seq(ToSet(<<>>))
        OBVIOUS
      <4> QED BY <4>1 DEF IsList
    <3>2. case.results = <<>> /\ case.id = Now.id
      OBVIOUS
    <3>3. results' = Append(results, case)
      BY <2>3
    <3> HIDE DEF case
    <3>4. IsList(results) /\ CasesWellFormed(results) /\ NamesOfCases
          /\ Len(results) + 1 \in DOMAIN suite /\ suite' = suite
      BY <1>2, <2>1 DEF RunInv, FiguresInv
    <3>5. CasesWellFormed(results') /\ NamesOfCases'
      BY <3>1, <3>2, <3>3, <3>4, OneMoreCase
    <3> QED BY <2>1, <3>5 DEF FiguresInv
  <2> QED BY <1>3, <2>2, <2>3 DEF Ingest
<1>4. ASSUME phase = "run", UNCHANGED <<suite, phase, results>>,
             \A k \in DOMAIN current'.results : WellFormed(current'.results[k])
      PROVE  FiguresInv'
  BY <1>4 DEF FiguresInv, NamesOfCases
<1>5. ASSUME phase = "run", stage # "ingest", UNCHANGED <<suite, phase, results>>,
             current' = [current EXCEPT !.errors = @ + 1]
      PROVE  FiguresInv'
  <2>1. current = [results |-> current.results, errors |-> current.errors]
    BY <1>5 DEF RunInv, CaseUnderWay
  <2>2. current'.results = current.results
    BY <1>5, <2>1
  <2>3. \A k \in DOMAIN current'.results : WellFormed(current'.results[k])
    BY <2>2 DEF FiguresInv
  <2> QED BY <1>4, <1>5, <2>3
<1>6. ASSUME phase = "run", stage # "ingest", Len(results) < Len(suite),
             UNCHANGED <<suite, phase, results>>,
             NEW statuses \in Seq(GroundingStatuses),
             current' = [current EXCEPT !.results = Append(@, Result(Pattern, statuses))]
      PROVE  FiguresInv'
  <2> DEFINE r == Result(Pattern, statuses)
             list == current.results
  <2>1. WellFormed(r)
    BY <1>2, <1>6, ResultWellFormed
  <2>2. current = [results |-> list, errors |-> current.errors] /\ IsList(list)
    BY <1>6 DEF RunInv, CaseUnderWay, Reporting
  <2>3. current' = [current EXCEPT !.results = Append(list, r)]
    BY <1>6
  <2> HIDE DEF r
  <2>4. current'.results = Append(list, r)
    BY <2>2, <2>3
  <2>5. \A k \in DOMAIN list : WellFormed(list[k])
    BY DEF FiguresInv
  <2> HIDE DEF list
  <2>6. \A k \in DOMAIN Append(list, r) : WellFormed(Append(list, r)[k])
    <3>1. /\ Len(list) \in Nat /\ DOMAIN list = 1 .. Len(list)
          /\ \A i \in 1 .. Len(list) : Append(list, r)[i] = list[i]
          /\ Append(list, r)[Len(list) + 1] = r
          /\ DOMAIN Append(list, r) = 1 .. Len(list) + 1
      BY <2>2, Lists
    <3>2. \A i \in 1 .. Len(list) + 1 : i \in 1 .. Len(list) \/ i = Len(list) + 1
      BY <3>1
    <3> QED BY <2>1, <2>5, <3>1, <3>2
  <2> QED BY <1>4, <1>6, <2>4, <2>6
<1>7. CASE Match
  <2>1. phase = "run" /\ stage # "ingest" /\ Len(results) < Len(suite)
        /\ UNCHANGED <<suite, phase, results>>
    BY <1>7 DEF Match, InCase
  <2>2. CASE current' = [current EXCEPT !.errors = @ + 1]
    BY <1>5, <2>1, <2>2
  <2>3. CASE current' = [current EXCEPT !.results = Append(@, Result(Pattern, <<>>))]
    <3>1. <<>> \in Seq(GroundingStatuses)
      OBVIOUS
    <3> QED BY <1>6, <2>1, <2>3, <3>1
  <2>4. CASE UNCHANGED current
    BY <1>4, <2>1, <2>4 DEF FiguresInv
  <2> QED BY <1>7, <2>2, <2>3, <2>4 DEF Match
<1>8. CASE Ground
  <2>1. phase = "run" /\ stage = "ground" /\ Len(results) < Len(suite)
        /\ UNCHANGED <<suite, phase, results>>
    BY <1>8 DEF Ground, InCase
  <2>2. CASE current' = [current EXCEPT !.errors = @ + 1]
    BY <1>5, <2>1, <2>2
  <2>3. ASSUME NEW statuses \in [1 .. candidates -> GroundingStatuses],
               current' = [current EXCEPT !.results = Append(@, Result(Pattern, statuses))]
        PROVE  FiguresInv'
    <3>1. candidates \in Nat
      BY <2>1 DEF RunInv, CaseUnderWay
    <3>2. statuses \in Seq(GroundingStatuses)
      BY <3>1
    <3> QED BY <1>6, <2>1, <2>3, <3>2
  <2> QED BY <1>8, <2>2, <2>3 DEF Ground
<1>9. CASE EndCase
  <2> DEFINE case == [id |-> Now.id, results |-> current.results, errors |-> current.errors]
  <2>1. phase = "run" /\ stage = "match" /\ Len(results) < Len(suite) /\ UNCHANGED <<suite, phase>>
        /\ results' = Append(results, case) /\ current' = EmptyCase
    BY <1>9 DEF EndCase, InCase
  <2>2. case.results = current.results /\ case.id = Now.id
    OBVIOUS
  <2> HIDE DEF case
  <2>3. IsList(case.results) /\ \A k \in DOMAIN case.results : WellFormed(case.results[k])
    BY <2>1, <2>2 DEF RunInv, CaseUnderWay, Reporting, FiguresInv
  <2>4. IsList(results) /\ CasesWellFormed(results) /\ NamesOfCases
        /\ Len(results) + 1 \in DOMAIN suite /\ suite' = suite
    BY <1>2, <2>1 DEF RunInv, FiguresInv
  <2>5. CasesWellFormed(results') /\ NamesOfCases'
    BY <2>1, <2>2, <2>3, <2>4, OneMoreCase
  <2>6. \A k \in DOMAIN current'.results : WellFormed(current'.results[k])
    BY <2>1 DEF EmptyCase
  <2> QED BY <2>1, <2>5, <2>6 DEF FiguresInv
<1>10. CASE BuildReport
  <2>1. UNCHANGED <<suite, results, current>>
        /\ report' = [metrics |-> Compute(results),
                      casesRun |-> Len(results),
                      casesErrored |-> Cardinality({i \in DOMAIN results : results[i].errors > 0}),
                      casesPassed |-> Cardinality({i \in DOMAIN results : Passed(results[i])})]
    BY <1>10 DEF BuildReport
  <2>2. /\ report'.metrics = Compute(results)
        /\ report'.casesPassed = Cardinality({i \in DOMAIN results : Passed(results[i])})
    BY <2>1
  <2>3. Compute(results') = Compute(results)
        /\ Cardinality({i \in DOMAIN results' : Passed(results'[i])})
                = Cardinality({i \in DOMAIN results : Passed(results[i])})
    BY <2>1
  <2>4. CasesWellFormed(results') /\ NamesOfCases'
        /\ \A k \in DOMAIN current'.results : WellFormed(current'.results[k])
    BY <2>1 DEF FiguresInv, NamesOfCases
  <2> QED BY <2>2, <2>3, <2>4 DEF FiguresInv
<1>11. CASE UNCHANGED suiteVars
  <2>1. UNCHANGED <<suite, phase, results, current, report>>
    BY <1>11 DEF suiteVars
  <2> QED BY <2>1 DEF FiguresInv, NamesOfCases
<1> QED BY <1>1, <1>3, <1>7, <1>8, <1>9, <1>10, <1>11 DEF SuiteNext

LEMMA FiguresInvMeans == ASSUME LoadInv, FiguresInv PROVE FiguresBalance
<1>1. CASE phase # "done"
  BY <1>1 DEF FiguresBalance
<1>2. CASE phase = "done"
  <2>1. DistinctIds(suite)
    BY <1>2 DEF LoadInv
  <2>2. DistinctIds(results)
    BY <2>1 DEF DistinctIds, FiguresInv, NamesOfCases, CasesWellFormed
  <2> QED BY <1>2, <2>2, FiguresFollow DEF FiguresInv
<1> QED BY <1>1, <1>2

(* The figures of a report agree with one another and with the results, and the
   failures it lists are those of the cases that did not pass, for any suite and
   any answers of the pipeline. *)
THEOREM FiguresAddUp == SuiteSpec => []FiguresBalance
<1> DEFINE Inv == LoadInv /\ RunInv /\ FiguresInv
<1>1. SuiteInit => Inv
  <2> SUFFICES ASSUME SuiteInit PROVE Inv
    OBVIOUS
  <2>1. /\ phase = "load" /\ results = <<>> /\ current = EmptyCase
    BY DEF SuiteInit
  <2>2. FiguresInv
    BY <2>1 DEF FiguresInv, CasesWellFormed, NamesOfCases, EmptyCase
  <2> QED BY <2>2, LoadInit, RunInit
<1>2. Inv /\ [SuiteNext]_suiteVars => Inv'
  BY LoadInductive, RunInductive, FiguresInductive
<1>3. Inv => FiguresBalance
  BY FiguresInvMeans
<1> QED BY <1>1, <1>2, <1>3, PTL DEF SuiteSpec
=============================================================================
