----------------------------- MODULE Compilation -----------------------------
(***************************************************************************)
(* From a syntax tree to a compiled pattern: the predicate schema          *)
(* (crates/dsl/src/schema.rs), validation (validate.rs) and compilation    *)
(* (compile.rs).  Validation walks all of the tree and collects; only an   *)
(* error, not a warning, keeps the pattern from being compiled.            *)
(*                                                                         *)
(* The tree is the one of module Parser, with the values of its numbers in *)
(* place of their texts and its constraint as a sequence of nodes, each    *)
(* after its items, like the compiled one of module Patterns.              *)
(***************************************************************************)
EXTENDS Patterns

CONSTANTS
    Trees,     \* the parsed patterns under consideration
    MaxU32,    \* u32::MAX
    NoPattern  \* nothing compiled

ASSUME MaxAssumption == MaxU32 \in Nat

(* What the parser makes: the value of an identifier is its one word; a section
   is there once or not at all; a constraint has a node, and its nodes' items
   come before them, one item below a NOT. *)
Entries == [key : STRING, value : [shape : STRING, items : Seq(STRING)]]
Attributes == [name : STRING, value : [shape : STRING, text : STRING]]
Declarations == [requiredness : {"required", "optional"}, name : STRING,
                predicate : [kind : STRING, attributes : Seq(Attributes)]]
TreeNodes == [op : {"REF", "AND", "OR", "NOT"}, name : STRING, items : Seq(Nat)]
Sections == [items : Seq(STRING), within : Seq(Int)]
SyntaxTrees == [id : STRING, version : Int, metadata : Seq(Entries), evidence : Seq(Declarations),
         constraint : Seq(Seq(TreeNodes)), sequence : Seq(Sections), same_call : Seq(Sections)]
ChildrenFirst(nodes) ==
    /\ nodes # <<>>
    /\ \A n \in 1 .. Len(nodes) :
        /\ \A i \in 1 .. Len(nodes[n].items) : nodes[n].items[i] \in 1 .. n - 1
        /\ nodes[n].op = "NOT" => Len(nodes[n].items) = 1
WellMade(tree) ==
    /\ tree \in SyntaxTrees
    /\ \A i \in 1 .. Len(tree.metadata) :
        tree.metadata[i].value.shape = "Ident" => Len(tree.metadata[i].value.items) = 1
    /\ Len(tree.constraint) <= 1 /\ Len(tree.sequence) <= 1 /\ Len(tree.same_call) <= 1
    /\ \A i \in 1 .. Len(tree.constraint) : ChildrenFirst(tree.constraint[i])

ASSUME TreesAssumption == \A tree \in Trees : WellMade(tree)

VARIABLES
    ast,          \* the parsed pattern
    stage,        \* of validate() and compile()
    diagnostics,  \* collected so far
    compiled      \* what compile() returns, if it does

vars == <<ast, stage, diagnostics, compiled>>

(*---------------------------- schema.rs -----------------------------------*)
CallKinds == {"External", "Internal", "Delegate", "StaticCall", "Create", "SelfDestruct"}
Directions == {"In", "Out"}
Severities == {"Low", "Medium", "High", "Critical"}

Attr(shape) == [shape |-> shape, values |-> {}, required |-> FALSE]
Enum(values) == [shape |-> "Ident", values |-> values, required |-> FALSE]
Needed(attr) == [attr EXCEPT !.required = TRUE]

Schema ==
    [ call |->
        [ kind |-> Needed(Enum(CallKinds)), reentrant |-> Attr("Bool"),
          value_flow |-> Enum(Directions), min_value |-> Attr("Int"),
          selector |-> Attr("Str"), succeeded |-> Attr("Bool"),
          parent_kind |-> Enum(CallKinds), ancestor_kind |-> Enum(CallKinds) ],
      storage |->
        [ changed |-> Needed(Attr("Bool")), slot |-> Attr("Str"),
          role |-> Enum({"PriceOracle", "Balance", "Accounting", "AccessControl"}),
          call_kind |-> Enum(CallKinds) ],
      value_flow |->
        [ direction |-> Needed(Enum(Directions)), min |-> Attr("Int"), max |-> Attr("Int") ],
      token_transfer |->
        [ direction |-> Needed(Enum(Directions)), unexpected |-> Attr("Bool"),
          token |-> Attr("Str") ],
      transaction |->
        [ status |-> Needed(Enum({"Success", "Reverted"})), gas_used_min |-> Attr("Int") ],
      log |-> [ topic0 |-> Needed(Attr("Str")), decoded |-> Attr("Bool") ] ]

(*---------------------------- validate.rs ---------------------------------*)
Diag(severity, about, name) == << [severity |-> severity, about |-> about, name |-> name] >>
Err(about, name) == Diag("error", about, name)
Warn(about, name) == Diag("warning", about, name)
When(condition, diags) == IF condition THEN diags ELSE <<>>

(* The diagnostics of a list's elements, one after another. *)
ForEach(list, Check(_)) == FlattenSeq([i \in DOMAIN list |-> Check(i)])
Repeats(names, i) == \E j \in 1 .. i - 1 : names[j] = names[i]

Keys == [i \in DOMAIN ast.metadata |-> ast.metadata[i].key]
EvidenceNames == [i \in DOMAIN ast.evidence |-> ast.evidence[i].name]
AttributeNames(predicate) ==
    [i \in DOMAIN predicate.attributes |-> predicate.attributes[i].name]

(* validate_metadata_entry, validate_severity_value. *)
EntryDiagnostics(key, value) ==
    CASE key = "family" -> When(value.shape # "Ident", Err("value", key))
      [] key = "severity" ->
            When(value.shape # "Ident" \/ value.items[1] \notin Severities, Err("value", key))
      [] key \in {"tags", "references"} -> When(value.shape # "StrList", Err("value", key))
      [] OTHER -> Warn("unknown key", key)

(* A mutant of MetadataDiagnostics: a pattern without a severity passes. *)
MetadataDiagnosticsLax ==
    When(ast.version < 1, Err("version", ""))
        \o ForEach(Keys, LAMBDA i :
            IF Repeats(Keys, i) THEN Err("repeated", Keys[i])
            ELSE EntryDiagnostics(Keys[i], ast.metadata[i].value))
        \o When("family" \notin Elements(Keys), Err("missing", "family"))

MetadataDiagnostics ==
    When(ast.version < 1, Err("version", ""))
        \o ForEach(Keys, LAMBDA i :
            IF Repeats(Keys, i) THEN Err("repeated", Keys[i])
            ELSE EntryDiagnostics(Keys[i], ast.metadata[i].value))
        \o When("family" \notin Elements(Keys), Err("missing", "family"))
        \o When("severity" \notin Elements(Keys), Err("missing", "severity"))

(* validate_predicate_attrs: a repeated attribute is not looked at further. *)
AttributeDiagnostics(schema, names, value, i) ==
    CASE Repeats(names, i) -> Err("repeated attribute", names[i])
      [] ~Repeats(names, i) /\ names[i] \notin DOMAIN schema -> Err("unknown attribute", names[i])
      [] OTHER ->
            When(\/ value.shape # schema[names[i]].shape
                 \/ value.shape = "Ident" /\ value.text \notin schema[names[i]].values,
                 Err("attribute value", names[i]))

(* validate_predicate_incompatibilities. *)
Gives(predicate, name, shape, text) ==
    \E i \in DOMAIN predicate.attributes :
        predicate.attributes[i] = [name |-> name, value |-> [shape |-> shape, text |-> text]]
Incompatible(predicate) ==
    /\ predicate.kind = "call"
    /\ Gives(predicate, "kind", "Ident", "StaticCall")
    /\ Gives(predicate, "reentrant", "Bool", "true")

(* validate_predicate. *)
MissingAttributes(predicate) ==
    {name \in DOMAIN Schema[predicate.kind] :
        /\ Schema[predicate.kind][name].required
        /\ name \notin Elements(AttributeNames(predicate))}
PredicateDiagnostics(predicate) ==
    IF predicate.kind \notin DOMAIN Schema THEN Err("unknown kind", predicate.kind)
    ELSE LET names == AttributeNames(predicate)
         IN  ForEach(names, LAMBDA i :
                AttributeDiagnostics(Schema[predicate.kind], names,
                                     predicate.attributes[i].value, i))
             \o When(MissingAttributes(predicate) # {}, Err("missing attribute", predicate.kind))
             \o When(Incompatible(predicate), Err("incompatible", predicate.kind))

RequiredNames == {d.name : d \in {e \in Elements(ast.evidence) : e.requiredness = "required"}}

EvidenceDiagnostics ==
    ForEach(ast.evidence, LAMBDA i :
            When(Repeats(EvidenceNames, i), Err("repeated evidence", EvidenceNames[i]))
                \o PredicateDiagnostics(ast.evidence[i].predicate))
        \o When(ast.evidence = <<>>, Err("no evidence", ""))
        \o When(ast.evidence # <<>> /\ RequiredNames = {}, Err("only optional", ""))

(* check_bool_expr: the leaves in the order the walk meets them. *)
Refs(nodes) == ForEach(nodes, LAMBDA n : When(nodes[n].op = "REF", <<nodes[n].name>>))

Undeclared(names, about) ==
    ForEach(names, LAMBDA i :
        When(names[i] \notin Elements(EvidenceNames), Err(about, names[i])))

ConstraintDiagnostics ==
    IF ast.constraint = <<>> THEN <<>>
    ELSE Undeclared(Refs(ast.constraint[1]), "reference")
         \o ForEach(ast.evidence, LAMBDA i :
                When(/\ ast.evidence[i].requiredness = "required"
                     /\ EvidenceNames[i] \notin Elements(Refs(ast.constraint[1])),
                     Warn("not load-bearing", EvidenceNames[i])))

(* validate_sequence and validate_same_call. *)
GroupDiagnostics(section, about) ==
    IF section = <<>> THEN <<>>
    ELSE LET names == section[1].items
         IN  When(Len(names) < 2, Err("too short", about))
             \o ForEach(names, LAMBDA i :
                    When(names[i] \notin Elements(EvidenceNames), Err(about, names[i]))
                        \o When(Repeats(names, i), Err("repeated in " \o about, names[i])))

SequenceDiagnostics ==
    GroupDiagnostics(ast.sequence, "sequence")
        \o When(ast.sequence # <<>> /\ \E w \in Elements(ast.sequence[1].within) : w <= 0,
                Err("window", "sequence"))

SameCallDiagnostics == GroupDiagnostics(ast.same_call, "same_call")

HasErrors == \E i \in DOMAIN diagnostics : diagnostics[i].severity = "error"

Init ==
    /\ ast \in Trees
    /\ stage = "metadata"
    /\ diagnostics = <<>>
    /\ compiled = NoPattern

Validate(this, diags, next) ==
    /\ stage = this
    /\ stage' = next
    /\ diagnostics' = diagnostics \o diags
    /\ UNCHANGED <<ast, compiled>>

ValidateMetadata == Validate("metadata", MetadataDiagnostics, "evidence")
ValidateEvidence == Validate("evidence", EvidenceDiagnostics, "constraint")
ValidateConstraint == Validate("constraint", ConstraintDiagnostics, "sequence")
ValidateSequence == Validate("sequence", SequenceDiagnostics, "same_call")
ValidateSameCall == Validate("same_call", SameCallDiagnostics, "validated")

(*----------------------------- compile.rs ---------------------------------*)
(* A name's place among the declarations: the first of that name. *)
Resolve(name) == SelectInSeq(EvidenceNames, LAMBDA n : n = name)
ResolveAll(names) == [i \in DOMAIN names |-> Resolve(names[i])]

(* compile_bool_expr, implicit_required_and. *)
Compiled(node) ==
    CASE node.op = "REF" -> Evidence(Resolve(node.name))
      [] node.op = "AND" -> And(node.items)
      [] node.op = "OR" -> Or(node.items)
      [] node.op = "NOT" -> Not(node.items[1])

(* Mutant of ImplicitAnd: the optional clauses count too. *)
ImplicitAndOfAll ==
    [i \in DOMAIN ast.evidence |-> Evidence(i)]
        \o << And([i \in DOMAIN ast.evidence |-> i]) >>
ImplicitAnd ==
    LET leaves == ForEach(ast.evidence, LAMBDA i :
                    When(ast.evidence[i].requiredness = "required", <<Evidence(i)>>))
    IN  IF Len(leaves) = 1 THEN leaves
        ELSE Append(leaves, And([i \in DOMAIN leaves |-> i]))

(* The first entry with a key: the parse may have left several. *)
Values(key) == {ast.metadata[i].value : i \in {j \in DOMAIN Keys : Keys[j] = key /\ ~Repeats(Keys, j)}}
Identifier(key) == {v.items[1] : v \in {w \in Values(key) : w.shape = "Ident"}}

(* string_list, dedup_strings. *)
Strings(key) ==
    LET lists == {v.items : v \in {w \in Values(key) : w.shape = "StrList"}}
        list == IF lists = {} THEN <<>> ELSE CHOOSE l \in lists : TRUE
    IN  ForEach(list, LAMBDA i : When(~Repeats(list, i), <<list[i]>>))

Fits(n) == n \in 0 .. MaxU32
Fitting(window) == ForEach(window, LAMBDA i : When(Fits(window[i]), <<window[i]>>))

(* Every expect() of compile(): a name that is not declared, no family, no
   severity, a version outside u32. *)
NamesResolve ==
    \A name \in (IF ast.constraint = <<>> THEN {} ELSE Elements(Refs(ast.constraint[1])))
                \union (IF ast.sequence = <<>> THEN {} ELSE Elements(ast.sequence[1].items))
                \union (IF ast.same_call = <<>> THEN {} ELSE Elements(ast.same_call[1].items)) :
        name \in Elements(EvidenceNames)
Expectations ==
    /\ NamesResolve
    /\ Identifier("family") # {}
    /\ Identifier("severity") \intersect Severities # {}
    /\ Fits(ast.version)

CompiledPattern ==
    [ id |-> ast.id, version |-> ast.version,
      family |-> CHOOSE f \in Identifier("family") : TRUE,
      severity |-> CHOOSE s \in Identifier("severity") : TRUE,
      tags |-> Strings("tags"), references |-> Strings("references"),
      evidence |-> ast.evidence,
      constraint |-> IF ast.constraint = <<>> THEN ImplicitAnd
                     ELSE [i \in DOMAIN ast.constraint[1] |-> Compiled(ast.constraint[1][i])],
      sequence |-> [i \in DOMAIN ast.sequence |->
                        [steps |-> ResolveAll(ast.sequence[i].items),
                         within |-> Fitting(ast.sequence[i].within)]],
      same_call |-> [i \in DOMAIN ast.same_call |-> ResolveAll(ast.same_call[i].items)] ]

Reject ==
    /\ stage = "validated" /\ HasErrors
    /\ stage' = "rejected"
    /\ UNCHANGED <<ast, diagnostics, compiled>>

(* The warnings of a pattern that compiles are dropped. *)
Compile ==
    /\ stage = "validated" /\ ~HasErrors
    /\ \/ Expectations /\ stage' = "compiled" /\ compiled' = CompiledPattern
       \/ ~Expectations /\ stage' = "panicked" /\ UNCHANGED compiled
    /\ UNCHANGED <<ast, diagnostics>>

Returned == stage \in {"compiled", "rejected", "panicked"}
Rest == Returned /\ UNCHANGED vars

Next ==
    \/ ValidateMetadata \/ ValidateEvidence \/ ValidateConstraint
    \/ ValidateSequence \/ ValidateSameCall
    \/ Reject \/ Compile \/ Rest

Spec == Init /\ [][Next]_vars
(*----------------------------- properties ---------------------------------*)
Distinct(list) == \A i, j \in DOMAIN list : list[i] = list[j] => i = j

(* A pattern that means something, said without a walk. *)
LegalEntry(e) ==
    CASE e.key = "family" -> e.value.shape = "Ident"
      [] e.key = "severity" -> e.value \in [shape : {"Ident"}, items : {<<s>> : s \in Severities}]
      [] e.key \in {"tags", "references"} -> e.value.shape = "StrList"
      [] OTHER -> TRUE
LegalAttribute(kind, a) ==
    /\ a.name \in DOMAIN Schema[kind]
    /\ a.value.shape = Schema[kind][a.name].shape
    /\ a.value.shape = "Ident" => a.value.text \in Schema[kind][a.name].values
LegalPredicate(p) ==
    /\ p.kind \in DOMAIN Schema
    /\ Distinct(AttributeNames(p))
    /\ \A a \in Elements(p.attributes) : LegalAttribute(p.kind, a)
    /\ {name \in DOMAIN Schema[p.kind] : Schema[p.kind][name].required}
            \subseteq Elements(AttributeNames(p))
    /\ ~Incompatible(p)
LegalGroup(section) ==
    section # <<>> => /\ Len(section[1].items) >= 2 /\ Distinct(section[1].items)
                      /\ Elements(section[1].items) \subseteq Elements(EvidenceNames)
Legal ==
    /\ ast.version >= 1
    /\ Distinct(Keys) /\ {"family", "severity"} \subseteq Elements(Keys)
    /\ \A e \in Elements(ast.metadata) : LegalEntry(e)
    /\ Distinct(EvidenceNames) /\ RequiredNames # {}
    /\ \A d \in Elements(ast.evidence) : LegalPredicate(d.predicate)
    /\ ast.constraint # <<>> =>
            Elements(Refs(ast.constraint[1])) \subseteq Elements(EvidenceNames)
    /\ LegalGroup(ast.sequence) /\ LegalGroup(ast.same_call)
    /\ ast.sequence # <<>> => \A w \in Elements(ast.sequence[1].within) : w > 0

(* Validation and compilation agree: what has an error is rejected, what has
   none compiles, whatever its warnings, and the one expect() a valid pattern
   can fail is the one over its version.  The module's header calls every
   expect() "unreachable in practice". *)
CompilesExactlyTheLegal ==
    /\ stage = "rejected" => ~Legal
    /\ stage \in {"compiled", "panicked"} => Legal
    /\ stage = "panicked" => ast.version > MaxU32
    /\ stage = "compiled" => Fits(ast.version)

(* The constraint of the tree, over the names of the clauses that hold. *)
Means(nodes, names) ==
    LET value[n \in DOMAIN nodes] ==
            LET items == {value[i] : i \in Elements(nodes[n].items)}
            IN  CASE nodes[n].op = "REF" -> nodes[n].name \in names
                  [] nodes[n].op = "AND" -> FALSE \notin items
                  [] nodes[n].op = "OR" -> TRUE \in items
                  [] nodes[n].op = "NOT" -> FALSE \in items
    IN  value[Len(nodes)]

NamesAt(places) == [i \in DOMAIN places |-> compiled.evidence[places[i]].name]

(* What compiles says what was written: the constraint holds of the same
   clauses, or asks for every required one if none was written; the steps and
   the members are the clauses named; and a list keeps its strings, once each.
   A window above u32::MAX is the exception, and is gone. *)
CompiledMeansTheSame ==
    stage = "compiled" =>
        /\ \A places \in SUBSET DOMAIN compiled.evidence :
            LET names == {compiled.evidence[i].name : i \in places}
            IN  Holds(compiled.constraint, places) =
                    IF ast.constraint = <<>> THEN RequiredNames \subseteq names
                    ELSE Means(ast.constraint[1], names)
        /\ References([constraint |-> compiled.constraint, sequence |-> <<>>,
                       sameCall |-> <<>>]) \subseteq DOMAIN compiled.evidence
        /\ \A i \in DOMAIN ast.sequence :
            /\ NamesAt(compiled.sequence[i].steps) = ast.sequence[i].items
            /\ \A w \in Elements(ast.sequence[i].within) :
                w \in Elements(compiled.sequence[i].within) \/ w > MaxU32
        /\ \A i \in DOMAIN ast.same_call :
            NamesAt(compiled.same_call[i]) = ast.same_call[i].items
        /\ \A e \in Elements(ast.metadata) :
            /\ e.key \in {"tags", "references"} =>
                /\ Distinct(compiled[e.key])
                /\ Elements(compiled[e.key]) = Elements(e.value.items)

(* compile()'s documentation: "Does not panic on any input". *)
NeverPanics == stage # "panicked"
=============================================================================
