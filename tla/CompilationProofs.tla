-------------------------- MODULE CompilationProofs --------------------------
(***************************************************************************)
(* Proofs about module Compilation, for every set of well-made trees.      *)
(*                                                                         *)
(* First, each pass of validate() is exact: the diagnostics it collects    *)
(* have an error exactly when its part of the pattern is illegal.  So the  *)
(* invariant is that what has been collected has an error exactly when a   *)
(* part that has been passed is illegal, and at the end of the passes that *)
(* is: when the pattern is.                                                *)
(*                                                                         *)
(* Then, what compile() makes of a legal pattern says the same.  A tree's  *)
(* nodes come after their items, so that a value of its nodes is defined   *)
(* from below and is unique; the compiled constraint and the written one   *)
(* then agree at every node, since at no first node can they differ.       *)
(***************************************************************************)
EXTENDS Compilation, SequenceProofs, TLAPS

(* The diagnostics there are, and whether a list of them has an error. *)
Abouts ==
    {"value", "unknown key", "version", "repeated", "missing", "repeated attribute",
     "unknown attribute", "attribute value", "unknown kind", "missing attribute",
     "incompatible", "repeated evidence", "no evidence", "only optional", "reference",
     "not load-bearing", "too short", "window", "sequence", "same_call"}
        \union {"repeated in " \o about : about \in {"sequence", "same_call"}}
Names == STRING \union {"", "family", "severity", "sequence", "same_call"}
Diagnostic == [severity : {"error", "warning"}, about : Abouts, name : Names]
ErrorIn(diags) == \E i \in 1 .. Len(diags) : diags[i].severity = "error"

LEMMA TheAbouts ==
    {"value", "unknown key", "version", "repeated", "missing", "repeated attribute",
     "unknown attribute", "attribute value", "unknown kind", "missing attribute",
     "incompatible", "repeated evidence", "no evidence", "only optional", "reference",
     "not load-bearing", "too short", "window", "sequence", "same_call"} \subseteq Abouts
BY Zenon DEF Abouts

LEMMA OneDiagnostic ==
    /\ <<>> \in Seq(Diagnostic) /\ ~ErrorIn(<<>>)
    /\ \A about \in Abouts, name \in Names :
        /\ Err(about, name) \in Seq(Diagnostic) /\ ErrorIn(Err(about, name))
        /\ Warn(about, name) \in Seq(Diagnostic) /\ ~ErrorIn(Warn(about, name))
<1>1. <<>> \in Seq(Diagnostic) /\ ~ErrorIn(<<>>)
  BY DEF ErrorIn
<1>2. ASSUME NEW about \in Abouts, NEW name \in Names, NEW severity \in {"error", "warning"}
      PROVE  /\ Diag(severity, about, name) \in Seq(Diagnostic)
             /\ ErrorIn(Diag(severity, about, name)) <=> severity = "error"
  <2> DEFINE d == [severity |-> severity, about |-> about, name |-> name]
  <2>1. d \in Diagnostic /\ d.severity = severity
    BY DEF Diagnostic
  <2> HIDE DEF d
  <2>2. <<d>> \in Seq(Diagnostic) /\ Len(<<d>>) = 1 /\ <<d>>[1] = d
    BY <2>1
  <2>3. ErrorIn(<<d>>) <=> severity = "error"
    BY <2>1, <2>2 DEF ErrorIn
  <2> QED BY <2>2, <2>3 DEF Diag, d
<1> QED BY <1>1, <1>2 DEF Err, Warn

LEMMA CatErrors ==
    ASSUME NEW a \in Seq(Diagnostic), NEW b \in Seq(Diagnostic)
    PROVE  /\ a \o b \in Seq(Diagnostic)
           /\ ErrorIn(a \o b) <=> ErrorIn(a) \/ ErrorIn(b)
<1>1. /\ a \o b \in Seq(Diagnostic) /\ Len(a \o b) = Len(a) + Len(b)
      /\ Len(a) \in Nat /\ Len(b) \in Nat
      /\ \A i \in 1 .. Len(a) + Len(b) : (a \o b)[i] = IF i <= Len(a) THEN a[i] ELSE b[i - Len(a)]
  BY ConcatProperties
<1> DEFINE c == a \o b
<1> HIDE DEF c
<1>2. ErrorIn(c) => ErrorIn(a) \/ ErrorIn(b)
  <2> SUFFICES ASSUME NEW i \in 1 .. Len(c), c[i].severity = "error" PROVE ErrorIn(a) \/ ErrorIn(b)
    BY DEF ErrorIn
  <2>1. CASE i <= Len(a)
    BY <1>1, <2>1 DEF ErrorIn, c
  <2>2. CASE ~(i <= Len(a))
    <3>1. i - Len(a) \in 1 .. Len(b)
      BY <1>1, <2>2 DEF c
    <3> QED BY <1>1, <2>2, <3>1 DEF ErrorIn, c
  <2> QED BY <2>1, <2>2
<1>3. ErrorIn(a) => ErrorIn(c)
  <2> SUFFICES ASSUME NEW i \in 1 .. Len(a), a[i].severity = "error" PROVE ErrorIn(c)
    BY DEF ErrorIn
  <2>1. i \in 1 .. Len(c) /\ c[i] = a[i]
    BY <1>1 DEF c
  <2> QED BY <2>1 DEF ErrorIn
<1>4. ErrorIn(b) => ErrorIn(c)
  <2> SUFFICES ASSUME NEW i \in 1 .. Len(b), b[i].severity = "error" PROVE ErrorIn(c)
    BY DEF ErrorIn
  <2>1. i + Len(a) \in 1 .. Len(c) /\ c[i + Len(a)] = b[i]
    <3>1. i + Len(a) \in 1 .. Len(a) + Len(b) /\ ~(i + Len(a) <= Len(a)) /\ (i + Len(a)) - Len(a) = i
      BY <1>1
    <3> QED BY <1>1, <3>1 DEF c
  <2> QED BY <2>1 DEF ErrorIn
<1> QED BY <1>1, <1>2, <1>3, <1>4 DEF c

(* The elements of one of the sequences are those of the flattened one, and
   no others. *)
LEMMA FlattenElements ==
    ASSUME NEW X, NEW seqs \in Seq(Seq(X))
    PROVE  /\ FlattenSeq(seqs) \in Seq(X)
           /\ \A k \in 1 .. Len(FlattenSeq(seqs)) : \E i \in 1 .. Len(seqs) :
                \E j \in 1 .. Len(seqs[i]) : FlattenSeq(seqs)[k] = seqs[i][j]
           /\ \A i \in 1 .. Len(seqs) : \A j \in 1 .. Len(seqs[i]) :
                \E k \in 1 .. Len(FlattenSeq(seqs)) : FlattenSeq(seqs)[k] = seqs[i][j]
<1> DEFINE out == FlattenSeq(seqs)
<1>1. out \in Seq(X) /\ \E row, col : ComesFrom(out, row, col, seqs, Len(seqs))
  BY FlattenSeqLists
<1> HIDE DEF out
<1>2. PICK row, col : ComesFrom(out, row, col, seqs, Len(seqs))
  BY <1>1
<1>3. /\ row \in Seq(1 .. Len(seqs)) /\ Len(row) = Len(out)
      /\ \A k \in 1 .. Len(out) :
            col[k] \in 1 .. Len(seqs[row[k]]) /\ out[k] = seqs[row[k]][col[k]]
      /\ \A i \in 1 .. Len(seqs) : \A j \in 1 .. Len(seqs[i]) :
            \E k \in 1 .. Len(out) : row[k] = i /\ col[k] = j
  BY <1>2, Zenon DEF ComesFrom
<1>4. \A k \in 1 .. Len(out) : row[k] \in 1 .. Len(seqs)
  BY <1>3
<1>5. ASSUME NEW i \in 1 .. Len(seqs), NEW j \in 1 .. Len(seqs[i])
      PROVE  \E k \in 1 .. Len(out) : out[k] = seqs[i][j]
  <2>1. PICK k \in 1 .. Len(out) : row[k] = i /\ col[k] = j
    BY <1>3
  <2>2. out[k] = seqs[row[k]][col[k]]
    BY <1>3, Zenon
  <2> QED BY <2>1, <2>2, Zenon
<1>6. ASSUME NEW k \in 1 .. Len(out)
      PROVE  \E i \in 1 .. Len(seqs) : \E j \in 1 .. Len(seqs[i]) : out[k] = seqs[i][j]
  <2>1. row[k] \in 1 .. Len(seqs) /\ col[k] \in 1 .. Len(seqs[row[k]])
    BY <1>3, <1>4, Zenon
  <2>2. out[k] = seqs[row[k]][col[k]]
    BY <1>3, Zenon
  <2> QED BY <2>1, <2>2, Zenon
<1> QED BY <1>1, <1>5, <1>6, Zenon DEF out

LEMMA FlattenErrors ==
    ASSUME NEW seqs \in Seq(Seq(Diagnostic))
    PROVE  /\ FlattenSeq(seqs) \in Seq(Diagnostic)
           /\ ErrorIn(FlattenSeq(seqs)) <=> \E i \in 1 .. Len(seqs) : ErrorIn(seqs[i])
<1> DEFINE out == FlattenSeq(seqs)
<1>1. /\ out \in Seq(Diagnostic)
      /\ \A k \in 1 .. Len(out) : \E i \in 1 .. Len(seqs) :
                \E j \in 1 .. Len(seqs[i]) : out[k] = seqs[i][j]
      /\ \A i \in 1 .. Len(seqs) : \A j \in 1 .. Len(seqs[i]) :
                \E k \in 1 .. Len(out) : out[k] = seqs[i][j]
  BY FlattenElements, Zenon
<1> HIDE DEF out
<1>2. ASSUME ErrorIn(out) PROVE \E i \in 1 .. Len(seqs) : ErrorIn(seqs[i])
  <2>1. PICK k \in 1 .. Len(out) : out[k].severity = "error"
    BY <1>2 DEF ErrorIn
  <2>2. PICK i \in 1 .. Len(seqs) : \E j \in 1 .. Len(seqs[i]) : out[k] = seqs[i][j]
    BY <1>1, Zenon
  <2>4. PICK j \in 1 .. Len(seqs[i]) : out[k] = seqs[i][j]
    BY <2>2
  <2>3. seqs[i][j].severity = "error"
    BY <2>1, <2>4, Zenon
  <2> QED BY <2>3, Zenon DEF ErrorIn
<1>3. ASSUME NEW i \in 1 .. Len(seqs), ErrorIn(seqs[i]) PROVE ErrorIn(out)
  <2>1. PICK j \in 1 .. Len(seqs[i]) : seqs[i][j].severity = "error"
    BY <1>3, Zenon DEF ErrorIn
  <2>2. PICK k \in 1 .. Len(out) : out[k] = seqs[i][j]
    BY <1>1, Zenon
  <2>3. out[k].severity = "error"
    BY <2>1, <2>2, Zenon
  <2> QED BY <2>3, Zenon DEF ErrorIn
<1> QED BY <1>1, <1>2, <1>3 DEF out

(* One list of diagnostics for each place of a list, one after another. *)
LEMMA ForEachErrors ==
    ASSUME NEW n \in Nat, NEW seqs, seqs = [i \in 1 .. n |-> seqs[i]],
           \A i \in 1 .. n : seqs[i] \in Seq(Diagnostic)
    PROVE  /\ FlattenSeq(seqs) \in Seq(Diagnostic)
           /\ ErrorIn(FlattenSeq(seqs)) <=> \E i \in 1 .. n : ErrorIn(seqs[i])
<1>1. seqs \in Seq(Seq(Diagnostic)) /\ Len(seqs) = n
  OBVIOUS
<1> QED BY <1>1, FlattenErrors, Zenon

-----------------------------------------------------------------------------
(* The parts of the tree, with their types.                                 *)

LEMMA TreeParts ==
    ASSUME WellMade(ast)
    PROVE  /\ ast.version \in Int
           /\ ast.metadata \in Seq(Entries) /\ ast.evidence \in Seq(Declarations)
           /\ ast.constraint \in Seq(Seq(TreeNodes))
           /\ ast.sequence \in Seq(Sections) /\ ast.same_call \in Seq(Sections)
BY DEF WellMade, SyntaxTrees

(* A list has a repetition, or all its elements differ. *)
LEMMA DistinctIsNoRepeat ==
    ASSUME NEW n \in Nat, NEW list, list = [i \in 1 .. n |-> list[i]]
    PROVE  Distinct(list) <=> \A i \in 1 .. n : ~Repeats(list, i)
<1>1. DOMAIN list = 1 .. n
  OBVIOUS
<1>2. ASSUME Distinct(list), NEW i \in 1 .. n PROVE ~Repeats(list, i)
  <2>1. \A j \in 1 .. i - 1 : j \in 1 .. n /\ j # i
    OBVIOUS
  <2> QED BY <1>1, <1>2, <2>1, Zenon DEF Distinct, Repeats
<1>3. ASSUME \A i \in 1 .. n : ~Repeats(list, i) PROVE Distinct(list)
  <2>1. ASSUME NEW i \in 1 .. n, NEW j \in 1 .. n, j < i PROVE list[i] # list[j]
    <3>1. j \in 1 .. i - 1
      BY <2>1
    <3> QED BY <1>3, <3>1, Zenon DEF Repeats
  <2>2. \A i, j \in 1 .. n : i = j \/ i < j \/ j < i
    OBVIOUS
  <2> QED BY <1>1, <2>1, <2>2, Zenon DEF Distinct
<1> QED BY <1>2, <1>3, Zenon

-----------------------------------------------------------------------------
(* Each pass of validate() finds an error exactly when its part is illegal. *)

LEMMA EntryExact ==
    ASSUME NEW e \in Entries, e.value.shape = "Ident" => Len(e.value.items) = 1
    PROVE  /\ EntryDiagnostics(e.key, e.value) \in Seq(Diagnostic)
           /\ ErrorIn(EntryDiagnostics(e.key, e.value)) <=> ~LegalEntry(e)
<1>1. e.key \in Names /\ {"value", "unknown key"} \subseteq Abouts
  BY DEF Entries, Names, Abouts
<1>2. /\ <<>> \in Seq(Diagnostic) /\ ~ErrorIn(<<>>)
      /\ Err("value", e.key) \in Seq(Diagnostic) /\ ErrorIn(Err("value", e.key))
      /\ Warn("unknown key", e.key) \in Seq(Diagnostic) /\ ~ErrorIn(Warn("unknown key", e.key))
  BY <1>1, OneDiagnostic
<1>3. CASE e.key = "family"
  BY <1>2, <1>3 DEF EntryDiagnostics, LegalEntry, When
<1>4. CASE e.key = "severity"
  <2>1. e.value \in [shape : {"Ident"}, items : {<<s>> : s \in Severities}]
            <=> e.value.shape = "Ident" /\ e.value.items[1] \in Severities
    <3>1. e.value \in [shape : STRING, items : Seq(STRING)]
      BY DEF Entries
    <3>2. ASSUME e.value.shape = "Ident", e.value.items[1] \in Severities
          PROVE  e.value.items \in {<<s>> : s \in Severities}
      <4>1. e.value.items = <<e.value.items[1]>>
        BY <3>1, <3>2
      <4> QED BY <3>2, <4>1
    <3>3. \A s \in Severities : <<s>>[1] = s
      OBVIOUS
    <3> QED BY <3>1, <3>2, <3>3
  <2> QED BY <1>2, <1>4, <2>1 DEF EntryDiagnostics, LegalEntry, When
<1>5. CASE e.key \in {"tags", "references"}
  BY <1>2, <1>5 DEF EntryDiagnostics, LegalEntry, When
<1>6. CASE e.key \notin {"family", "severity", "tags", "references"}
  BY <1>2, <1>6 DEF EntryDiagnostics, LegalEntry
<1> QED BY <1>3, <1>4, <1>5, <1>6

LegalMetadata ==
    /\ ast.version >= 1
    /\ Distinct(Keys) /\ {"family", "severity"} \subseteq Elements(Keys)
    /\ \A e \in Elements(ast.metadata) : LegalEntry(e)

LEMMA MetadataExact ==
    ASSUME WellMade(ast)
    PROVE  /\ MetadataDiagnostics \in Seq(Diagnostic)
           /\ ErrorIn(MetadataDiagnostics) <=> ~LegalMetadata
<1> DEFINE n == Len(ast.metadata)
           Entry(i) == IF Repeats(Keys, i) THEN Err("repeated", Keys[i])
                       ELSE EntryDiagnostics(Keys[i], ast.metadata[i].value)
           seqs == [i \in 1 .. n |-> Entry(i)]
           version == When(ast.version < 1, Err("version", ""))
           family == When("family" \notin Elements(Keys), Err("missing", "family"))
           severity == When("severity" \notin Elements(Keys), Err("missing", "severity"))
<1>1. /\ ast.version \in Int /\ ast.metadata \in Seq(Entries) /\ n \in Nat
      /\ DOMAIN ast.metadata = 1 .. n
      /\ Keys = [i \in 1 .. n |-> ast.metadata[i].key]
      /\ DOMAIN Keys = 1 .. n /\ \A i \in 1 .. n : Keys[i] = ast.metadata[i].key
      /\ \A i \in 1 .. n : ast.metadata[i] \in Entries /\ Keys[i] \in Names
  <2>1. ast.version \in Int /\ ast.metadata \in Seq(Entries)
    BY TreeParts
  <2>2. n \in Nat /\ DOMAIN ast.metadata = 1 .. n /\ \A i \in 1 .. n : ast.metadata[i] \in Entries
    BY <2>1
  <2>3. Keys = [i \in 1 .. n |-> ast.metadata[i].key]
    BY <2>2 DEF Keys
  <2>4. \A i \in 1 .. n : ast.metadata[i].key \in Names
    BY <2>2 DEF Entries, Names
  <2> QED BY <2>1, <2>2, <2>3, <2>4
<1>2. \A i \in 1 .. n : ast.metadata[i].value.shape = "Ident" => Len(ast.metadata[i].value.items) = 1
  BY DEF WellMade
<1>3. \A i \in 1 .. n :
        /\ EntryDiagnostics(Keys[i], ast.metadata[i].value) \in Seq(Diagnostic)
        /\ ErrorIn(EntryDiagnostics(Keys[i], ast.metadata[i].value)) <=> ~LegalEntry(ast.metadata[i])
  BY <1>1, <1>2, EntryExact
<1>4. /\ "repeated" \in Abouts /\ "version" \in Abouts /\ "missing" \in Abouts
      /\ "" \in Names /\ "family" \in Names /\ "severity" \in Names
  <2>1. "" \in Names /\ "family" \in Names /\ "severity" \in Names
    BY DEF Names
  <2>2. "repeated" \in Abouts /\ "version" \in Abouts /\ "missing" \in Abouts
    BY TheAbouts, Zenon
  <2> QED BY <2>1, <2>2
<1>5. /\ version \in Seq(Diagnostic) /\ (ErrorIn(version) <=> ast.version < 1)
      /\ family \in Seq(Diagnostic) /\ (ErrorIn(family) <=> "family" \notin Elements(Keys))
      /\ severity \in Seq(Diagnostic) /\ (ErrorIn(severity) <=> "severity" \notin Elements(Keys))
  BY <1>4, OneDiagnostic DEF When
<1>6. \A i \in 1 .. n :
        /\ Entry(i) \in Seq(Diagnostic)
        /\ ErrorIn(Entry(i)) <=> Repeats(Keys, i) \/ ~LegalEntry(ast.metadata[i])
  BY <1>1, <1>3, <1>4, OneDiagnostic
<1>7. \A i \in 1 .. n : seqs[i] = Entry(i)
  OBVIOUS
<1>8. ForEach(Keys, Entry) = FlattenSeq(seqs)
  BY <1>1 DEF ForEach
<1>9. MetadataDiagnostics = ((version \o FlattenSeq(seqs)) \o family) \o severity
  BY <1>8 DEF MetadataDiagnostics
<1>10. seqs = [i \in 1 .. n |-> seqs[i]]
  OBVIOUS
<1>11. Distinct(Keys) <=> \A i \in 1 .. n : ~Repeats(Keys, i)
  BY <1>1, DistinctIsNoRepeat
<1>12. Elements(ast.metadata) = {ast.metadata[i] : i \in 1 .. n}
  BY DEF Elements
<1> HIDE DEF Entry, seqs, version, family, severity, n
<1>13. /\ FlattenSeq(seqs) \in Seq(Diagnostic)
       /\ ErrorIn(FlattenSeq(seqs)) <=> \E i \in 1 .. n : ErrorIn(seqs[i])
  BY <1>1, <1>6, <1>7, <1>10, ForEachErrors
<1>14. /\ MetadataDiagnostics \in Seq(Diagnostic)
       /\ ErrorIn(MetadataDiagnostics) <=>
            \/ ErrorIn(version) \/ ErrorIn(FlattenSeq(seqs)) \/ ErrorIn(family) \/ ErrorIn(severity)
  <2>1. /\ version \o FlattenSeq(seqs) \in Seq(Diagnostic)
        /\ ErrorIn(version \o FlattenSeq(seqs)) <=> ErrorIn(version) \/ ErrorIn(FlattenSeq(seqs))
    BY <1>5, <1>13, CatErrors
  <2>2. /\ (version \o FlattenSeq(seqs)) \o family \in Seq(Diagnostic)
        /\ ErrorIn((version \o FlattenSeq(seqs)) \o family) <=>
                ErrorIn(version \o FlattenSeq(seqs)) \/ ErrorIn(family)
    BY <1>5, <2>1, CatErrors
  <2>3. /\ MetadataDiagnostics \in Seq(Diagnostic)
        /\ ErrorIn(MetadataDiagnostics) <=>
                ErrorIn((version \o FlattenSeq(seqs)) \o family) \/ ErrorIn(severity)
    BY <1>5, <1>9, <2>2, CatErrors
  <2> QED BY <2>1, <2>2, <2>3, Zenon
<1>15. ErrorIn(FlattenSeq(seqs))
            <=> ~(Distinct(Keys) /\ \A e \in Elements(ast.metadata) : LegalEntry(e))
  BY <1>6, <1>7, <1>11, <1>12, <1>13
<1>16. ast.version < 1 <=> ~(ast.version >= 1)
  BY <1>1
<1>17. {"family", "severity"} \subseteq Elements(Keys)
            <=> "family" \in Elements(Keys) /\ "severity" \in Elements(Keys)
  OBVIOUS
<1>18. ErrorIn(MetadataDiagnostics) <=> ~LegalMetadata
  BY <1>5, <1>14, <1>15, <1>16, <1>17 DEF LegalMetadata
<1> QED BY <1>14, <1>18

LEMMA PredicateExact ==
    ASSUME NEW p \in [kind : STRING, attributes : Seq(Attributes)]
    PROVE  /\ PredicateDiagnostics(p) \in Seq(Diagnostic)
           /\ ErrorIn(PredicateDiagnostics(p)) <=> ~LegalPredicate(p)
<1> DEFINE n == Len(p.attributes)
           names == AttributeNames(p)
<1>1. /\ p.kind \in Names /\ p.attributes \in Seq(Attributes) /\ n \in Nat
      /\ DOMAIN p.attributes = 1 .. n
      /\ DOMAIN names = 1 .. n /\ names = [i \in 1 .. n |-> names[i]]
      /\ \A i \in 1 .. n : names[i] = p.attributes[i].name /\ names[i] \in Names
  <2>1. /\ p.kind \in Names /\ p.attributes \in Seq(Attributes) /\ n \in Nat
        /\ DOMAIN p.attributes = 1 .. n /\ \A i \in 1 .. n : p.attributes[i] \in Attributes
    <3>1. p.kind \in Names /\ p.attributes \in Seq(Attributes)
      BY DEF Names
    <3>2. \A list \in Seq(Attributes) :
            /\ Len(list) \in Nat /\ DOMAIN list = 1 .. Len(list)
            /\ \A i \in 1 .. Len(list) : list[i] \in Attributes
      OBVIOUS
    <3> QED BY <3>1, <3>2
  <2>2. \A i \in 1 .. n : p.attributes[i].name \in Names
    BY <2>1 DEF Attributes, Names
  <2>3. names = [i \in 1 .. n |-> p.attributes[i].name]
    BY <2>1 DEF AttributeNames
  <2> HIDE DEF n, names
  <2> QED BY <2>1, <2>2, <2>3
<1>2. CASE p.kind \notin DOMAIN Schema
  <2>1. "unknown kind" \in Abouts
    BY TheAbouts, Zenon
  <2> QED BY <1>1, <1>2, <2>1, OneDiagnostic DEF PredicateDiagnostics, LegalPredicate
<1>3. CASE p.kind \in DOMAIN Schema
  <2> DEFINE schema == Schema[p.kind]
             Checked(i) == AttributeDiagnostics(schema, names, p.attributes[i].value, i)
             seqs == [i \in 1 .. n |-> Checked(i)]
             missing == When(MissingAttributes(p) # {}, Err("missing attribute", p.kind))
             incompatible == When(Incompatible(p), Err("incompatible", p.kind))
  <2>1. /\ "missing attribute" \in Abouts /\ "incompatible" \in Abouts
        /\ "repeated attribute" \in Abouts /\ "unknown attribute" \in Abouts
        /\ "attribute value" \in Abouts
    BY TheAbouts, Zenon
  <2>2. ASSUME NEW i \in 1 .. n
        PROVE  /\ Checked(i) \in Seq(Diagnostic)
               /\ ErrorIn(Checked(i)) <=> Repeats(names, i) \/ ~LegalAttribute(p.kind, p.attributes[i])
    <3>1. names[i] = p.attributes[i].name /\ names[i] \in Names
      BY <1>1
    <3>2. CASE Repeats(names, i)
      BY <2>1, <3>1, <3>2, OneDiagnostic DEF AttributeDiagnostics
    <3>3. CASE ~Repeats(names, i) /\ names[i] \notin DOMAIN schema
      <4>1. Checked(i) = Err("unknown attribute", names[i])
        BY <3>3 DEF AttributeDiagnostics
      <4> QED BY <2>1, <3>1, <3>3, <4>1, OneDiagnostic DEF LegalAttribute
    <3>4. CASE ~Repeats(names, i) /\ names[i] \in DOMAIN schema
      <4> DEFINE value == p.attributes[i].value
                 wrong == \/ value.shape # schema[names[i]].shape
                          \/ value.shape = "Ident" /\ value.text \notin schema[names[i]].values
      <4>1. Checked(i) = When(wrong, Err("attribute value", names[i]))
        BY <3>4 DEF AttributeDiagnostics
      <4>2. wrong <=> ~LegalAttribute(p.kind, p.attributes[i])
        BY <3>1, <3>4, Zenon DEF LegalAttribute
      <4> HIDE DEF wrong, Checked
      <4> QED BY <2>1, <3>1, <3>4, <4>1, <4>2, OneDiagnostic DEF When
    <3> QED BY <3>2, <3>3, <3>4
  <2>3. PredicateDiagnostics(p) = (FlattenSeq(seqs) \o missing) \o incompatible
    BY <1>1, <1>3 DEF PredicateDiagnostics, ForEach
  <2>4. \A i \in 1 .. n : seqs[i] = Checked(i)
    OBVIOUS
  <2>5. seqs = [i \in 1 .. n |-> seqs[i]]
    OBVIOUS
  <2>6. /\ missing \in Seq(Diagnostic) /\ (ErrorIn(missing) <=> MissingAttributes(p) # {})
        /\ incompatible \in Seq(Diagnostic) /\ (ErrorIn(incompatible) <=> Incompatible(p))
    BY <1>1, <2>1, OneDiagnostic DEF When
  <2>7. Distinct(names) <=> \A i \in 1 .. n : ~Repeats(names, i)
    BY <1>1, DistinctIsNoRepeat
  <2>8. Elements(p.attributes) = {p.attributes[i] : i \in 1 .. n}
    BY DEF Elements
  <2>9. MissingAttributes(p) = {} <=>
            {name \in DOMAIN Schema[p.kind] : Schema[p.kind][name].required} \subseteq Elements(names)
    BY DEF MissingAttributes
  <2> HIDE DEF schema, Checked, seqs, missing, incompatible, n, names
  <2>10. /\ FlattenSeq(seqs) \in Seq(Diagnostic)
         /\ ErrorIn(FlattenSeq(seqs)) <=> \E i \in 1 .. n : ErrorIn(seqs[i])
    BY <1>1, <2>2, <2>4, <2>5, ForEachErrors
  <2>11. ErrorIn(FlattenSeq(seqs)) <=>
            ~(Distinct(names) /\ \A a \in Elements(p.attributes) : LegalAttribute(p.kind, a))
    BY <2>2, <2>4, <2>7, <2>8, <2>10
  <2>12. /\ FlattenSeq(seqs) \o missing \in Seq(Diagnostic)
         /\ ErrorIn(FlattenSeq(seqs) \o missing) <=> ErrorIn(FlattenSeq(seqs)) \/ ErrorIn(missing)
    BY <2>6, <2>10, CatErrors
  <2>13. /\ PredicateDiagnostics(p) \in Seq(Diagnostic)
         /\ ErrorIn(PredicateDiagnostics(p)) <=>
                ErrorIn(FlattenSeq(seqs) \o missing) \/ ErrorIn(incompatible)
    <3> DEFINE head == FlattenSeq(seqs) \o missing
    <3>1. head \in Seq(Diagnostic) /\ PredicateDiagnostics(p) = head \o incompatible
      BY <2>3, <2>12
    <3> HIDE DEF head
    <3>2. /\ head \o incompatible \in Seq(Diagnostic)
          /\ ErrorIn(head \o incompatible) <=> ErrorIn(head) \/ ErrorIn(incompatible)
      BY <2>6, <3>1, CatErrors
    <3> QED BY <3>1, <3>2 DEF head
  <2>14. LegalPredicate(p) <=>
            /\ Distinct(names)
            /\ \A a \in Elements(p.attributes) : LegalAttribute(p.kind, a)
            /\ MissingAttributes(p) = {} /\ ~Incompatible(p)
    BY <1>3, <2>9 DEF LegalPredicate, names
  <2> QED BY <2>6, <2>11, <2>12, <2>13, <2>14
<1> QED BY <1>2, <1>3

LegalEvidence ==
    /\ Distinct(EvidenceNames) /\ RequiredNames # {}
    /\ \A d \in Elements(ast.evidence) : LegalPredicate(d.predicate)

LEMMA DeclarationParts ==
    ASSUME WellMade(ast)
    PROVE  /\ Len(ast.evidence) \in Nat /\ DOMAIN ast.evidence = 1 .. Len(ast.evidence)
           /\ \A i \in 1 .. Len(ast.evidence) :
                /\ ast.evidence[i] \in Declarations
                /\ ast.evidence[i].name \in STRING /\ ast.evidence[i].name \in Names
                /\ ast.evidence[i].predicate \in [kind : STRING, attributes : Seq(Attributes)]
                /\ EvidenceNames[i] = ast.evidence[i].name
           /\ DOMAIN EvidenceNames = 1 .. Len(ast.evidence)
           /\ EvidenceNames = [i \in 1 .. Len(ast.evidence) |-> EvidenceNames[i]]
           /\ EvidenceNames \in Seq(STRING) /\ Len(EvidenceNames) = Len(ast.evidence)
<1> DEFINE n == Len(ast.evidence)
<1>1. ast.evidence \in Seq(Declarations)
  BY TreeParts
<1>2. n \in Nat /\ DOMAIN ast.evidence = 1 .. n /\ \A i \in 1 .. n : ast.evidence[i] \in Declarations
  BY <1>1
<1>3. \A i \in 1 .. n :
        /\ ast.evidence[i].name \in STRING /\ ast.evidence[i].name \in Names
        /\ ast.evidence[i].predicate \in [kind : STRING, attributes : Seq(Attributes)]
  BY <1>2 DEF Declarations, Names
<1>4. EvidenceNames = [i \in 1 .. n |-> ast.evidence[i].name]
  BY <1>2 DEF EvidenceNames
<1> HIDE DEF n
<1>5. EvidenceNames \in Seq(STRING) /\ Len(EvidenceNames) = n
  BY <1>2, <1>3, <1>4
<1> QED BY <1>2, <1>3, <1>4, <1>5 DEF n

LEMMA EvidenceExact ==
    ASSUME WellMade(ast)
    PROVE  /\ EvidenceDiagnostics \in Seq(Diagnostic)
           /\ ErrorIn(EvidenceDiagnostics) <=> ~LegalEvidence
<1> DEFINE n == Len(ast.evidence)
           repeated(i) == When(Repeats(EvidenceNames, i), Err("repeated evidence", EvidenceNames[i]))
           Checked(i) == repeated(i) \o PredicateDiagnostics(ast.evidence[i].predicate)
           seqs == [i \in 1 .. n |-> Checked(i)]
           none == When(ast.evidence = <<>>, Err("no evidence", ""))
           optional == When(ast.evidence # <<>> /\ RequiredNames = {}, Err("only optional", ""))
<1>1. /\ n \in Nat /\ DOMAIN ast.evidence = 1 .. n
      /\ EvidenceNames = [i \in 1 .. n |-> EvidenceNames[i]]
      /\ \A i \in 1 .. n :
            /\ ast.evidence[i].predicate \in [kind : STRING, attributes : Seq(Attributes)]
            /\ EvidenceNames[i] \in Names
  BY DeclarationParts
<1>2. /\ "repeated evidence" \in Abouts /\ "no evidence" \in Abouts /\ "only optional" \in Abouts
  BY TheAbouts, Zenon
<1>3. ASSUME NEW i \in 1 .. n
      PROVE  /\ Checked(i) \in Seq(Diagnostic)
             /\ ErrorIn(Checked(i)) <=>
                    Repeats(EvidenceNames, i) \/ ~LegalPredicate(ast.evidence[i].predicate)
  <2>1. /\ repeated(i) \in Seq(Diagnostic)
        /\ ErrorIn(repeated(i)) <=> Repeats(EvidenceNames, i)
    BY <1>1, <1>2, OneDiagnostic DEF When
  <2>2. /\ PredicateDiagnostics(ast.evidence[i].predicate) \in Seq(Diagnostic)
        /\ ErrorIn(PredicateDiagnostics(ast.evidence[i].predicate))
                <=> ~LegalPredicate(ast.evidence[i].predicate)
    BY <1>1, PredicateExact
  <2> HIDE DEF repeated
  <2> QED BY <2>1, <2>2, CatErrors
<1>4. EvidenceDiagnostics = (FlattenSeq(seqs) \o none) \o optional
  BY <1>1 DEF EvidenceDiagnostics, ForEach
<1>5. \A i \in 1 .. n : seqs[i] = Checked(i)
  OBVIOUS
<1>6. seqs = [i \in 1 .. n |-> seqs[i]]
  OBVIOUS
<1>7. /\ none \in Seq(Diagnostic) /\ (ErrorIn(none) <=> ast.evidence = <<>>)
      /\ optional \in Seq(Diagnostic)
      /\ (ErrorIn(optional) <=> ast.evidence # <<>> /\ RequiredNames = {})
  <2>1. "" \in Names
    BY DEF Names
  <2> QED BY <1>2, <2>1, OneDiagnostic DEF When
<1>8. Distinct(EvidenceNames) <=> \A i \in 1 .. n : ~Repeats(EvidenceNames, i)
  BY <1>1, DistinctIsNoRepeat
<1>9. Elements(ast.evidence) = {ast.evidence[i] : i \in 1 .. n}
  BY DEF Elements
<1>10. ast.evidence = <<>> => RequiredNames = {}
  BY DEF RequiredNames, Elements
<1> HIDE DEF Checked, seqs, none, optional, n
<1>11. /\ FlattenSeq(seqs) \in Seq(Diagnostic)
       /\ ErrorIn(FlattenSeq(seqs)) <=> \E i \in 1 .. n : ErrorIn(seqs[i])
  <2>1. \A i \in 1 .. n : seqs[i] \in Seq(Diagnostic)
    BY <1>3, <1>5
  <2> QED BY <1>1, <1>6, <2>1, ForEachErrors, Zenon
<1>12. ErrorIn(FlattenSeq(seqs)) <=>
            ~(/\ Distinct(EvidenceNames)
              /\ \A d \in Elements(ast.evidence) : LegalPredicate(d.predicate))
  BY <1>3, <1>5, <1>8, <1>9, <1>11
<1>13. /\ FlattenSeq(seqs) \o none \in Seq(Diagnostic)
       /\ ErrorIn(FlattenSeq(seqs) \o none) <=> ErrorIn(FlattenSeq(seqs)) \/ ErrorIn(none)
  BY <1>7, <1>11, CatErrors
<1>14. /\ EvidenceDiagnostics \in Seq(Diagnostic)
       /\ ErrorIn(EvidenceDiagnostics) <=>
            ErrorIn(FlattenSeq(seqs) \o none) \/ ErrorIn(optional)
  BY <1>4, <1>7, <1>13, CatErrors
<1> QED BY <1>7, <1>10, <1>12, <1>13, <1>14 DEF LegalEvidence

(* out is a list of the selected of the elements e. *)
Picks(out, X, e, selected) ==
    /\ out \in Seq(X)
    /\ \A x : x \in Elements(out) <=> \E i \in selected : x = e[i]

LEMMA SelectedElements ==
    ASSUME NEW X, NEW n \in Nat, NEW selected \in SUBSET (1 .. n), NEW e,
           \A i \in selected : e[i] \in X,
           NEW seqs, seqs = [i \in 1 .. n |-> IF i \in selected THEN <<e[i]>> ELSE <<>>]
    PROVE  Picks(FlattenSeq(seqs), X, e, selected)
<1> DEFINE out == FlattenSeq(seqs)
<1>1. out \in Seq(X) /\ \E row : Keeps(out, row, e, n, selected)
  BY FlattenSelected
<1> HIDE DEF out
<1>2. PICK row : Keeps(out, row, e, n, selected)
  BY <1>1
<1>3. /\ \A k \in 1 .. Len(out) : row[k] \in selected /\ out[k] = e[row[k]]
      /\ \A i \in selected : \E k \in 1 .. Len(out) : row[k] = i
  BY <1>2, Zenon DEF Keeps
<1>4. ASSUME NEW i \in selected PROVE \E k \in 1 .. Len(out) : out[k] = e[i]
  <2>1. PICK k \in 1 .. Len(out) : row[k] = i
    BY <1>3
  <2> QED BY <1>3, <2>1, Zenon
<1>5. ASSUME NEW k \in 1 .. Len(out) PROVE \E i \in selected : out[k] = e[i]
  BY <1>3, Zenon
<1>6. \A x : x \in Elements(out) <=> \E k \in 1 .. Len(out) : x = out[k]
  BY DEF Elements
<1>7. \A x : x \in Elements(out) <=> \E i \in selected : x = e[i]
  <2>1. ASSUME NEW x \in Elements(out) PROVE \E i \in selected : x = e[i]
    <3>1. PICK k \in 1 .. Len(out) : x = out[k]
      BY <1>6
    <3>2. PICK i \in selected : out[k] = e[i]
      BY <1>5
    <3>3. x = e[i]
      BY <3>1, <3>2
    <3> QED BY <3>3
  <2>2. ASSUME NEW x, NEW i \in selected, x = e[i] PROVE x \in Elements(out)
    <3>1. PICK k \in 1 .. Len(out) : out[k] = e[i]
      BY <1>4
    <3>2. x = out[k]
      BY <2>2, <3>1
    <3> QED BY <1>6, <3>2, Zenon
  <2> QED BY <2>1, <2>2, Zenon
<1>8. Picks(out, X, e, selected)
  BY <1>1, <1>7, Zenon DEF Picks
<1> QED BY <1>8 DEF out

(* The names a constraint refers to. *)
LEMMA RefsAre ==
    ASSUME NEW nodes \in Seq(TreeNodes)
    PROVE  /\ Refs(nodes) \in Seq(STRING)
           /\ \A name : name \in Elements(Refs(nodes)) <=>
                \E n \in 1 .. Len(nodes) : nodes[n].op = "REF" /\ nodes[n].name = name
<1> DEFINE selected == {n \in 1 .. Len(nodes) : nodes[n].op = "REF"}
           e == [n \in 1 .. Len(nodes) |-> nodes[n].name]
           seqs == [n \in 1 .. Len(nodes) |-> IF n \in selected THEN <<e[n]>> ELSE <<>>]
<1>1. /\ Len(nodes) \in Nat /\ selected \in SUBSET (1 .. Len(nodes))
      /\ \A n \in 1 .. Len(nodes) : nodes[n] \in TreeNodes
      /\ DOMAIN nodes = 1 .. Len(nodes)
  OBVIOUS
<1>2. \A n \in selected : e[n] \in STRING
  BY <1>1 DEF TreeNodes
<1>3. Refs(nodes) = FlattenSeq(seqs)
  <2>1. seqs = [n \in DOMAIN nodes |-> When(nodes[n].op = "REF", <<nodes[n].name>>)]
    BY <1>1 DEF When
  <2> HIDE DEF seqs
  <2> QED BY <2>1 DEF Refs, ForEach
<1>4. \A n \in 1 .. Len(nodes) : e[n] = nodes[n].name /\ (n \in selected <=> nodes[n].op = "REF")
  OBVIOUS
<1>5. seqs = [n \in 1 .. Len(nodes) |-> IF n \in selected THEN <<e[n]>> ELSE <<>>]
  OBVIOUS
<1> HIDE DEF selected, e, seqs
<1>6. Picks(FlattenSeq(seqs), STRING, e, selected)
  BY <1>1, <1>2, <1>5, SelectedElements, Zenon
<1>7. selected \subseteq 1 .. Len(nodes)
  BY <1>1
<1> QED BY <1>3, <1>4, <1>6, <1>7 DEF Picks

LEMMA NamesOf ==
    ASSUME NEW list \in Seq(STRING)
    PROVE  /\ Len(list) \in Nat /\ DOMAIN list = 1 .. Len(list)
           /\ list = [i \in 1 .. Len(list) |-> list[i]]
           /\ \A i \in 1 .. Len(list) : list[i] \in Names
<1>1. /\ Len(list) \in Nat /\ DOMAIN list = 1 .. Len(list)
      /\ list = [i \in 1 .. Len(list) |-> list[i]]
  OBVIOUS
<1>2. \A i \in 1 .. Len(list) : list[i] \in STRING
  OBVIOUS
<1> QED BY <1>1, <1>2, Zenon DEF Names

LEMMA UndeclaredExact ==
    ASSUME WellMade(ast), NEW names \in Seq(STRING), NEW about \in Abouts
    PROVE  /\ Undeclared(names, about) \in Seq(Diagnostic)
           /\ ErrorIn(Undeclared(names, about)) <=> ~(Elements(names) \subseteq Elements(EvidenceNames))
<1> DEFINE n == Len(names)
           Checked(i) == When(names[i] \notin Elements(EvidenceNames), Err(about, names[i]))
           seqs == [i \in 1 .. n |-> Checked(i)]
<1>1. n \in Nat /\ DOMAIN names = 1 .. n /\ \A i \in 1 .. n : names[i] \in Names
  BY NamesOf
<1>2. \A i \in 1 .. n :
        /\ Checked(i) \in Seq(Diagnostic)
        /\ ErrorIn(Checked(i)) <=> names[i] \notin Elements(EvidenceNames)
  BY <1>1, OneDiagnostic DEF When
<1>3. Undeclared(names, about) = FlattenSeq(seqs)
  BY <1>1 DEF Undeclared, ForEach
<1>4. \A i \in 1 .. n : seqs[i] = Checked(i)
  OBVIOUS
<1>5. seqs = [i \in 1 .. n |-> seqs[i]]
  OBVIOUS
<1>6. Elements(names) = {names[i] : i \in 1 .. n}
  BY DEF Elements
<1> HIDE DEF Checked, seqs, n
<1>7. /\ FlattenSeq(seqs) \in Seq(Diagnostic)
      /\ ErrorIn(FlattenSeq(seqs)) <=> \E i \in 1 .. n : ErrorIn(seqs[i])
  BY <1>1, <1>2, <1>4, <1>5, ForEachErrors
<1> QED BY <1>2, <1>3, <1>4, <1>6, <1>7

LegalConstraint ==
    ast.constraint # <<>> => Elements(Refs(ast.constraint[1])) \subseteq Elements(EvidenceNames)

(* A clause that is not load-bearing is warned about: no error. *)
LEMMA ConstraintExact ==
    ASSUME WellMade(ast)
    PROVE  /\ ConstraintDiagnostics \in Seq(Diagnostic)
           /\ ErrorIn(ConstraintDiagnostics) <=> ~LegalConstraint
<1>1. CASE ast.constraint = <<>>
  BY <1>1, OneDiagnostic DEF ConstraintDiagnostics, LegalConstraint
<1>2. CASE ast.constraint # <<>>
  <2> DEFINE n == Len(ast.evidence)
             refs == Refs(ast.constraint[1])
             idle(i) == /\ ast.evidence[i].requiredness = "required"
                        /\ EvidenceNames[i] \notin Elements(refs)
             Checked(i) == When(idle(i), Warn("not load-bearing", EvidenceNames[i]))
             seqs == [i \in 1 .. n |-> Checked(i)]
  <2>1. ast.constraint \in Seq(Seq(TreeNodes)) /\ ast.constraint[1] \in Seq(TreeNodes)
    BY <1>2, TreeParts
  <2>2. refs \in Seq(STRING)
    BY <2>1, RefsAre
  <2>3. "reference" \in Abouts /\ "not load-bearing" \in Abouts
    BY TheAbouts, Zenon
  <2>4. /\ n \in Nat /\ DOMAIN ast.evidence = 1 .. n
        /\ \A i \in 1 .. n : EvidenceNames[i] \in Names
    BY DeclarationParts
  <2>5. \A i \in 1 .. n : Checked(i) \in Seq(Diagnostic) /\ ~ErrorIn(Checked(i))
    BY <2>3, <2>4, OneDiagnostic DEF When
  <2>6. ConstraintDiagnostics = Undeclared(refs, "reference") \o FlattenSeq(seqs)
    BY <1>2, <2>4 DEF ConstraintDiagnostics, ForEach
  <2>7. \A i \in 1 .. n : seqs[i] = Checked(i)
    OBVIOUS
  <2>8. seqs = [i \in 1 .. n |-> seqs[i]]
    OBVIOUS
  <2>9. LegalConstraint <=> Elements(refs) \subseteq Elements(EvidenceNames)
    BY <1>2 DEF LegalConstraint
  <2> HIDE DEF Checked, seqs, n, refs
  <2>10. FlattenSeq(seqs) \in Seq(Diagnostic) /\ ~ErrorIn(FlattenSeq(seqs))
    BY <2>4, <2>5, <2>7, <2>8, ForEachErrors
  <2>11. /\ Undeclared(refs, "reference") \in Seq(Diagnostic)
         /\ ErrorIn(Undeclared(refs, "reference"))
                <=> ~(Elements(refs) \subseteq Elements(EvidenceNames))
    BY <2>2, <2>3, UndeclaredExact
  <2> QED BY <2>6, <2>9, <2>10, <2>11, CatErrors
<1> QED BY <1>1, <1>2

LEMMA GroupExact ==
    ASSUME WellMade(ast), NEW section \in Seq(Sections), NEW about \in {"sequence", "same_call"}
    PROVE  /\ GroupDiagnostics(section, about) \in Seq(Diagnostic)
           /\ ErrorIn(GroupDiagnostics(section, about)) <=> ~LegalGroup(section)
<1>1. CASE section = <<>>
  BY <1>1, OneDiagnostic DEF GroupDiagnostics, LegalGroup
<1>2. CASE section # <<>>
  <2> DEFINE names == section[1].items
             n == Len(names)
             again == "repeated in " \o about
             short == When(n < 2, Err("too short", about))
             unknown(i) == When(names[i] \notin Elements(EvidenceNames), Err(about, names[i]))
             repeated(i) == When(Repeats(names, i), Err(again, names[i]))
             Checked(i) == unknown(i) \o repeated(i)
             seqs == [i \in 1 .. n |-> Checked(i)]
  <2>1. names \in Seq(STRING)
    <3>1. section[1] \in Sections
      BY <1>2
    <3> QED BY <3>1 DEF Sections
  <2>2. /\ n \in Nat /\ DOMAIN names = 1 .. n /\ names = [i \in 1 .. n |-> names[i]]
        /\ \A i \in 1 .. n : names[i] \in Names
    BY <2>1, NamesOf
  <2>3. about \in Abouts /\ again \in Abouts /\ "too short" \in Abouts /\ about \in Names
    <3>1. about \in Abouts /\ "too short" \in Abouts
      BY TheAbouts, Zenon
    <3>2. again \in Abouts
      BY Zenon DEF Abouts
    <3> QED BY <3>1, <3>2 DEF Names
  <2>4. GroupDiagnostics(section, about) = short \o FlattenSeq(seqs)
    BY <1>2, <2>2 DEF GroupDiagnostics, ForEach
  <2>5. short \in Seq(Diagnostic) /\ (ErrorIn(short) <=> n < 2)
    BY <2>3, OneDiagnostic DEF When
  <2> HIDE DEF again, names
  <2>6. ASSUME NEW i \in 1 .. n
        PROVE  /\ Checked(i) \in Seq(Diagnostic)
               /\ ErrorIn(Checked(i)) <=> names[i] \notin Elements(EvidenceNames) \/ Repeats(names, i)
    <3>1. /\ unknown(i) \in Seq(Diagnostic)
          /\ ErrorIn(unknown(i)) <=> names[i] \notin Elements(EvidenceNames)
      BY <2>2, <2>3, OneDiagnostic DEF When
    <3>2. /\ repeated(i) \in Seq(Diagnostic)
          /\ ErrorIn(repeated(i)) <=> Repeats(names, i)
      BY <2>2, <2>3, OneDiagnostic DEF When
    <3> HIDE DEF unknown, repeated
    <3> QED BY <3>1, <3>2, CatErrors
  <2>7. \A i \in 1 .. n : seqs[i] = Checked(i)
    OBVIOUS
  <2>8. seqs = [i \in 1 .. n |-> seqs[i]]
    OBVIOUS
  <2>9. Distinct(names) <=> \A i \in 1 .. n : ~Repeats(names, i)
    BY <2>2, DistinctIsNoRepeat
  <2>10. Elements(names) = {names[i] : i \in 1 .. n}
    BY DEF Elements
  <2>11. LegalGroup(section) <=>
            n >= 2 /\ Distinct(names) /\ Elements(names) \subseteq Elements(EvidenceNames)
    BY <1>2 DEF LegalGroup, names
  <2> HIDE DEF short, Checked, seqs, n
  <2>12. /\ FlattenSeq(seqs) \in Seq(Diagnostic)
         /\ ErrorIn(FlattenSeq(seqs)) <=> \E i \in 1 .. n : ErrorIn(seqs[i])
    <3>1. \A i \in 1 .. n : seqs[i] \in Seq(Diagnostic)
      BY <2>6, <2>7
    <3> QED BY <2>2, <2>8, <3>1, ForEachErrors, Zenon
  <2>13. ErrorIn(FlattenSeq(seqs)) <=>
            ~(Distinct(names) /\ Elements(names) \subseteq Elements(EvidenceNames))
    BY <2>6, <2>7, <2>9, <2>10, <2>12
  <2>14. /\ GroupDiagnostics(section, about) \in Seq(Diagnostic)
         /\ ErrorIn(GroupDiagnostics(section, about)) <=> ErrorIn(short) \/ ErrorIn(FlattenSeq(seqs))
    BY <2>4, <2>5, <2>12, CatErrors
  <2>15. n < 2 <=> ~(n >= 2)
    BY <2>2
  <2> QED BY <2>5, <2>11, <2>13, <2>14, <2>15
<1> QED BY <1>1, <1>2

LegalSequence ==
    /\ LegalGroup(ast.sequence)
    /\ ast.sequence # <<>> => \A w \in Elements(ast.sequence[1].within) : w > 0

LEMMA SequenceExact ==
    ASSUME WellMade(ast)
    PROVE  /\ SequenceDiagnostics \in Seq(Diagnostic)
           /\ ErrorIn(SequenceDiagnostics) <=> ~LegalSequence
<1> DEFINE bad == ast.sequence # <<>> /\ \E w \in Elements(ast.sequence[1].within) : w <= 0
           group == GroupDiagnostics(ast.sequence, "sequence")
           window == When(bad, Err("window", "sequence"))
<1>1. group \in Seq(Diagnostic) /\ (ErrorIn(group) <=> ~LegalGroup(ast.sequence))
  BY TreeParts, GroupExact
<1>2. window \in Seq(Diagnostic) /\ (ErrorIn(window) <=> bad)
  <2>1. "window" \in Abouts /\ "sequence" \in Abouts
    BY TheAbouts, Zenon
  <2>2. "sequence" \in Names
    BY DEF Names
  <2> HIDE DEF bad
  <2> QED BY <2>1, <2>2, OneDiagnostic DEF When
<1>3. bad <=> ~(ast.sequence # <<>> => \A w \in Elements(ast.sequence[1].within) : w > 0)
  <2>1. CASE ast.sequence # <<>>
    <3>1. ast.sequence[1] \in Sections
      BY <2>1, TreeParts
    <3>2. \A w \in Elements(ast.sequence[1].within) : w \in Int
      BY <3>1 DEF Sections, Elements
    <3> QED BY <2>1, <3>2
  <2> QED BY <2>1
<1>4. SequenceDiagnostics = group \o window
  BY DEF SequenceDiagnostics
<1> HIDE DEF bad, group, window
<1> QED BY <1>1, <1>2, <1>3, <1>4, CatErrors DEF LegalSequence

LEMMA SameCallExact ==
    ASSUME WellMade(ast)
    PROVE  /\ SameCallDiagnostics \in Seq(Diagnostic)
           /\ ErrorIn(SameCallDiagnostics) <=> ~LegalGroup(ast.same_call)
BY TreeParts, GroupExact DEF SameCallDiagnostics

-----------------------------------------------------------------------------
(* What is legal passes every expect() of compile() but the one over its
   version.                                                                 *)

LEMMA LegalParts ==
    Legal <=> /\ LegalMetadata /\ LegalEvidence /\ LegalConstraint
              /\ LegalSequence /\ LegalGroup(ast.same_call)
BY Zenon DEF Legal, LegalMetadata, LegalEvidence, LegalConstraint, LegalSequence

(* The value of a key that is there once. *)
LEMMA ValueOf ==
    ASSUME WellMade(ast), Distinct(Keys), NEW i \in 1 .. Len(ast.metadata)
    PROVE  \A v : v \in Values(ast.metadata[i].key) <=> v = ast.metadata[i].value
<1> DEFINE n == Len(ast.metadata)
<1>1. ast.metadata \in Seq(Entries) /\ n \in Nat /\ DOMAIN ast.metadata = 1 .. n
  BY TreeParts
<1>2. Keys = [j \in 1 .. n |-> ast.metadata[j].key]
  BY <1>1 DEF Keys
<1>3. DOMAIN Keys = 1 .. n /\ \A j \in 1 .. n : Keys[j] = ast.metadata[j].key
  BY <1>2
<1>4. Keys = [j \in 1 .. n |-> Keys[j]]
  BY <1>2, <1>3
<1>5. ~Repeats(Keys, i)
  BY <1>1, <1>4, DistinctIsNoRepeat
<1>6. \A j \in 1 .. n : Keys[j] = Keys[i] => j = i
  BY <1>3 DEF Distinct
<1> QED BY <1>3, <1>5, <1>6 DEF Values

LEMMA LegalCompiles ==
    ASSUME WellMade(ast), Legal
    PROVE  /\ NamesResolve
           /\ Identifier("family") # {}
           /\ Identifier("severity") \intersect Severities # {}
           /\ ast.version >= 1
<1>1. NamesResolve
  BY DEF Legal, LegalGroup, NamesResolve
<1>2. ast.metadata \in Seq(Entries) /\ Elements(Keys) = {Keys[i] : i \in 1 .. Len(ast.metadata)}
      /\ \A i \in 1 .. Len(ast.metadata) : Keys[i] = ast.metadata[i].key
  <2>1. ast.metadata \in Seq(Entries) /\ DOMAIN ast.metadata = 1 .. Len(ast.metadata)
        /\ Len(ast.metadata) \in Nat
    BY TreeParts
  <2>2. Keys = [i \in 1 .. Len(ast.metadata) |-> ast.metadata[i].key]
    BY <2>1 DEF Keys
  <2> QED BY <2>1, <2>2 DEF Elements
<1>3. ASSUME NEW key \in {"family", "severity"}
      PROVE  \E i \in 1 .. Len(ast.metadata) :
                /\ ast.metadata[i].key = key /\ ast.metadata[i].value \in Values(key)
                /\ LegalEntry(ast.metadata[i])
  <2>1. key \in Elements(Keys) /\ Distinct(Keys)
    BY DEF Legal
  <2>2. PICK i \in 1 .. Len(ast.metadata) : ast.metadata[i].key = key
    BY <1>2, <2>1
  <2>3. LegalEntry(ast.metadata[i])
    BY DEF Legal, Elements
  <2>4. ast.metadata[i].value \in Values(ast.metadata[i].key)
    BY <2>1, ValueOf
  <2> QED BY <2>2, <2>3, <2>4
<1>4. Identifier("family") # {}
  <2>1. PICK i \in 1 .. Len(ast.metadata) :
            /\ ast.metadata[i].key = "family" /\ ast.metadata[i].value \in Values("family")
            /\ LegalEntry(ast.metadata[i])
    BY <1>3
  <2>2. ast.metadata[i].value.shape = "Ident"
    BY <2>1 DEF LegalEntry
  <2> QED BY <2>1, <2>2 DEF Identifier
<1>5. Identifier("severity") \intersect Severities # {}
  <2>1. PICK i \in 1 .. Len(ast.metadata) :
            /\ ast.metadata[i].key = "severity" /\ ast.metadata[i].value \in Values("severity")
            /\ LegalEntry(ast.metadata[i])
    BY <1>3
  <2> DEFINE value == ast.metadata[i].value
  <2>2. value \in [shape : {"Ident"}, items : {<<s>> : s \in Severities}]
    BY <2>1 DEF LegalEntry
  <2>3. value.shape = "Ident" /\ value.items[1] \in Severities
    <3>1. \A s \in Severities : <<s>>[1] = s
      OBVIOUS
    <3> QED BY <2>2, <3>1
  <2>4. value.items[1] \in Identifier("severity")
    BY <2>1, <2>3 DEF Identifier
  <2> QED BY <2>3, <2>4
<1>6. ast.version >= 1
  BY DEF Legal
<1> QED BY <1>1, <1>4, <1>5, <1>6

-----------------------------------------------------------------------------
(* The invariant: what has been collected has an error exactly when a part
   that has been passed is illegal.                                         *)

Stages == {"metadata", "evidence", "constraint", "sequence", "same_call", "validated",
           "rejected", "compiled", "panicked"}
Validated == {"validated", "rejected", "compiled", "panicked"}

PassedIsLegal ==
    CASE stage = "metadata" -> TRUE
      [] stage = "evidence" -> LegalMetadata
      [] stage = "constraint" -> LegalMetadata /\ LegalEvidence
      [] stage = "sequence" -> LegalMetadata /\ LegalEvidence /\ LegalConstraint
      [] stage = "same_call" ->
            LegalMetadata /\ LegalEvidence /\ LegalConstraint /\ LegalSequence
      [] OTHER -> Legal

Collected ==
    /\ WellMade(ast) /\ stage \in Stages
    /\ diagnostics \in Seq(Diagnostic)
    /\ ErrorIn(diagnostics) <=> ~PassedIsLegal

IInv ==
    /\ Collected
    /\ stage = "rejected" => ~Legal
    /\ stage \in {"compiled", "panicked"} => Legal
    /\ stage = "panicked" => ~Fits(ast.version)
    /\ stage = "compiled" => Fits(ast.version) /\ compiled = CompiledPattern

LEMMA ErrorsAre == ASSUME diagnostics \in Seq(Diagnostic) PROVE HasErrors <=> ErrorIn(diagnostics)
BY DEF HasErrors, ErrorIn

(* What is said of the tree stays said of it. *)
LEMMA TreeStays ==
    ASSUME ast' = ast
    PROVE  /\ WellMade(ast)' <=> WellMade(ast)
           /\ LegalMetadata' <=> LegalMetadata
           /\ LegalEvidence' <=> LegalEvidence
           /\ LegalConstraint' <=> LegalConstraint
           /\ LegalSequence' <=> LegalSequence
           /\ Legal' <=> Legal
           /\ CompiledPattern' = CompiledPattern
<1>1. WellMade(ast)' <=> WellMade(ast)
  OBVIOUS
<1>2. Keys' = Keys /\ EvidenceNames' = EvidenceNames /\ RequiredNames' = RequiredNames
  BY DEF Keys, EvidenceNames, RequiredNames
<1>3. \A section : LegalGroup(section)' <=> LegalGroup(section)
  BY <1>2 DEF LegalGroup
<1>4. /\ LegalMetadata' <=> LegalMetadata
      /\ LegalEvidence' <=> LegalEvidence
      /\ LegalConstraint' <=> LegalConstraint
  BY <1>2 DEF LegalMetadata, LegalEvidence, LegalConstraint
<1>5. /\ LegalSequence' <=> LegalSequence
      /\ LegalGroup(ast.same_call)' <=> LegalGroup(ast.same_call)
  BY <1>2 DEF LegalSequence, LegalGroup
<1>6. Legal' <=> Legal
  BY <1>2, <1>5 DEF Legal, LegalGroup
<1>7. CompiledPattern' = CompiledPattern
  <2>1. \A name : Resolve(name)' = Resolve(name)
    BY <1>2 DEF Resolve, SelectInSeq
  <2>2. \A names : ResolveAll(names)' = ResolveAll(names)
    BY <2>1 DEF ResolveAll
  <2>3. \A node : Compiled(node)' = Compiled(node)
    BY <2>1 DEF Compiled
  <2>4. ImplicitAnd' = ImplicitAnd
    BY DEF ImplicitAnd, ForEach
  <2>5. \A key : Values(key)' = Values(key)
    BY <1>2 DEF Values
  <2>6. \A key : Identifier(key)' = Identifier(key) /\ Strings(key)' = Strings(key)
    BY <2>5 DEF Identifier, Strings, ForEach
  <2> QED BY <2>1, <2>2, <2>3, <2>4, <2>6 DEF CompiledPattern
<1> QED BY <1>1, <1>4, <1>5, <1>6, <1>7

LEMMA InitCollects == Init => IInv
<1> SUFFICES ASSUME Init PROVE IInv
  OBVIOUS
<1>1. WellMade(ast)
  BY TreesAssumption DEF Init
<1>2. diagnostics = <<>> /\ diagnostics \in Seq(Diagnostic) /\ ~ErrorIn(diagnostics)
  BY OneDiagnostic DEF Init
<1>3. stage = "metadata"
  BY DEF Init
<1>4. PassedIsLegal
  BY <1>3 DEF PassedIsLegal
<1> QED BY <1>1, <1>2, <1>3, <1>4 DEF IInv, Collected, Stages

(* One pass: what it collects has an error exactly when its part is illegal. *)
LEMMA PassCollects ==
    ASSUME IInv, NEW diags \in Seq(Diagnostic), NEW this, NEW next, Validate(this, diags, next)
    PROVE  /\ WellMade(ast)' /\ diagnostics' \in Seq(Diagnostic)
           /\ ErrorIn(diagnostics') <=> ~PassedIsLegal \/ ErrorIn(diags)
<1>1. diagnostics \in Seq(Diagnostic) /\ (ErrorIn(diagnostics) <=> ~PassedIsLegal) /\ WellMade(ast)
  BY DEF IInv, Collected
<1>2. diagnostics' = diagnostics \o diags /\ ast' = ast
  BY DEF Validate
<1>3. /\ diagnostics \o diags \in Seq(Diagnostic)
      /\ ErrorIn(diagnostics \o diags) <=> ErrorIn(diagnostics) \/ ErrorIn(diags)
  BY <1>1, CatErrors
<1> QED BY <1>1, <1>2, <1>3

LEMMA NextCollects == IInv /\ [Next]_vars => IInv'
<1> SUFFICES ASSUME IInv, [Next]_vars PROVE IInv'
  OBVIOUS
<1> USE DEF Stages
<1>0. WellMade(ast) /\ diagnostics \in Seq(Diagnostic) /\ (ErrorIn(diagnostics) <=> ~PassedIsLegal)
  BY DEF IInv, Collected
<1>1. CASE ValidateMetadata
  <2>1. Validate("metadata", MetadataDiagnostics, "evidence")
    BY <1>1 DEF ValidateMetadata
  <2>2. stage = "metadata" /\ stage' = "evidence" /\ ast' = ast
    BY <2>1 DEF Validate
  <2>3. /\ WellMade(ast)' /\ diagnostics' \in Seq(Diagnostic)
        /\ ErrorIn(diagnostics') <=> ~PassedIsLegal \/ ~LegalMetadata
    BY <1>0, <2>1, MetadataExact, PassCollects
  <2>4. PassedIsLegal' <=> PassedIsLegal /\ LegalMetadata
    BY <2>2, TreeStays DEF PassedIsLegal
  <2> QED BY <2>2, <2>3, <2>4 DEF IInv, Collected
<1>2. CASE ValidateEvidence
  <2>1. Validate("evidence", EvidenceDiagnostics, "constraint")
    BY <1>2 DEF ValidateEvidence
  <2>2. stage = "evidence" /\ stage' = "constraint" /\ ast' = ast
    BY <2>1 DEF Validate
  <2>3. /\ WellMade(ast)' /\ diagnostics' \in Seq(Diagnostic)
        /\ ErrorIn(diagnostics') <=> ~PassedIsLegal \/ ~LegalEvidence
    BY <1>0, <2>1, EvidenceExact, PassCollects
  <2>4. PassedIsLegal' <=> PassedIsLegal /\ LegalEvidence
    BY <2>2, TreeStays DEF PassedIsLegal
  <2> QED BY <2>2, <2>3, <2>4 DEF IInv, Collected
<1>3. CASE ValidateConstraint
  <2>1. Validate("constraint", ConstraintDiagnostics, "sequence")
    BY <1>3 DEF ValidateConstraint
  <2>2. stage = "constraint" /\ stage' = "sequence" /\ ast' = ast
    BY <2>1 DEF Validate
  <2>3. /\ WellMade(ast)' /\ diagnostics' \in Seq(Diagnostic)
        /\ ErrorIn(diagnostics') <=> ~PassedIsLegal \/ ~LegalConstraint
    BY <1>0, <2>1, ConstraintExact, PassCollects
  <2>4. PassedIsLegal' <=> PassedIsLegal /\ LegalConstraint
    BY <2>2, TreeStays DEF PassedIsLegal
  <2> QED BY <2>2, <2>3, <2>4 DEF IInv, Collected
<1>4. CASE ValidateSequence
  <2>1. Validate("sequence", SequenceDiagnostics, "same_call")
    BY <1>4 DEF ValidateSequence
  <2>2. stage = "sequence" /\ stage' = "same_call" /\ ast' = ast
    BY <2>1 DEF Validate
  <2>3. /\ WellMade(ast)' /\ diagnostics' \in Seq(Diagnostic)
        /\ ErrorIn(diagnostics') <=> ~PassedIsLegal \/ ~LegalSequence
    BY <1>0, <2>1, SequenceExact, PassCollects
  <2>4. PassedIsLegal' <=> PassedIsLegal /\ LegalSequence
    BY <2>2, TreeStays DEF PassedIsLegal
  <2> QED BY <2>2, <2>3, <2>4 DEF IInv, Collected
<1>5. CASE ValidateSameCall
  <2>1. Validate("same_call", SameCallDiagnostics, "validated")
    BY <1>5 DEF ValidateSameCall
  <2>2. stage = "same_call" /\ stage' = "validated" /\ ast' = ast
    BY <2>1 DEF Validate
  <2>3. /\ WellMade(ast)' /\ diagnostics' \in Seq(Diagnostic)
        /\ ErrorIn(diagnostics') <=> ~PassedIsLegal \/ ~LegalGroup(ast.same_call)
    BY <1>0, <2>1, SameCallExact, PassCollects
  <2>4. PassedIsLegal' <=> PassedIsLegal /\ LegalGroup(ast.same_call)
    BY <2>2, TreeStays, LegalParts DEF PassedIsLegal
  <2> QED BY <2>2, <2>3, <2>4 DEF IInv, Collected
<1>6. ASSUME stage \in Validated, stage' \in Validated, ast' = ast, diagnostics' = diagnostics
      PROVE  Collected' /\ (PassedIsLegal <=> Legal)
  <2>1. (PassedIsLegal <=> Legal) /\ (PassedIsLegal' <=> Legal')
    BY <1>6 DEF PassedIsLegal, Validated
  <2> QED BY <1>0, <1>6, <2>1, TreeStays DEF Collected, Validated
<1>7. CASE Reject
  <2>1. stage = "validated" /\ HasErrors /\ stage' = "rejected" /\ ast' = ast /\ diagnostics' = diagnostics
    BY <1>7 DEF Reject
  <2>2. Collected' /\ (PassedIsLegal <=> Legal)
    BY <1>6, <2>1 DEF Validated
  <2>3. ~Legal'
    BY <1>0, <2>1, <2>2, ErrorsAre, TreeStays
  <2> QED BY <2>1, <2>2, <2>3 DEF IInv
<1>8. CASE Compile
  <2>1. stage = "validated" /\ ~HasErrors /\ ast' = ast /\ diagnostics' = diagnostics
    BY <1>8 DEF Compile
  <2>2. stage' \in {"compiled", "panicked"}
    BY <1>8 DEF Compile
  <2>3. Collected' /\ (PassedIsLegal <=> Legal)
    BY <1>6, <2>1, <2>2 DEF Validated
  <2>4. Legal
    BY <1>0, <2>1, <2>3, ErrorsAre
  <2>5. Expectations <=> Fits(ast.version)
    BY <1>0, <2>4, LegalCompiles DEF Expectations
  <2>6. Legal' /\ CompiledPattern' = CompiledPattern /\ (Fits(ast.version)' <=> Fits(ast.version))
    BY <2>1, <2>4, TreeStays
  <2>7. CASE stage' = "compiled"
    BY <1>8, <2>3, <2>5, <2>6, <2>7 DEF IInv, Compile
  <2>8. CASE stage' = "panicked"
    BY <1>8, <2>3, <2>5, <2>6, <2>8 DEF IInv, Compile
  <2> QED BY <2>2, <2>7, <2>8
<1>9. CASE Rest \/ UNCHANGED vars
  <2>1. UNCHANGED vars
    BY <1>9 DEF Rest
  <2>2. ast' = ast /\ stage' = stage /\ diagnostics' = diagnostics /\ compiled' = compiled
    BY <2>1 DEF vars
  <2>3. PassedIsLegal' <=> PassedIsLegal
    BY <2>2, TreeStays DEF PassedIsLegal
  <2>4. Collected'
    BY <1>0, <2>2, <2>3 DEF IInv, Collected
  <2>5. (Legal' <=> Legal) /\ CompiledPattern' = CompiledPattern /\ (Fits(ast.version)' <=> Fits(ast.version))
    BY <2>2, TreeStays
  <2> QED BY <2>2, <2>4, <2>5 DEF IInv
<1> QED BY <1>1, <1>2, <1>3, <1>4, <1>5, <1>7, <1>8, <1>9 DEF Next

THEOREM Invariance == Spec => []IInv
BY InitCollects, NextCollects, PTL DEF Spec

(* Validation and compilation agree, whatever the tree (validate(), compile()). *)
THEOREM Exactness == Spec => []CompilesExactlyTheLegal
<1>1. IInv => CompilesExactlyTheLegal
  <2> SUFFICES ASSUME IInv PROVE CompilesExactlyTheLegal
    OBVIOUS
  <2>1. stage = "panicked" => ast.version > MaxU32
    <3> SUFFICES ASSUME stage = "panicked" PROVE ast.version > MaxU32
      OBVIOUS
    <3>1. WellMade(ast) /\ Legal /\ ~Fits(ast.version)
      BY DEF IInv, Collected
    <3>2. ast.version \in Int /\ ast.version >= 1
      BY <3>1, TreeParts, LegalCompiles
    <3> QED BY <3>1, <3>2, MaxAssumption DEF Fits
  <2> QED BY <2>1 DEF IInv, CompilesExactlyTheLegal
<1> QED BY <1>1, Invariance, PTL

-----------------------------------------------------------------------------
(* Functions defined from below.                                            *)

(* f[n] is made by rule[n] of what f is below n. *)
FromBelow(f, rule, m) == \A n \in 1 .. m : f[n] = rule[n][[i \in 1 .. n - 1 |-> f[i]]]

(* A function over 1 .. N can be defined by what it is below. *)
LEMMA DefinedFromBelow ==
    ASSUME NEW N \in Nat, NEW V, NEW rule,
           \A n \in 1 .. N : rule[n] \in [[1 .. n - 1 -> V] -> V]
    PROVE  \E f \in [1 .. N -> V] : FromBelow(f, rule, N)
<1> DEFINE T == {m \in 0 .. N : ~ \E f \in [1 .. m -> V] : FromBelow(f, rule, m)}
<1>1. SUFFICES ASSUME T # {} PROVE FALSE
  OBVIOUS
<1>2. PICK m \in T : \A y \in T : m <= y
  <2>1. T \in SUBSET Nat
    OBVIOUS
  <2> HIDE DEF T
  <2> QED BY <1>1, <2>1, MinExists
<1>3. m \in 0 .. N /\ ~ \E f \in [1 .. m -> V] : FromBelow(f, rule, m)
  BY <1>2
<1>4. m # 0
  <2>1. ASSUME m = 0 PROVE FALSE
    <3>1. [i \in 1 .. 0 |-> {}] \in [1 .. m -> V] /\ FromBelow([i \in 1 .. 0 |-> {}], rule, m)
      BY <2>1 DEF FromBelow
    <3> QED BY <1>3, <3>1
  <2> QED BY <2>1
<1>5. m - 1 \in 0 .. N /\ m \in 1 .. N /\ ~(m <= m - 1)
  BY <1>3, <1>4
<1>6. PICK f \in [1 .. m - 1 -> V] : FromBelow(f, rule, m - 1)
  <2>1. m - 1 \notin T
    <3> HIDE DEF T
    <3> QED BY <1>2, <1>5
  <2> QED BY <1>5, <2>1
<1> DEFINE below == [i \in 1 .. m - 1 |-> f[i]]
           last == rule[m][below]
           g == [i \in 1 .. m |-> IF i = m THEN last ELSE f[i]]
<1>7. below \in [1 .. m - 1 -> V] /\ last \in V
  BY <1>5
<1>8. g \in [1 .. m -> V]
  <2> HIDE DEF last
  <2> QED BY <1>5, <1>7
<1>9. g[m] = last /\ \A i \in 1 .. m - 1 : g[i] = f[i]
  <2> HIDE DEF last
  <2> QED BY <1>5
<1>10. ASSUME NEW n \in 1 .. m PROVE g[n] = rule[n][[i \in 1 .. n - 1 |-> g[i]]]
  <2>1. [i \in 1 .. n - 1 |-> g[i]] = [i \in 1 .. n - 1 |-> f[i]]
    <3>1. \A i \in 1 .. n - 1 : i \in 1 .. m - 1
      BY <1>5
    <3> HIDE DEF g
    <3> QED BY <1>9, <3>1
  <2>2. CASE n = m
    BY <1>9, <2>1, <2>2
  <2>3. CASE n # m
    <3>1. n \in 1 .. m - 1
      BY <1>5, <2>3
    <3>2. f[n] = rule[n][[i \in 1 .. n - 1 |-> f[i]]]
      BY <1>6, <3>1 DEF FromBelow
    <3> HIDE DEF g
    <3> QED BY <1>9, <2>1, <3>1, <3>2
  <2> QED BY <2>2, <2>3
<1>11. FromBelow(g, rule, m)
  <2> HIDE DEF g
  <2> QED BY <1>10 DEF FromBelow
<1> QED BY <1>3, <1>8, <1>11

-----------------------------------------------------------------------------
(* Trees whose nodes come after their items.                                *)

ItemsBefore(tree) ==
    \A n \in 1 .. Len(tree) : \A i \in 1 .. Len(tree[n].items) : tree[n].items[i] \in 1 .. n - 1

(* The truth values of the nodes of a compiled constraint. *)
ValuesOf(value, tree, matched) ==
    value = [n \in 1 .. Len(tree) |->
            \/ tree[n].op = "evidence" /\ tree[n].evidence \in matched
            \/ /\ tree[n].op = "and"
               /\ \A i \in 1 .. Len(tree[n].items) : value[tree[n].items[i]]
            \/ /\ tree[n].op = "or"
               /\ \E i \in 1 .. Len(tree[n].items) : value[tree[n].items[i]]
            \/ tree[n].op = "not" /\ ~value[tree[n].items[1]]]

LEMMA HoldsIs ==
    ASSUME NEW tree, NEW matched
    PROVE  Holds(tree, matched) = (CHOOSE value : ValuesOf(value, tree, matched))[Len(tree)]
BY DEF Holds, ValuesOf

ValueAt(value, nodes, names, n) ==
    LET items == {value[i] : i \in Elements(nodes[n].items)}
    IN  CASE nodes[n].op = "REF" -> nodes[n].name \in names
          [] nodes[n].op = "AND" -> FALSE \notin items
          [] nodes[n].op = "OR" -> TRUE \in items
          [] nodes[n].op = "NOT" -> FALSE \in items
MeaningOf(value, nodes, names) == value = [n \in DOMAIN nodes |-> ValueAt(value, nodes, names, n)]

LEMMA MeansIs ==
    ASSUME NEW nodes, NEW names
    PROVE  Means(nodes, names) = (CHOOSE value : MeaningOf(value, nodes, names))[Len(nodes)]
BY DEF Means, MeaningOf, ValueAt

(* The step of a compiled constraint's values at one node. *)
HoldsAt(value, tree, matched, n) ==
    \/ tree[n].op = "evidence" /\ tree[n].evidence \in matched
    \/ /\ tree[n].op = "and"
       /\ \A i \in 1 .. Len(tree[n].items) : value[tree[n].items[i]]
    \/ /\ tree[n].op = "or"
       /\ \E i \in 1 .. Len(tree[n].items) : value[tree[n].items[i]]
    \/ tree[n].op = "not" /\ ~value[tree[n].items[1]]

(* The values of a compiled constraint's nodes, the last of which is its own. *)
Truth(value, tree, matched) ==
    /\ value \in [1 .. Len(tree) -> BOOLEAN]
    /\ \A n \in 1 .. Len(tree) : value[n] <=> HoldsAt(value, tree, matched, n)
    /\ Holds(tree, matched) = value[Len(tree)]

LEMMA HoldsFrom ==
    ASSUME NEW tree, NEW matched, Len(tree) \in Nat, ItemsBefore(tree),
           \A n \in 1 .. Len(tree) : tree[n].op = "not" => Len(tree[n].items) = 1
    PROVE  \E value : Truth(value, tree, matched)
<1> DEFINE N == Len(tree)
           Rule(n) == [g \in [1 .. n - 1 -> BOOLEAN] |-> HoldsAt(g, tree, matched, n)]
           rule == [n \in 1 .. N |-> Rule(n)]
<1>1. \A n \in 1 .. N : rule[n] \in [[1 .. n - 1 -> BOOLEAN] -> BOOLEAN]
  <2> TAKE n \in 1 .. N
  <2>1. \A g : HoldsAt(g, tree, matched, n) \in BOOLEAN
    BY DEF HoldsAt
  <2> HIDE DEF N
  <2> QED BY <2>1
<1> HIDE DEF rule
<1>2. PICK f \in [1 .. N -> BOOLEAN] : FromBelow(f, rule, N)
  <2> HIDE DEF N
  <2>1. N \in Nat
    BY DEF N
  <2> QED BY <1>1, <2>1, DefinedFromBelow
<1>3. ASSUME NEW n \in 1 .. N PROVE f[n] = HoldsAt(f, tree, matched, n)
  <2> DEFINE g == [i \in 1 .. n - 1 |-> f[i]]
  <2>1. f[n] = rule[n][g]
    BY <1>2 DEF FromBelow
  <2>2. g \in [1 .. n - 1 -> BOOLEAN] /\ \A i \in 1 .. n - 1 : g[i] = f[i]
    OBVIOUS
  <2> HIDE DEF g
  <2>3. f[n] = HoldsAt(g, tree, matched, n)
    BY <2>1, <2>2, Zenon DEF rule
  <2>4. \A i \in 1 .. Len(tree[n].items) : g[tree[n].items[i]] = f[tree[n].items[i]]
    BY <2>2 DEF ItemsBefore
  <2>5. tree[n].op = "not" => 1 \in 1 .. Len(tree[n].items)
    OBVIOUS
  <2>6. HoldsAt(g, tree, matched, n) = HoldsAt(f, tree, matched, n)
    BY <2>4, <2>5 DEF HoldsAt
  <2> QED BY <2>3, <2>6
<1>4. ValuesOf(f, tree, matched)
  <2>1. f = [n \in 1 .. N |-> HoldsAt(f, tree, matched, n)]
    <3>1. f = [n \in 1 .. N |-> f[n]]
      OBVIOUS
    <3> HIDE DEF N
    <3> QED BY <1>3, <3>1
  <2> QED BY <2>1 DEF ValuesOf, HoldsAt
<1> DEFINE value == CHOOSE v : ValuesOf(v, tree, matched)
<1>5. ValuesOf(value, tree, matched)
  BY <1>4
<1> HIDE DEF value
<1>6. value = [n \in 1 .. N |-> HoldsAt(value, tree, matched, n)]
  BY <1>5 DEF ValuesOf, HoldsAt
<1>7. \A n \in 1 .. N : value[n] = HoldsAt(value, tree, matched, n)
  <2> HIDE DEF N
  <2> QED BY <1>6
<1>8. \A n \in 1 .. N : HoldsAt(value, tree, matched, n) \in BOOLEAN
  BY DEF HoldsAt
<1>9. value \in [1 .. N -> BOOLEAN]
  <2> HIDE DEF N
  <2> QED BY <1>6, <1>8
<1>10. Holds(tree, matched) = value[N]
  BY HoldsIs DEF value
<1>11. Truth(value, tree, matched)
  BY <1>7, <1>9, <1>10 DEF Truth
<1> QED BY <1>11

LEMMA MeansFrom ==
    ASSUME NEW nodes \in Seq(TreeNodes), NEW names, ChildrenFirst(nodes)
    PROVE  \E value \in [1 .. Len(nodes) -> BOOLEAN] :
                /\ \A n \in 1 .. Len(nodes) : value[n] = ValueAt(value, nodes, names, n)
                /\ Means(nodes, names) = value[Len(nodes)]
<1> DEFINE N == Len(nodes)
           Rule(n) == [g \in [1 .. n - 1 -> BOOLEAN] |-> ValueAt(g, nodes, names, n)]
           rule == [n \in 1 .. N |-> Rule(n)]
<1>0. /\ N \in Nat /\ DOMAIN nodes = 1 .. N
      /\ \A n \in 1 .. N : nodes[n].op \in {"REF", "AND", "OR", "NOT"}
  <2>1. N \in Nat /\ DOMAIN nodes = 1 .. N /\ \A n \in 1 .. N : nodes[n] \in TreeNodes
    OBVIOUS
  <2> HIDE DEF N
  <2> QED BY <2>1 DEF TreeNodes
<1>1. ASSUME NEW n \in 1 .. N, NEW g PROVE ValueAt(g, nodes, names, n) \in BOOLEAN
  <2> DEFINE items == {g[i] : i \in Elements(nodes[n].items)}
  <2>1. CASE nodes[n].op = "REF"
    <3>1. ValueAt(g, nodes, names, n) = (nodes[n].name \in names)
      BY <2>1 DEF ValueAt
    <3> QED BY <3>1
  <2>2. CASE nodes[n].op = "AND"
    <3>1. ValueAt(g, nodes, names, n) = (FALSE \notin items)
      BY <2>2 DEF ValueAt
    <3> QED BY <3>1
  <2>3. CASE nodes[n].op = "OR"
    <3>1. ValueAt(g, nodes, names, n) = (TRUE \in items)
      BY <2>3 DEF ValueAt
    <3> QED BY <3>1
  <2>4. CASE nodes[n].op = "NOT"
    <3>1. ValueAt(g, nodes, names, n) = (FALSE \in items)
      BY <2>4 DEF ValueAt
    <3> QED BY <3>1
  <2> QED BY <1>0, <2>1, <2>2, <2>3, <2>4
<1>2. \A n \in 1 .. N : rule[n] \in [[1 .. n - 1 -> BOOLEAN] -> BOOLEAN]
  <2> HIDE DEF N
  <2> QED BY <1>1
<1> HIDE DEF rule
<1>3. PICK f \in [1 .. N -> BOOLEAN] : FromBelow(f, rule, N)
  <2> HIDE DEF N
  <2> QED BY <1>0, <1>2, DefinedFromBelow
<1>4. ASSUME NEW n \in 1 .. N PROVE f[n] = ValueAt(f, nodes, names, n)
  <2> DEFINE g == [i \in 1 .. n - 1 |-> f[i]]
  <2>1. f[n] = rule[n][g]
    BY <1>3 DEF FromBelow
  <2>2. g \in [1 .. n - 1 -> BOOLEAN] /\ \A i \in 1 .. n - 1 : g[i] = f[i]
    BY <1>0
  <2> HIDE DEF g
  <2>3. f[n] = ValueAt(g, nodes, names, n)
    BY <2>1, <2>2, Zenon DEF rule
  <2>4. \A i \in Elements(nodes[n].items) : g[i] = f[i]
    BY <2>2 DEF ChildrenFirst, Elements
  <2>5. {g[i] : i \in Elements(nodes[n].items)} = {f[i] : i \in Elements(nodes[n].items)}
    BY <2>4
  <2>6. ValueAt(g, nodes, names, n) = ValueAt(f, nodes, names, n)
    BY <2>5, Zenon DEF ValueAt
  <2> QED BY <2>3, <2>6
<1>5. MeaningOf(f, nodes, names)
  <2>1. f = [n \in 1 .. N |-> f[n]]
    OBVIOUS
  <2> HIDE DEF N
  <2> QED BY <1>0, <1>4, <2>1 DEF MeaningOf
<1> DEFINE value == CHOOSE v : MeaningOf(v, nodes, names)
<1>6. MeaningOf(value, nodes, names)
  BY <1>5
<1> HIDE DEF value
<1>7. value = [n \in 1 .. N |-> ValueAt(value, nodes, names, n)]
  BY <1>0, <1>6, Zenon DEF MeaningOf
<1>8. value \in [1 .. N -> BOOLEAN] /\ \A n \in 1 .. N : value[n] = ValueAt(value, nodes, names, n)
  <2> HIDE DEF N
  <2> QED BY <1>1, <1>7
<1>9. Means(nodes, names) = value[N]
  BY MeansIs DEF value
<1> QED BY <1>8, <1>9

(* The clauses a tree names under either sign. *)
LeavesAt(leaves, tree, n) ==
    [positive \in BOOLEAN |->
        IF tree[n].op = "evidence"
        THEN IF positive THEN <<tree[n].evidence>> ELSE <<>>
        ELSE IF tree[n].op = "not" THEN leaves[tree[n].items[1]][~positive]
        ELSE FlattenSeq([i \in 1 .. Len(tree[n].items) |-> leaves[tree[n].items[i]][positive]])]
LeavesOf(leaves, tree) == leaves = [n \in 1 .. Len(tree) |-> LeavesAt(leaves, tree, n)]

LEMMA LeavesIs ==
    ASSUME NEW tree, NEW sign
    PROVE  LeavesOfSign(tree, sign) = (CHOOSE leaves : LeavesOf(leaves, tree))[Len(tree)][sign]
BY DEF LeavesOfSign, LeavesOf, LeavesAt

LEMMA LeavesFrom ==
    ASSUME NEW X, NEW tree, Len(tree) \in Nat \ {0}, ItemsBefore(tree),
           \A n \in 1 .. Len(tree) :
                /\ Len(tree[n].items) \in Nat
                /\ tree[n].op = "not" => Len(tree[n].items) = 1
                /\ tree[n].op = "evidence" => tree[n].evidence \in X
    PROVE  \A sign \in BOOLEAN : LeavesOfSign(tree, sign) \in Seq(X)
<1> DEFINE N == Len(tree)
           V == [BOOLEAN -> Seq(X)]
           Rule(n) == [g \in [1 .. n - 1 -> V] |-> LeavesAt(g, tree, n)]
           rule == [n \in 1 .. N |-> Rule(n)]
<1>1. ASSUME NEW n \in 1 .. N, NEW g, \A i \in 1 .. n - 1 : g[i] \in V
      PROVE  LeavesAt(g, tree, n) \in V
  <2> SUFFICES ASSUME NEW positive \in BOOLEAN PROVE LeavesAt(g, tree, n)[positive] \in Seq(X)
    BY DEF LeavesAt
  <2>1. CASE tree[n].op = "evidence"
    <3>1. tree[n].evidence \in X
      BY <2>1
    <3>2. <<tree[n].evidence>> \in Seq(X) /\ <<>> \in Seq(X)
      BY <3>1
    <3> QED BY <2>1, <3>2 DEF LeavesAt
  <2>2. CASE tree[n].op = "not"
    <3>1. tree[n].items[1] \in 1 .. n - 1
      BY <2>2 DEF ItemsBefore
    <3>2. g[tree[n].items[1]] \in V
      BY <1>1, <3>1, Zenon
    <3>5. (~positive) \in BOOLEAN
      OBVIOUS
    <3>3. g[tree[n].items[1]][~positive] \in Seq(X)
      BY <3>2, <3>5
    <3>4. LeavesAt(g, tree, n)[positive] = g[tree[n].items[1]][~positive]
      BY <2>2 DEF LeavesAt
    <3> QED BY <3>3, <3>4
  <2>3. CASE tree[n].op \notin {"evidence", "not"}
    <3> DEFINE seqs == [i \in 1 .. Len(tree[n].items) |-> g[tree[n].items[i]][positive]]
    <3>1. \A i \in 1 .. Len(tree[n].items) : g[tree[n].items[i]][positive] \in Seq(X)
      <4> TAKE i \in 1 .. Len(tree[n].items)
      <4>1. g[tree[n].items[i]] \in V
        BY <1>1 DEF ItemsBefore
      <4> QED BY <4>1
    <3>2. seqs \in Seq(Seq(X))
      BY <3>1
    <3>3. LeavesAt(g, tree, n)[positive] = FlattenSeq(seqs)
      BY <2>3 DEF LeavesAt
    <3> HIDE DEF seqs
    <3> QED BY <3>2, <3>3, FlattenSeqLists
  <2> QED BY <2>1, <2>2, <2>3
<1> HIDE DEF V
<1>2. \A n \in 1 .. N : rule[n] \in [[1 .. n - 1 -> V] -> V]
  <2> HIDE DEF N
  <2> QED BY <1>1
<1> HIDE DEF rule
<1>3. PICK f \in [1 .. N -> V] : FromBelow(f, rule, N)
  <2> HIDE DEF N
  <2>1. N \in Nat
    BY DEF N
  <2> QED BY <2>1, <1>2, DefinedFromBelow
<1>4. ASSUME NEW n \in 1 .. N PROVE f[n] = LeavesAt(f, tree, n)
  <2> DEFINE g == [i \in 1 .. n - 1 |-> f[i]]
  <2>1. f[n] = rule[n][g]
    BY <1>3 DEF FromBelow
  <2>2. g \in [1 .. n - 1 -> V] /\ \A i \in 1 .. n - 1 : g[i] = f[i]
    OBVIOUS
  <2> HIDE DEF g
  <2>3. f[n] = LeavesAt(g, tree, n)
    BY <2>1, <2>2, Zenon DEF rule
  <2>4. \A i \in 1 .. Len(tree[n].items) : g[tree[n].items[i]] = f[tree[n].items[i]]
    BY <2>2 DEF ItemsBefore
  <2>5. tree[n].op = "not" => g[tree[n].items[1]] = f[tree[n].items[1]]
    BY <2>4
  <2>6. \A positive \in BOOLEAN :
            [i \in 1 .. Len(tree[n].items) |-> g[tree[n].items[i]][positive]]
                = [i \in 1 .. Len(tree[n].items) |-> f[tree[n].items[i]][positive]]
    BY <2>4
  <2>7. LeavesAt(g, tree, n) = LeavesAt(f, tree, n)
    BY <2>5, <2>6 DEF LeavesAt
  <2> QED BY <2>3, <2>7
<1>5. LeavesOf(f, tree)
  <2>1. f = [n \in 1 .. N |-> f[n]]
    OBVIOUS
  <2> HIDE DEF N
  <2>2. f = [n \in 1 .. N |-> LeavesAt(f, tree, n)]
    BY <1>4, <2>1
  <2> QED BY <2>2 DEF LeavesOf, N
<1> DEFINE leaves == CHOOSE v : LeavesOf(v, tree)
<1>6. LeavesOf(leaves, tree)
  BY <1>5
<1> HIDE DEF leaves
<1>7. \A n \in 1 .. N : leaves[n] = LeavesAt(leaves, tree, n)
  <2>1. leaves = [n \in 1 .. N |-> LeavesAt(leaves, tree, n)]
    BY <1>6, Zenon DEF LeavesOf
  <2> HIDE DEF N
  <2> QED BY <2>1
<1>8. \A n \in 1 .. N : leaves[n] \in V
  <2> DEFINE T == {n \in 1 .. N : leaves[n] \notin V}
  <2>1. SUFFICES ASSUME T # {} PROVE FALSE
    OBVIOUS
  <2>2. PICK n \in T : \A y \in T : n <= y
    <3>1. T \in SUBSET Nat
      OBVIOUS
    <3> HIDE DEF T
    <3> QED BY <2>1, <3>1, MinExists
  <2>3. n \in 1 .. N /\ leaves[n] \notin V
    BY <2>2
  <2>4. \A i \in 1 .. n - 1 : leaves[i] \in V
    <3> TAKE i \in 1 .. n - 1
    <3>1. i \in 1 .. N /\ ~(n <= i)
      BY <2>3
    <3>2. i \notin T
      <4> HIDE DEF T
      <4> QED BY <2>2, <3>1
    <3> QED BY <3>1, <3>2
  <2> HIDE DEF T
  <2>5. LeavesAt(leaves, tree, n) \in V
    BY <1>1, <2>3, <2>4
  <2> QED BY <1>7, <2>3, <2>5
<1>9. leaves[N] \in V
  <2>1. N \in 1 .. N
    OBVIOUS
  <2> QED BY <1>8, <2>1
<1>10. \A sign \in BOOLEAN : leaves[N][sign] \in Seq(X)
  BY <1>9 DEF V
<1>11. \A sign : LeavesOfSign(tree, sign) = leaves[N][sign]
  BY LeavesIs DEF leaves
<1> QED BY <1>10, <1>11

-----------------------------------------------------------------------------
(* What compile() keeps: names, windows and strings.                        *)

(* A declared name resolves to the one declaration of that name. *)
LEMMA ResolveIs ==
    ASSUME WellMade(ast), Distinct(EvidenceNames), NEW name \in Elements(EvidenceNames)
    PROVE  /\ Resolve(name) \in 1 .. Len(ast.evidence)
           /\ ast.evidence[Resolve(name)].name = name
           /\ \A i \in 1 .. Len(ast.evidence) : ast.evidence[i].name = name => i = Resolve(name)
<1> DEFINE n == Len(ast.evidence)
           I == {i \in 1 .. n : EvidenceNames[i] = name}
<1>1. /\ n \in Nat /\ Len(EvidenceNames) = n /\ DOMAIN EvidenceNames = 1 .. n
      /\ \A i \in 1 .. n : EvidenceNames[i] = ast.evidence[i].name
  BY DeclarationParts
<1>2. I # {}
  BY <1>1 DEF Elements
<1>3. Resolve(name) = CHOOSE x \in I : \A y \in I : x <= y
  BY <1>1, <1>2 DEF Resolve, SelectInSeq, Min
<1>4. \E x \in I : \A y \in I : x <= y
  <2>1. I \in SUBSET Nat
    BY <1>1
  <2> HIDE DEF I
  <2> QED BY <1>2, <2>1, MinExists
<1>5. Resolve(name) \in I
  <2> HIDE DEF I
  <2> QED BY <1>3, <1>4
<1>6. \A i \in 1 .. n : EvidenceNames[i] = name => i = Resolve(name)
  BY <1>1, <1>5 DEF Distinct
<1> QED BY <1>1, <1>5, <1>6

(* The steps and the members are the clauses named. *)
LEMMA NamesKept ==
    ASSUME WellMade(ast), Legal, compiled = CompiledPattern,
           NEW items \in Seq(STRING), Elements(items) \subseteq Elements(EvidenceNames)
    PROVE  NamesAt(ResolveAll(items)) = items
<1> DEFINE n == Len(items)
           places == ResolveAll(items)
<1>1. n \in Nat /\ DOMAIN items = 1 .. n /\ items = [i \in 1 .. n |-> items[i]]
  BY NamesOf
<1>2. DOMAIN places = 1 .. n /\ \A i \in 1 .. n : places[i] = Resolve(items[i])
  BY <1>1 DEF ResolveAll
<1>3. compiled.evidence = ast.evidence
  BY DEF CompiledPattern
<1>4. \A i \in 1 .. n : ast.evidence[places[i]].name = items[i]
  <2> TAKE i \in 1 .. n
  <2>1. items[i] \in Elements(EvidenceNames) /\ Distinct(EvidenceNames)
    BY DEF Elements, Legal
  <2>2. ast.evidence[Resolve(items[i])].name = items[i]
    BY <2>1, ResolveIs
  <2> QED BY <1>2, <2>2
<1> HIDE DEF places, n
<1>5. NamesAt(places) = [i \in 1 .. n |-> ast.evidence[places[i]].name]
  BY <1>2, <1>3 DEF NamesAt
<1>6. NamesAt(places) = [i \in 1 .. n |-> items[i]]
  BY <1>4, <1>5
<1>7. NamesAt(places) = items
  BY <1>1, <1>6, Zenon
<1> QED BY <1>7 DEF places

LEMMA FittingAre ==
    ASSUME NEW window \in Seq(Int)
    PROVE  \A w \in Elements(window) : Fits(w) => w \in Elements(Fitting(window))
<1> DEFINE selected == {i \in 1 .. Len(window) : Fits(window[i])}
           seqs == [i \in 1 .. Len(window) |-> IF i \in selected THEN <<window[i]>> ELSE <<>>]
<1>1. /\ Len(window) \in Nat /\ selected \in SUBSET (1 .. Len(window))
      /\ DOMAIN window = 1 .. Len(window) /\ \A i \in selected : window[i] \in Int
  OBVIOUS
<1>2. Fitting(window) = FlattenSeq(seqs)
  <2>1. seqs = [i \in DOMAIN window |-> When(Fits(window[i]), <<window[i]>>)]
    BY <1>1 DEF When
  <2> HIDE DEF seqs
  <2> QED BY <2>1 DEF Fitting, ForEach
<1>3. seqs = [i \in 1 .. Len(window) |-> IF i \in selected THEN <<window[i]>> ELSE <<>>]
  OBVIOUS
<1>4. \A i \in 1 .. Len(window) : i \in selected <=> Fits(window[i])
  OBVIOUS
<1> HIDE DEF selected, seqs
<1>5. Picks(FlattenSeq(seqs), Int, window, selected)
  BY <1>1, <1>3, SelectedElements, Zenon
<1>6. ASSUME NEW i \in 1 .. Len(window), Fits(window[i]) PROVE window[i] \in Elements(Fitting(window))
  <2>1. i \in selected
    BY <1>4, <1>6
  <2> QED BY <1>2, <1>5, <2>1, Zenon DEF Picks
<1> QED BY <1>6 DEF Elements

(* A list keeps its strings, once each. *)
LEMMA OnceEach ==
    ASSUME NEW list \in Seq(STRING), NEW out,
           out = ForEach(list, LAMBDA i : When(~Repeats(list, i), <<list[i]>>))
    PROVE  Distinct(out) /\ Elements(out) = Elements(list)
<1> DEFINE n == Len(list)
           selected == {i \in 1 .. n : ~Repeats(list, i)}
           seqs == [i \in 1 .. n |-> IF i \in selected THEN <<list[i]>> ELSE <<>>]
<1>1. /\ n \in Nat /\ selected \in SUBSET (1 .. n)
      /\ DOMAIN list = 1 .. n /\ \A i \in selected : list[i] \in STRING
  OBVIOUS
<1>2. out = FlattenSeq(seqs)
  <2>1. seqs = [i \in DOMAIN list |-> When(~Repeats(list, i), <<list[i]>>)]
    BY <1>1 DEF When
  <2> HIDE DEF seqs
  <2> QED BY <2>1 DEF ForEach
<1>3. seqs = [i \in 1 .. n |-> IF i \in selected THEN <<list[i]>> ELSE <<>>]
  OBVIOUS
<1>4. \A i \in 1 .. n : i \in selected <=> ~Repeats(list, i)
  OBVIOUS
<1> HIDE DEF selected, seqs, n
<1>5. out \in Seq(STRING) /\ \E row : Keeps(out, row, list, n, selected)
  <2>1. FlattenSeq(seqs) \in Seq(STRING) /\ \E row : Keeps(FlattenSeq(seqs), row, list, n, selected)
    BY <1>1, <1>3, FlattenSelected, Zenon
  <2> QED BY <1>2, <2>1, Zenon
<1>6. PICK row : Keeps(out, row, list, n, selected)
  BY <1>5
<1>7. /\ \A k \in 1 .. Len(out) : row[k] \in selected /\ out[k] = list[row[k]]
      /\ \A k, l \in 1 .. Len(out) : k < l => row[k] < row[l]
  BY <1>6 DEF Keeps
<1>8. DOMAIN out = 1 .. Len(out) /\ Len(out) \in Nat
  BY <1>5
<1>9. ASSUME NEW k \in 1 .. Len(out), NEW l \in 1 .. Len(out), k < l PROVE out[k] # out[l]
  <2>1. /\ row[k] \in 1 .. n /\ row[l] \in 1 .. n /\ row[k] < row[l]
        /\ out[k] = list[row[k]] /\ out[l] = list[row[l]] /\ ~Repeats(list, row[l])
    BY <1>1, <1>4, <1>7, <1>9
  <2>2. row[k] \in 1 .. row[l] - 1
    BY <1>1, <2>1
  <2> QED BY <2>1, <2>2 DEF Repeats
<1>10. Distinct(out)
  <2>1. \A k, l \in 1 .. Len(out) : k # l => k < l \/ l < k
    BY <1>8
  <2>2. \A k, l \in 1 .. Len(out) : k < l => out[k] # out[l]
    BY <1>9
  <2>3. ASSUME NEW k \in 1 .. Len(out), NEW l \in 1 .. Len(out), out[k] = out[l] PROVE k = l
    <3>1. ~(k < l)
      BY <2>2, <2>3
    <3>2. ~(l < k)
      BY <2>2, <2>3
    <3> QED BY <2>1, <3>1, <3>2
  <2> QED BY <1>8, <2>3 DEF Distinct
<1>11. ASSUME NEW i \in 1 .. n PROVE \E j \in selected : list[j] = list[i]
  <2> DEFINE S == {j \in 1 .. n : list[j] = list[i]}
  <2>1. S \in SUBSET Nat /\ S # {}
    BY <1>1
  <2>2. PICK j \in S : \A y \in S : j <= y
    <3> HIDE DEF S
    <3> QED BY <2>1, MinExists
  <2>3. j \in 1 .. n /\ list[j] = list[i]
    BY <2>2
  <2>4. ~Repeats(list, j)
    <3>1. ASSUME NEW k \in 1 .. j - 1, list[k] = list[j] PROVE FALSE
      <4>1. k \in S /\ ~(j <= k)
        BY <1>1, <2>3, <3>1
      <4> HIDE DEF S
      <4> QED BY <2>2, <4>1
    <3> QED BY <3>1 DEF Repeats
  <2> QED BY <1>4, <2>3, <2>4
<1>12. Picks(out, STRING, list, selected)
  BY <1>1, <1>2, <1>3, SelectedElements, Zenon
<1>13. \A x : x \in Elements(list) <=> \E i \in 1 .. n : x = list[i]
  BY DEF Elements, n
<1>14. \A x : x \in Elements(out) <=> x \in Elements(list)
  BY <1>1, <1>11, <1>12, <1>13 DEF Picks
<1>15. Elements(out) = Elements(list)
  BY <1>14
<1> QED BY <1>10, <1>15

LEMMA StringsKept ==
    ASSUME WellMade(ast), Legal, NEW e \in Elements(ast.metadata), e.key \in {"tags", "references"}
    PROVE  Distinct(Strings(e.key)) /\ Elements(Strings(e.key)) = Elements(e.value.items)
<1>1. ast.metadata \in Seq(Entries) /\ Distinct(Keys)
  BY TreeParts DEF Legal
<1>2. PICK i \in 1 .. Len(ast.metadata) : e = ast.metadata[i]
  BY DEF Elements
<1>3. e \in Entries /\ e.value.items \in Seq(STRING)
  <2>1. e \in Entries
    BY <1>1, <1>2
  <2> QED BY <2>1 DEF Entries
<1>4. \A v : v \in Values(e.key) <=> v = e.value
  BY <1>1, <1>2, ValueOf
<1>5. LegalEntry(e)
  BY DEF Legal
<1>6. e.value.shape = "StrList"
  BY <1>5 DEF LegalEntry
<1> DEFINE lists == {v.items : v \in {w \in Values(e.key) : w.shape = "StrList"}}
           list == IF lists = {} THEN <<>> ELSE CHOOSE l \in lists : TRUE
<1>7. lists = {e.value.items}
  BY <1>4, <1>6
<1>8. list = e.value.items
  <2> HIDE DEF lists
  <2> QED BY <1>7
<1>9. Strings(e.key) = ForEach(list, LAMBDA j : When(~Repeats(list, j), <<list[j]>>))
  BY DEF Strings
<1> HIDE DEF list
<1>10. list \in Seq(STRING)
  BY <1>3, <1>8
<1>11. Distinct(Strings(e.key)) /\ Elements(Strings(e.key)) = Elements(list)
  BY <1>9, <1>10, OnceEach
<1> QED BY <1>8, <1>11

-----------------------------------------------------------------------------
(* What a compiled constraint says.                                         *)

(* A compiled constraint whose leaves are among X: the shape the two walks
   over it need. *)
Shaped(tree, X) ==
    /\ Len(tree) \in Nat \ {0}
    /\ ItemsBefore(tree)
    /\ \A n \in 1 .. Len(tree) :
        /\ Len(tree[n].items) \in Nat
        /\ tree[n].op = "not" => Len(tree[n].items) = 1
        /\ tree[n].op = "evidence" => tree[n].evidence \in X

(* compile_bool_expr, node for node. *)
LEMMA CompiledNode ==
    ASSUME NEW node \in TreeNodes
    PROVE  /\ node.op = "REF" => Compiled(node) = Evidence(Resolve(node.name))
           /\ node.op = "AND" => Compiled(node) = And(node.items)
           /\ node.op = "OR" => Compiled(node) = Or(node.items)
           /\ node.op = "NOT" => Compiled(node) = Not(node.items[1])
           /\ node.op \in {"REF", "AND", "OR", "NOT"} /\ node.items \in Seq(Nat)
           /\ node.name \in STRING
<1>1. CASE node.op = "REF"
  BY <1>1 DEF Compiled, TreeNodes
<1>2. CASE node.op = "AND"
  BY <1>2 DEF Compiled, TreeNodes
<1>3. CASE node.op = "OR"
  BY <1>3 DEF Compiled, TreeNodes
<1>4. CASE node.op = "NOT"
  BY <1>4 DEF Compiled, TreeNodes
<1> QED BY <1>1, <1>2, <1>3, <1>4 DEF TreeNodes

LEMMA CompiledShape ==
    ASSUME WellMade(ast), Distinct(EvidenceNames),
           NEW nodes \in Seq(TreeNodes), ChildrenFirst(nodes),
           Elements(Refs(nodes)) \subseteq Elements(EvidenceNames),
           NEW tree, tree = [n \in DOMAIN nodes |-> Compiled(nodes[n])]
    PROVE  Shaped(tree, 1 .. Len(ast.evidence))
<1> DEFINE N == Len(nodes)
<1>1. /\ N \in Nat \ {0} /\ Len(tree) = N
      /\ \A n \in 1 .. N : tree[n] = Compiled(nodes[n]) /\ nodes[n] \in TreeNodes
  <2>1. N \in Nat /\ DOMAIN nodes = 1 .. N /\ nodes # <<>>
    BY DEF ChildrenFirst
  <2> QED BY <2>1
<1>2. ASSUME NEW n \in 1 .. N
      PROVE  /\ \A i \in 1 .. Len(tree[n].items) : tree[n].items[i] \in 1 .. n - 1
             /\ Len(tree[n].items) \in Nat
             /\ tree[n].op = "not" => Len(tree[n].items) = 1
             /\ tree[n].op = "evidence" => tree[n].evidence \in 1 .. Len(ast.evidence)
  <2> DEFINE node == nodes[n]
  <2>1. /\ node \in TreeNodes /\ tree[n] = Compiled(node)
        /\ \A i \in 1 .. Len(node.items) : node.items[i] \in 1 .. n - 1
        /\ node.op = "NOT" => Len(node.items) = 1
        /\ node.op = "REF" => node.name \in Elements(Refs(nodes))
    BY <1>1, RefsAre DEF ChildrenFirst
  <2> HIDE DEF node
  <2>2. CASE node.op = "REF"
    <3>1. Resolve(node.name) \in 1 .. Len(ast.evidence)
      BY <2>1, <2>2, ResolveIs
    <3>2. tree[n] = Evidence(Resolve(node.name))
      BY <2>1, <2>2, CompiledNode
    <3> QED BY <3>1, <3>2 DEF Evidence
  <2>3. CASE node.op = "AND"
    <3>1. tree[n] = And(node.items) /\ Len(node.items) \in Nat
      BY <2>1, <2>3, CompiledNode
    <3> QED BY <2>1, <3>1 DEF And
  <2>4. CASE node.op = "OR"
    <3>1. tree[n] = Or(node.items) /\ Len(node.items) \in Nat
      BY <2>1, <2>4, CompiledNode
    <3> QED BY <2>1, <3>1 DEF Or
  <2>5. CASE node.op = "NOT"
    <3>1. tree[n] = Not(node.items[1]) /\ node.items[1] \in 1 .. n - 1
      BY <2>1, <2>5, CompiledNode
    <3> QED BY <3>1 DEF Not
  <2> QED BY <2>1, <2>2, <2>3, <2>4, <2>5, CompiledNode
<1> QED BY <1>1, <1>2 DEF Shaped, ItemsBefore

(* A declared name is among the names of the places that hold if and only if
   its own place holds. *)
LEMMA NameHolds ==
    ASSUME WellMade(ast), Distinct(EvidenceNames),
           NEW places \in SUBSET (1 .. Len(ast.evidence)), NEW name \in Elements(EvidenceNames)
    PROVE  Resolve(name) \in places <=> name \in {ast.evidence[i].name : i \in places}
<1>1. /\ Resolve(name) \in 1 .. Len(ast.evidence) /\ ast.evidence[Resolve(name)].name = name
      /\ \A i \in 1 .. Len(ast.evidence) : ast.evidence[i].name = name => i = Resolve(name)
  BY ResolveIs
<1> QED BY <1>1

(* The truth values among those of a set. *)
LEMMA Bools ==
    ASSUME NEW S, NEW f, \A i \in S : f[i] \in BOOLEAN, NEW items, items = {f[i] : i \in S}
    PROVE  /\ FALSE \in items <=> \E i \in S : ~f[i]
           /\ TRUE \in items <=> \E i \in S : f[i]
<1>1. ASSUME NEW i \in S, ~f[i] PROVE FALSE \in items
  <2>1. f[i] = FALSE
    BY <1>1
  <2> QED BY <2>1, Zenon
<1>2. ASSUME FALSE \in items PROVE \E i \in S : ~f[i]
  <2>1. PICK i \in S : FALSE = f[i]
    BY <1>2, Zenon
  <2> QED BY <2>1
<1>3. ASSUME NEW i \in S, f[i] PROVE TRUE \in items
  <2>1. f[i] = TRUE
    BY <1>3
  <2> QED BY <2>1, Zenon
<1>4. ASSUME TRUE \in items PROVE \E i \in S : f[i]
  <2>1. PICK i \in S : TRUE = f[i]
    BY <1>4, Zenon
  <2> QED BY <2>1
<1> QED BY <1>1, <1>2, <1>3, <1>4, Zenon

(* The compiled constraint holds of the clauses the written one holds of. *)
LEMMA SameTruth ==
    ASSUME WellMade(ast), Distinct(EvidenceNames),
           NEW nodes \in Seq(TreeNodes), ChildrenFirst(nodes),
           Elements(Refs(nodes)) \subseteq Elements(EvidenceNames),
           NEW tree, tree = [n \in DOMAIN nodes |-> Compiled(nodes[n])],
           NEW places \in SUBSET (1 .. Len(ast.evidence)),
           NEW names, names = {ast.evidence[i].name : i \in places}
    PROVE  Holds(tree, places) = Means(nodes, names)
<1> DEFINE N == Len(nodes)
<1>1. /\ N \in Nat \ {0} /\ Len(tree) = N
      /\ \A n \in 1 .. N : tree[n] = Compiled(nodes[n]) /\ nodes[n] \in TreeNodes
  <2>1. N \in Nat /\ DOMAIN nodes = 1 .. N /\ nodes # <<>>
    BY DEF ChildrenFirst
  <2> QED BY <2>1
<1>2. Shaped(tree, 1 .. Len(ast.evidence))
  BY CompiledShape
<1>3. PICK held \in [1 .. N -> BOOLEAN] :
        /\ \A n \in 1 .. N : held[n] <=> HoldsAt(held, tree, places, n)
        /\ Holds(tree, places) = held[N]
  <2>1. /\ Len(tree) \in Nat /\ ItemsBefore(tree)
        /\ \A n \in 1 .. Len(tree) : tree[n].op = "not" => Len(tree[n].items) = 1
    BY <1>2 DEF Shaped
  <2>2. \E value : Truth(value, tree, places)
    BY <2>1, HoldsFrom, Zenon
  <2>3. Len(tree) = N
    BY <1>1
  <2> HIDE DEF N
  <2> QED BY <2>2, <2>3, Zenon DEF Truth
<1>4. PICK meant \in [1 .. N -> BOOLEAN] :
        /\ \A n \in 1 .. N : meant[n] = ValueAt(meant, nodes, names, n)
        /\ Means(nodes, names) = meant[N]
  BY MeansFrom
<1>5. ASSUME NEW n \in 1 .. N, \A i \in 1 .. n - 1 : held[i] = meant[i]
      PROVE  held[n] = meant[n]
  <2> DEFINE node == nodes[n]
             items == {meant[i] : i \in Elements(node.items)}
  <2>1. /\ node \in TreeNodes /\ tree[n] = Compiled(node)
        /\ \A i \in 1 .. Len(node.items) : node.items[i] \in 1 .. n - 1
        /\ node.op = "NOT" => Len(node.items) = 1
        /\ node.op = "REF" => node.name \in Elements(Refs(nodes))
    BY <1>1, RefsAre DEF ChildrenFirst
  <2>2. held[n] \in BOOLEAN /\ meant[n] \in BOOLEAN /\ (held[n] <=> HoldsAt(held, tree, places, n))
    BY <1>3, <1>4
  <2>3. \A i \in 1 .. Len(node.items) :
            held[node.items[i]] = meant[node.items[i]] /\ meant[node.items[i]] \in BOOLEAN
    BY <1>4, <1>5, <2>1
  <2>10. \A i \in Elements(node.items) : meant[i] \in BOOLEAN
    BY <2>3 DEF Elements
  <2>11. /\ FALSE \in items <=> \E i \in Elements(node.items) : ~meant[i]
         /\ TRUE \in items <=> \E i \in Elements(node.items) : meant[i]
    BY <2>10, Bools, Zenon
  <2>4. /\ FALSE \in items <=> \E i \in 1 .. Len(node.items) : ~meant[node.items[i]]
        /\ TRUE \in items <=> \E i \in 1 .. Len(node.items) : meant[node.items[i]]
    <3>1. \A j : j \in Elements(node.items) <=> \E i \in 1 .. Len(node.items) : j = node.items[i]
      BY DEF Elements
    <3> HIDE DEF items
    <3>2. (\E j \in Elements(node.items) : ~meant[j])
            <=> \E i \in 1 .. Len(node.items) : ~meant[node.items[i]]
      BY <3>1
    <3>3. (\E j \in Elements(node.items) : meant[j])
            <=> \E i \in 1 .. Len(node.items) : meant[node.items[i]]
      BY <3>1
    <3>4. FALSE \in items <=> \E i \in 1 .. Len(node.items) : ~meant[node.items[i]]
      BY <2>11, <3>2, Zenon
    <3>5. TRUE \in items <=> \E i \in 1 .. Len(node.items) : meant[node.items[i]]
      BY <2>11, <3>3, Zenon
    <3> QED BY <3>4, <3>5, Zenon
  <2>5. meant[n] = CASE node.op = "REF" -> node.name \in names
                     [] node.op = "AND" -> FALSE \notin items
                     [] node.op = "OR" -> TRUE \in items
                     [] node.op = "NOT" -> FALSE \in items
    BY <1>4 DEF ValueAt
  <2> HIDE DEF node, items
  <2>6. CASE node.op = "REF"
    <3>1. tree[n] = Evidence(Resolve(node.name))
      BY <2>1, <2>6, CompiledNode
    <3>2. HoldsAt(held, tree, places, n) <=> Resolve(node.name) \in places
      BY <3>1 DEF HoldsAt, Evidence
    <3>3. Resolve(node.name) \in places <=> node.name \in names
      BY <2>1, <2>6, NameHolds
    <3>4. meant[n] = (node.name \in names)
      BY <2>5, <2>6
    <3> QED BY <2>2, <3>2, <3>3, <3>4
  <2>7. CASE node.op = "AND"
    <3>1. tree[n] = And(node.items)
      BY <2>1, <2>7, CompiledNode
    <3>5. tree[n].op = "and" /\ tree[n].items = node.items
      BY <3>1 DEF And
    <3>2. HoldsAt(held, tree, places, n) <=> \A i \in 1 .. Len(node.items) : held[node.items[i]]
      BY <3>5 DEF HoldsAt
    <3>3. meant[n] = (FALSE \notin items)
      BY <2>5, <2>7
    <3>6. (\E i \in 1 .. Len(node.items) : ~meant[node.items[i]])
            <=> ~ \A i \in 1 .. Len(node.items) : held[node.items[i]]
      BY <2>3
    <3>7. FALSE \in items <=> ~ \A i \in 1 .. Len(node.items) : held[node.items[i]]
      BY <2>4, <3>6, Zenon
    <3>4. FALSE \in items <=> ~held[n]
      BY <2>2, <3>2, <3>7
    <3>8. CASE FALSE \in items
      <4>1. ~meant[n]
        BY <3>3, <3>8, Zenon
      <4>2. ~held[n]
        BY <3>4, <3>8, Zenon
      <4> QED BY <2>2, <4>1, <4>2
    <3>9. CASE FALSE \notin items
      <4>1. meant[n]
        BY <3>3, <3>9, Zenon
      <4>2. held[n]
        BY <2>2, <3>4, <3>9, Zenon
      <4> QED BY <2>2, <4>1, <4>2
    <3> QED BY <3>8, <3>9, Zenon
  <2>8. CASE node.op = "OR"
    <3>1. tree[n] = Or(node.items)
      BY <2>1, <2>8, CompiledNode
    <3>5. tree[n].op = "or" /\ tree[n].items = node.items
      BY <3>1 DEF Or
    <3>2. HoldsAt(held, tree, places, n) <=> \E i \in 1 .. Len(node.items) : held[node.items[i]]
      BY <3>5 DEF HoldsAt
    <3>3. meant[n] = (TRUE \in items)
      BY <2>5, <2>8
    <3>4. TRUE \in items <=> \E i \in 1 .. Len(node.items) : held[node.items[i]]
      BY <2>3, <2>4
    <3> QED BY <2>2, <3>2, <3>3, <3>4
  <2>9. CASE node.op = "NOT"
    <3>1. tree[n] = Not(node.items[1]) /\ Len(node.items) = 1
      BY <2>1, <2>9, CompiledNode
    <3>2. HoldsAt(held, tree, places, n) <=> ~held[node.items[1]]
      BY <3>1 DEF HoldsAt, Not
    <3>3. meant[n] = (FALSE \in items)
      BY <2>5, <2>9
    <3>4. FALSE \in items <=> ~held[node.items[1]]
      <4>1. (\E i \in 1 .. Len(node.items) : ~meant[node.items[i]]) <=> ~held[node.items[1]]
        BY <2>3, <3>1
      <4> QED BY <2>4, <4>1, Zenon
    <3> QED BY <2>2, <3>2, <3>3, <3>4
  <2> QED BY <2>1, <2>6, <2>7, <2>8, <2>9, CompiledNode
<1>6. \A n \in 1 .. N : held[n] = meant[n]
  <2> DEFINE T == {n \in 1 .. N : held[n] # meant[n]}
  <2>1. SUFFICES ASSUME T # {} PROVE FALSE
    OBVIOUS
  <2>2. PICK n \in T : \A y \in T : n <= y
    <3>1. T \in SUBSET Nat
      OBVIOUS
    <3> HIDE DEF T
    <3> QED BY <2>1, <3>1, MinExists
  <2>3. n \in 1 .. N /\ held[n] # meant[n]
    BY <2>2
  <2>4. \A i \in 1 .. n - 1 : held[i] = meant[i]
    <3> TAKE i \in 1 .. n - 1
    <3>1. i \in 1 .. N /\ ~(n <= i)
      BY <1>1, <2>3
    <3>2. i \notin T
      <4> HIDE DEF T
      <4> QED BY <2>2, <3>1
    <3> QED BY <3>1, <3>2
  <2> HIDE DEF T
  <2> QED BY <1>5, <2>3, <2>4
<1>7. N \in 1 .. N
  BY <1>1
<1> QED BY <1>3, <1>4, <1>6, <1>7

(* A leaf of a shaped constraint is among X, under either sign. *)
LEMMA ReferencesIn ==
    ASSUME NEW X, NEW tree, Shaped(tree, X)
    PROVE  References([constraint |-> tree, sequence |-> <<>>, sameCall |-> <<>>]) \subseteq X
<1>1. \A sign \in BOOLEAN : LeavesOfSign(tree, sign) \in Seq(X)
  BY LeavesFrom DEF Shaped
<1>2. PositiveLeaves(tree) \in Seq(X) /\ NegativeLeaves(tree) \in Seq(X)
  BY <1>1 DEF PositiveLeaves, NegativeLeaves
<1>3. Elements(PositiveLeaves(tree)) \subseteq X /\ Elements(NegativeLeaves(tree)) \subseteq X
  BY <1>2 DEF Elements
<1>4. Elements(<<>>) = {}
  BY DEF Elements
<1> QED BY <1>3, <1>4 DEF References

-----------------------------------------------------------------------------
(* The constraint of a pattern that wrote none.                             *)

IsRequired(i) == ast.evidence[i].requiredness = "required"
RequiredPlaces == {i \in 1 .. Len(ast.evidence) : IsRequired(i)}

(* leaves is one node for each required clause. *)
AllRequired(leaves, row) ==
    /\ Len(leaves) \in Nat \ {0} /\ DOMAIN leaves = 1 .. Len(leaves)
    /\ \A k \in 1 .. Len(leaves) :
        leaves[k] = Evidence(row[k]) /\ row[k] \in RequiredPlaces
    /\ \A i \in RequiredPlaces : \E k \in 1 .. Len(leaves) : row[k] = i
    /\ ImplicitAnd = IF Len(leaves) = 1 THEN leaves
                     ELSE Append(leaves, And([i \in DOMAIN leaves |-> i]))

LEMMA RequiredAre ==
    ASSUME WellMade(ast)
    PROVE  RequiredNames = {ast.evidence[i].name : i \in RequiredPlaces}
BY TreeParts DEF RequiredNames, RequiredPlaces, IsRequired, Elements

LEMMA ImplicitLeaves ==
    ASSUME WellMade(ast), RequiredPlaces # {}
    PROVE  \E leaves, row : leaves \in Seq(Node) /\ AllRequired(leaves, row)
<1> DEFINE n == Len(ast.evidence)
           e == [i \in 1 .. n |-> Evidence(i)]
           seqs == [i \in 1 .. n |-> IF i \in RequiredPlaces THEN <<e[i]>> ELSE <<>>]
           leaves == FlattenSeq(seqs)
<1>1. n \in Nat /\ RequiredPlaces \in SUBSET (1 .. n) /\ DOMAIN ast.evidence = 1 .. n
  BY TreeParts DEF RequiredPlaces
<1>2. \A i \in 1 .. n : e[i] = Evidence(i) /\ e[i] \in Node
  <2>1. \A i \in 1 .. n : Evidence(i) \in Node
    BY <1>1 DEF Evidence, Node
  <2> HIDE DEF n
  <2> QED BY <2>1
<1>3. leaves = ForEach(ast.evidence, LAMBDA i :
                    When(ast.evidence[i].requiredness = "required", <<Evidence(i)>>))
  <2>1. seqs = [i \in DOMAIN ast.evidence |->
                    When(ast.evidence[i].requiredness = "required", <<Evidence(i)>>)]
    BY <1>1, <1>2 DEF When, RequiredPlaces, IsRequired
  <2> HIDE DEF seqs
  <2> QED BY <2>1 DEF ForEach
<1>4. seqs = [i \in 1 .. n |-> IF i \in RequiredPlaces THEN <<e[i]>> ELSE <<>>]
  OBVIOUS
<1>5. \A i \in RequiredPlaces : e[i] \in Node
  BY <1>1, <1>2
<1> HIDE DEF e, seqs, n
<1>6. leaves \in Seq(Node) /\ \E row : Keeps(leaves, row, e, n, RequiredPlaces)
  BY <1>1, <1>4, <1>5, FlattenSelected, Zenon
<1>7. ImplicitAnd = IF Len(leaves) = 1 THEN leaves
                    ELSE Append(leaves, And([i \in DOMAIN leaves |-> i]))
  <2> HIDE DEF leaves
  <2> QED BY <1>3, Zenon DEF ImplicitAnd
<1> HIDE DEF leaves
<1>8. PICK row : Keeps(leaves, row, e, n, RequiredPlaces)
  BY <1>6
<1>9. /\ \A k \in 1 .. Len(leaves) : row[k] \in RequiredPlaces /\ leaves[k] = e[row[k]]
      /\ \A i \in RequiredPlaces : \E k \in 1 .. Len(leaves) : row[k] = i
  BY <1>8, Zenon DEF Keeps
<1>10. \A k \in 1 .. Len(leaves) : leaves[k] = Evidence(row[k])
  BY <1>1, <1>2, <1>9
<1>11. Len(leaves) \in Nat \ {0} /\ DOMAIN leaves = 1 .. Len(leaves)
  BY <1>6, <1>9
<1>12. AllRequired(leaves, row)
  BY <1>7, <1>9, <1>10, <1>11, Zenon DEF AllRequired
<1> QED BY <1>6, <1>12

(* The nodes of the tree: a leaf for each required clause and, over two or
   more of them, their conjunction. *)
LEMMA ImplicitNodes ==
    ASSUME NEW leaves \in Seq(Node), NEW row, AllRequired(leaves, row), NEW m, m = Len(leaves)
    PROVE  /\ \A k \in 1 .. m : ImplicitAnd[k] = Evidence(row[k])
           /\ m = 1 => Len(ImplicitAnd) = 1
           /\ m # 1 => Len(ImplicitAnd) = m + 1 /\ ImplicitAnd[m + 1] = And([i \in 1 .. m |-> i])
<1>1. m \in Nat /\ \A k \in 1 .. m : leaves[k] = Evidence(row[k])
  BY DEF AllRequired
<1>2. CASE m = 1
  <2>1. ImplicitAnd = leaves
    BY <1>2 DEF AllRequired
  <2> QED BY <1>1, <1>2, <2>1
<1>3. CASE m # 1
  <2> DEFINE root == And([i \in 1 .. m |-> i])
  <2>1. ImplicitAnd = Append(leaves, root)
    BY <1>3 DEF AllRequired
  <2> HIDE DEF root
  <2>2. Len(ImplicitAnd) = m + 1 /\ ImplicitAnd[m + 1] = root
    BY <2>1
  <2>3. \A k \in 1 .. m : ImplicitAnd[k] = leaves[k]
    BY <2>1
  <2> QED BY <1>1, <1>3, <2>2, <2>3 DEF root
<1> QED BY <1>2, <1>3

LEMMA ImplicitShape ==
    ASSUME WellMade(ast), RequiredPlaces # {}
    PROVE  Shaped(ImplicitAnd, 1 .. Len(ast.evidence))
<1> DEFINE tree == ImplicitAnd
<1>1. PICK leaves, row : leaves \in Seq(Node) /\ AllRequired(leaves, row)
  BY ImplicitLeaves
<1> DEFINE m == Len(leaves)
<1>2. /\ \A k \in 1 .. m : tree[k] = Evidence(row[k])
      /\ m = 1 => Len(tree) = 1
      /\ m # 1 => Len(tree) = m + 1 /\ tree[m + 1] = And([i \in 1 .. m |-> i])
  BY <1>1, ImplicitNodes
<1>3. m \in Nat \ {0} /\ \A k \in 1 .. m : row[k] \in 1 .. Len(ast.evidence)
  BY <1>1 DEF AllRequired, RequiredPlaces
<1> HIDE DEF tree, m
<1>4. ASSUME NEW k \in 1 .. m
      PROVE  /\ tree[k].op = "evidence" /\ tree[k].evidence \in 1 .. Len(ast.evidence)
             /\ tree[k].items = <<>> /\ Len(tree[k].items) = 0
  <2>1. tree[k] = Evidence(row[k]) /\ row[k] \in 1 .. Len(ast.evidence)
    BY <1>2, <1>3
  <2>2. /\ Evidence(row[k]).op = "evidence" /\ Evidence(row[k]).evidence = row[k]
        /\ Evidence(row[k]).items = <<>> /\ Len(<<>>) = 0
    BY DEF Evidence
  <2> QED BY <2>1, <2>2
<1>5. m # 1 => /\ tree[m + 1].op = "and"
               /\ tree[m + 1].items = [i \in 1 .. m |-> i]
  <2>1. And([i \in 1 .. m |-> i]).op = "and" /\ And([i \in 1 .. m |-> i]).items = [i \in 1 .. m |-> i]
    BY DEF And
  <2> QED BY <1>2, <2>1
<1>6. Len([i \in 1 .. m |-> i]) = m /\ \A i \in 1 .. m : [j \in 1 .. m |-> j][i] = i
  BY <1>3
<1>7. ASSUME NEW n \in 1 .. Len(tree)
      PROVE  /\ \A i \in 1 .. Len(tree[n].items) : tree[n].items[i] \in 1 .. n - 1
             /\ Len(tree[n].items) \in Nat
             /\ tree[n].op = "not" => Len(tree[n].items) = 1
             /\ tree[n].op = "evidence" => tree[n].evidence \in 1 .. Len(ast.evidence)
  <2>1. CASE n \in 1 .. m
    BY <1>3, <1>4, <2>1
  <2>2. CASE n \notin 1 .. m
    <3>1. m # 1 /\ n = m + 1
      BY <1>2, <1>3, <2>2
    <3> QED BY <1>3, <1>5, <1>6, <3>1
  <2> QED BY <2>1, <2>2
<1>8. Len(tree) \in Nat \ {0}
  BY <1>2, <1>3
<1>9. Shaped(tree, 1 .. Len(ast.evidence))
  BY <1>7, <1>8 DEF Shaped, ItemsBefore
<1> QED BY <1>9 DEF tree

(* It holds of the clauses every required one is among. *)
LEMMA ImplicitTruth ==
    ASSUME WellMade(ast), Distinct(EvidenceNames), RequiredPlaces # {},
           NEW places \in SUBSET (1 .. Len(ast.evidence)),
           NEW names, names = {ast.evidence[i].name : i \in places}
    PROVE  Holds(ImplicitAnd, places) = (RequiredNames \subseteq names)
<1> DEFINE tree == ImplicitAnd
<1>1. PICK leaves, row : leaves \in Seq(Node) /\ AllRequired(leaves, row)
  BY ImplicitLeaves
<1> DEFINE m == Len(leaves)
<1>2. /\ \A k \in 1 .. m : tree[k] = Evidence(row[k])
      /\ m = 1 => Len(tree) = 1
      /\ m # 1 => Len(tree) = m + 1 /\ tree[m + 1] = And([i \in 1 .. m |-> i])
  BY <1>1, ImplicitNodes
<1>3. /\ m \in Nat \ {0} /\ \A k \in 1 .. m : row[k] \in RequiredPlaces
      /\ \A i \in RequiredPlaces : \E k \in 1 .. m : row[k] = i
  BY <1>1 DEF AllRequired
<1>4. Shaped(tree, 1 .. Len(ast.evidence))
  BY ImplicitShape
<1>5. PICK held : Truth(held, tree, places)
  <2>1. /\ Len(tree) \in Nat /\ ItemsBefore(tree)
        /\ \A n \in 1 .. Len(tree) : tree[n].op = "not" => Len(tree[n].items) = 1
    BY <1>4 DEF Shaped
  <2> HIDE DEF tree
  <2> QED BY <2>1, HoldsFrom, Zenon
<1> HIDE DEF tree, m
<1>6. \A k \in 1 .. m : held[k] <=> row[k] \in places
  <2> TAKE k \in 1 .. m
  <2>1. k \in 1 .. Len(tree) /\ tree[k] = Evidence(row[k])
    BY <1>2, <1>3
  <2>2. held[k] <=> HoldsAt(held, tree, places, k)
    BY <1>5, <2>1 DEF Truth
  <2> QED BY <2>1, <2>2 DEF HoldsAt, Evidence
<1>7. held[Len(tree)] <=> \A k \in 1 .. m : held[k]
  <2>1. CASE m = 1
    <3>1. Len(tree) = 1 /\ \A k : k \in 1 .. m <=> k = 1
      BY <1>2, <2>1
    <3> QED BY <3>1, Zenon
  <2>2. CASE m # 1
    <3>1. Len(tree) = m + 1 /\ m + 1 \in 1 .. Len(tree)
      BY <1>2, <1>3, <2>2
    <3>2. held[m + 1] <=> HoldsAt(held, tree, places, m + 1)
      BY <1>5, <3>1 DEF Truth
    <3>6. tree[m + 1] = And([i \in 1 .. m |-> i])
      BY <1>2, <2>2
    <3>3. tree[m + 1].op = "and" /\ tree[m + 1].items = [i \in 1 .. m |-> i]
      BY <3>6 DEF And
    <3>4. Len(tree[m + 1].items) = m /\ \A i \in 1 .. m : tree[m + 1].items[i] = i
      BY <1>3, <3>3
    <3>5. HoldsAt(held, tree, places, m + 1) <=> \A k \in 1 .. m : held[k]
      BY <3>3, <3>4 DEF HoldsAt
    <3> QED BY <3>1, <3>2, <3>5
  <2> QED BY <2>1, <2>2
<1>8. held[Len(tree)] <=> RequiredPlaces \subseteq places
  BY <1>3, <1>6, <1>7
<1>9. \A i, j \in 1 .. Len(ast.evidence) : ast.evidence[i].name = ast.evidence[j].name => i = j
  BY DeclarationParts DEF Distinct
<1>10. RequiredPlaces \subseteq places <=> RequiredNames \subseteq names
  <2>1. RequiredNames = {ast.evidence[i].name : i \in RequiredPlaces}
    BY RequiredAre
  <2>2. RequiredPlaces \subseteq 1 .. Len(ast.evidence)
    BY DEF RequiredPlaces
  <2> HIDE DEF RequiredPlaces
  <2>3. ASSUME RequiredNames \subseteq names, NEW i \in RequiredPlaces PROVE i \in places
    <3>1. ast.evidence[i].name \in names
      BY <2>1, <2>3
    <3>2. PICK j \in places : ast.evidence[i].name = ast.evidence[j].name
      BY <3>1
    <3>3. i = j
      BY <1>9, <2>2, <3>2
    <3> QED BY <3>3
  <2>4. ASSUME RequiredPlaces \subseteq places PROVE RequiredNames \subseteq names
    BY <2>1, <2>4
  <2> QED BY <2>3, <2>4
<1>11. Len(tree) \in 1 .. Len(tree)
  BY <1>4 DEF Shaped
<1>12. held[Len(tree)] \in BOOLEAN /\ Holds(tree, places) = held[Len(tree)]
  BY <1>5, <1>11 DEF Truth
<1>13. Holds(tree, places) = (RequiredNames \subseteq names)
  BY <1>8, <1>10, <1>12
<1> QED BY <1>13 DEF tree

-----------------------------------------------------------------------------
(* What compiles says what was written.                                     *)

ConstraintMeans ==
    \A places \in SUBSET DOMAIN compiled.evidence :
        LET names == {compiled.evidence[i].name : i \in places}
        IN  Holds(compiled.constraint, places) =
                IF ast.constraint = <<>> THEN RequiredNames \subseteq names
                ELSE Means(ast.constraint[1], names)
ReferencesDeclared ==
    References([constraint |-> compiled.constraint, sequence |-> <<>>, sameCall |-> <<>>])
        \subseteq DOMAIN compiled.evidence
StepsNamed ==
    \A i \in DOMAIN ast.sequence :
        /\ NamesAt(compiled.sequence[i].steps) = ast.sequence[i].items
        /\ \A w \in Elements(ast.sequence[i].within) :
            w \in Elements(compiled.sequence[i].within) \/ w > MaxU32
MembersNamed ==
    \A i \in DOMAIN ast.same_call : NamesAt(compiled.same_call[i]) = ast.same_call[i].items
ListsOnce ==
    \A e \in Elements(ast.metadata) :
        /\ e.key \in {"tags", "references"} =>
            /\ Distinct(compiled[e.key])
            /\ Elements(compiled[e.key]) = Elements(e.value.items)

LEMMA CompiledFields ==
    ASSUME WellMade(ast), compiled = CompiledPattern
    PROVE  /\ compiled.evidence = ast.evidence /\ DOMAIN compiled.evidence = 1 .. Len(ast.evidence)
           /\ compiled.constraint =
                IF ast.constraint = <<>> THEN ImplicitAnd
                ELSE [i \in DOMAIN ast.constraint[1] |-> Compiled(ast.constraint[1][i])]
           /\ compiled["tags"] = Strings("tags") /\ compiled["references"] = Strings("references")
           /\ compiled.sequence = [i \in DOMAIN ast.sequence |->
                        [steps |-> ResolveAll(ast.sequence[i].items),
                         within |-> Fitting(ast.sequence[i].within)]]
           /\ compiled.same_call = [i \in DOMAIN ast.same_call |-> ResolveAll(ast.same_call[i].items)]
<1>1. DOMAIN ast.evidence = 1 .. Len(ast.evidence)
  BY TreeParts
<1> QED BY <1>1 DEF CompiledPattern

(* A legal pattern declares a required clause, and the section it has, if any,
   is the first. *)
LEMMA LegalHas ==
    ASSUME WellMade(ast), Legal
    PROVE  /\ Distinct(EvidenceNames) /\ RequiredPlaces # {}
           /\ ast.constraint # <<>> =>
                /\ ast.constraint[1] \in Seq(TreeNodes) /\ ChildrenFirst(ast.constraint[1])
                /\ Elements(Refs(ast.constraint[1])) \subseteq Elements(EvidenceNames)
           /\ \A i \in DOMAIN ast.sequence :
                /\ i = 1 /\ ast.sequence # <<>>
                /\ ast.sequence[i].items \in Seq(STRING) /\ ast.sequence[i].within \in Seq(Int)
           /\ \A i \in DOMAIN ast.same_call :
                i = 1 /\ ast.same_call # <<>> /\ ast.same_call[i].items \in Seq(STRING)
<1>1. /\ ast.constraint \in Seq(Seq(TreeNodes)) /\ ast.sequence \in Seq(Sections)
      /\ ast.same_call \in Seq(Sections)
  BY TreeParts
<1>2. /\ Len(ast.constraint) <= 1 /\ Len(ast.sequence) <= 1 /\ Len(ast.same_call) <= 1
      /\ \A i \in 1 .. Len(ast.constraint) : ChildrenFirst(ast.constraint[i])
  BY DEF WellMade
<1>3. Distinct(EvidenceNames) /\ RequiredNames # {}
  BY DEF Legal
<1>4. RequiredPlaces # {}
  BY <1>3, RequiredAre
<1>5. ASSUME ast.constraint # <<>>
      PROVE  /\ ast.constraint[1] \in Seq(TreeNodes) /\ ChildrenFirst(ast.constraint[1])
             /\ Elements(Refs(ast.constraint[1])) \subseteq Elements(EvidenceNames)
  <2>1. 1 \in 1 .. Len(ast.constraint)
    BY <1>1, <1>5
  <2>2. ast.constraint[1] \in Seq(TreeNodes)
    BY <1>1, <2>1
  <2>3. ChildrenFirst(ast.constraint[1])
    BY <1>2, <2>1
  <2> QED BY <1>5, <2>2, <2>3 DEF Legal
<1>6. ASSUME NEW i \in DOMAIN ast.sequence
      PROVE  /\ i = 1 /\ ast.sequence # <<>>
             /\ ast.sequence[i].items \in Seq(STRING) /\ ast.sequence[i].within \in Seq(Int)
  <2>1. i = 1 /\ ast.sequence # <<>> /\ ast.sequence[i] \in Sections
    BY <1>1, <1>2
  <2> QED BY <2>1 DEF Sections
<1>7. ASSUME NEW i \in DOMAIN ast.same_call
      PROVE  i = 1 /\ ast.same_call # <<>> /\ ast.same_call[i].items \in Seq(STRING)
  <2>1. i = 1 /\ ast.same_call # <<>> /\ ast.same_call[i] \in Sections
    BY <1>1, <1>2
  <2> QED BY <2>1 DEF Sections
<1> QED BY <1>3, <1>4, <1>5, <1>6, <1>7

LEMMA ConstraintKept ==
    ASSUME WellMade(ast), Legal, compiled = CompiledPattern
    PROVE  ConstraintMeans /\ ReferencesDeclared
<1>1. /\ Distinct(EvidenceNames) /\ RequiredPlaces # {}
      /\ ast.constraint # <<>> =>
           /\ ast.constraint[1] \in Seq(TreeNodes) /\ ChildrenFirst(ast.constraint[1])
           /\ Elements(Refs(ast.constraint[1])) \subseteq Elements(EvidenceNames)
  BY LegalHas
<1>2. /\ compiled.evidence = ast.evidence /\ DOMAIN compiled.evidence = 1 .. Len(ast.evidence)
      /\ compiled.constraint =
           IF ast.constraint = <<>> THEN ImplicitAnd
           ELSE [i \in DOMAIN ast.constraint[1] |-> Compiled(ast.constraint[1][i])]
  BY CompiledFields
<1>3. ASSUME NEW places \in SUBSET (1 .. Len(ast.evidence)), NEW names,
             names = {ast.evidence[i].name : i \in places}
      PROVE  Holds(compiled.constraint, places) =
                IF ast.constraint = <<>> THEN RequiredNames \subseteq names
                ELSE Means(ast.constraint[1], names)
  <2>1. CASE ast.constraint = <<>>
    <3>1. Holds(ImplicitAnd, places) = (RequiredNames \subseteq names)
      BY <1>1, <1>3, ImplicitTruth
    <3>2. compiled.constraint = ImplicitAnd
      BY <1>2, <2>1
    <3> QED BY <2>1, <3>1, <3>2
  <2>2. CASE ast.constraint # <<>>
    <3> DEFINE nodes == ast.constraint[1]
               tree == [i \in DOMAIN nodes |-> Compiled(nodes[i])]
    <3>1. Holds(tree, places) = Means(nodes, names)
      BY <1>1, <1>3, <2>2, SameTruth
    <3>2. compiled.constraint = tree
      BY <1>2, <2>2
    <3> QED BY <2>2, <3>1, <3>2
  <2> QED BY <2>1, <2>2
<1>4. ConstraintMeans
  <2> SUFFICES ASSUME NEW places \in SUBSET DOMAIN compiled.evidence
               PROVE  Holds(compiled.constraint, places) =
                        IF ast.constraint = <<>>
                        THEN RequiredNames \subseteq {compiled.evidence[i].name : i \in places}
                        ELSE Means(ast.constraint[1], {compiled.evidence[i].name : i \in places})
    BY DEF ConstraintMeans
  <2> DEFINE names == {ast.evidence[i].name : i \in places}
  <2>1. places \in SUBSET (1 .. Len(ast.evidence)) /\ names = {compiled.evidence[i].name : i \in places}
    BY <1>2
  <2>2. names = {ast.evidence[i].name : i \in places}
    OBVIOUS
  <2> HIDE DEF names
  <2>3. Holds(compiled.constraint, places) = IF ast.constraint = <<>> THEN RequiredNames \subseteq names
                                             ELSE Means(ast.constraint[1], names)
    BY <1>3, <2>1, <2>2, Zenon
  <2> QED BY <2>1, <2>3, Zenon
<1>5. Shaped(compiled.constraint, 1 .. Len(ast.evidence))
  <2>1. CASE ast.constraint = <<>>
    BY <1>1, <1>2, <2>1, ImplicitShape
  <2>2. CASE ast.constraint # <<>>
    <3> DEFINE nodes == ast.constraint[1]
               tree == [i \in DOMAIN nodes |-> Compiled(nodes[i])]
    <3>1. Shaped(tree, 1 .. Len(ast.evidence))
      BY <1>1, <2>2, CompiledShape
    <3>2. compiled.constraint = tree
      BY <1>2, <2>2
    <3> QED BY <3>1, <3>2
  <2> QED BY <2>1, <2>2
<1>6. ReferencesDeclared
  BY <1>2, <1>5, ReferencesIn DEF ReferencesDeclared
<1> QED BY <1>4, <1>6

LEMMA GroupsKept ==
    ASSUME WellMade(ast), Legal, compiled = CompiledPattern
    PROVE  StepsNamed /\ MembersNamed
<1>1. /\ \A i \in DOMAIN ast.sequence :
           /\ i = 1 /\ ast.sequence # <<>>
           /\ ast.sequence[i].items \in Seq(STRING) /\ ast.sequence[i].within \in Seq(Int)
      /\ \A i \in DOMAIN ast.same_call :
           i = 1 /\ ast.same_call # <<>> /\ ast.same_call[i].items \in Seq(STRING)
  BY LegalHas
<1>2. /\ LegalGroup(ast.sequence) /\ LegalGroup(ast.same_call)
      /\ ast.sequence # <<>> => \A w \in Elements(ast.sequence[1].within) : w > 0
  BY DEF Legal
<1>3. ASSUME NEW i \in DOMAIN ast.sequence
      PROVE  /\ NamesAt(compiled.sequence[i].steps) = ast.sequence[i].items
             /\ \A w \in Elements(ast.sequence[i].within) :
                 w \in Elements(compiled.sequence[i].within) \/ w > MaxU32
  <2> DEFINE items == ast.sequence[i].items
             window == ast.sequence[i].within
  <2>1. compiled.sequence[i].steps = ResolveAll(items) /\ compiled.sequence[i].within = Fitting(window)
    BY CompiledFields
  <2>2. /\ items \in Seq(STRING) /\ Elements(items) \subseteq Elements(EvidenceNames)
        /\ window \in Seq(Int) /\ \A w \in Elements(window) : w > 0
    BY <1>1, <1>2 DEF LegalGroup
  <2> HIDE DEF items, window
  <2>3. NamesAt(ResolveAll(items)) = items
    BY <2>2, NamesKept
  <2>4. ASSUME NEW w \in Elements(window) PROVE w \in Elements(Fitting(window)) \/ w > MaxU32
    <3>1. w \in Int /\ w > 0
      BY <2>2 DEF Elements
    <3>2. Fits(w) => w \in Elements(Fitting(window))
      BY <2>2, FittingAre
    <3>3. Fits(w) \/ w > MaxU32
      BY <3>1, MaxAssumption DEF Fits
    <3> QED BY <3>2, <3>3
  <2>5. /\ NamesAt(compiled.sequence[i].steps) = items
        /\ \A w \in Elements(window) : w \in Elements(compiled.sequence[i].within) \/ w > MaxU32
    BY <2>1, <2>3, <2>4
  <2> QED BY <2>5 DEF items, window
<1>4. ASSUME NEW i \in DOMAIN ast.same_call
      PROVE  NamesAt(compiled.same_call[i]) = ast.same_call[i].items
  <2> DEFINE items == ast.same_call[i].items
  <2>1. compiled.same_call[i] = ResolveAll(items)
    BY CompiledFields
  <2>2. items \in Seq(STRING) /\ Elements(items) \subseteq Elements(EvidenceNames)
    BY <1>1, <1>2 DEF LegalGroup
  <2> HIDE DEF items
  <2>3. NamesAt(ResolveAll(items)) = items
    BY <2>2, NamesKept
  <2>4. NamesAt(compiled.same_call[i]) = items
    BY <2>1, <2>3
  <2> QED BY <2>4 DEF items
<1> QED BY <1>3, <1>4 DEF StepsNamed, MembersNamed

LEMMA ListsKept ==
    ASSUME WellMade(ast), Legal, compiled = CompiledPattern
    PROVE  ListsOnce
<1> SUFFICES ASSUME NEW e \in Elements(ast.metadata), e.key \in {"tags", "references"}
             PROVE  /\ Distinct(compiled[e.key])
                    /\ Elements(compiled[e.key]) = Elements(e.value.items)
  BY DEF ListsOnce
<1>1. compiled[e.key] = Strings(e.key)
  BY CompiledFields
<1> QED BY <1>1, StringsKept

(* What compiles says what was written, whatever the tree: compile() changes
   the names to places, the numbers to what fits and the lists to sets, and the
   constraint holds of the clauses it held of. *)
THEOREM SameMeaning == Spec => []CompiledMeansTheSame
<1>1. IInv => CompiledMeansTheSame
  <2> SUFFICES ASSUME IInv, stage = "compiled" PROVE CompiledMeansTheSame
    BY Zenon DEF CompiledMeansTheSame
  <2>1. WellMade(ast) /\ Legal /\ compiled = CompiledPattern
    BY DEF IInv, PassedIsLegal, Collected
  <2>2. ConstraintMeans /\ ReferencesDeclared
    BY <2>1, ConstraintKept
  <2>3. StepsNamed /\ MembersNamed
    BY <2>1, GroupsKept
  <2>4. ListsOnce
    BY <2>1, ListsKept
  <2> QED BY <2>2, <2>3, <2>4, Zenon DEF CompiledMeansTheSame, ConstraintMeans,
             ReferencesDeclared, StepsNamed, MembersNamed, ListsOnce
<1> QED BY <1>1, Invariance, PTL

=============================================================================
