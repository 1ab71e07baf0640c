-------------------------- MODULE PredicatesProofs --------------------------
(***************************************************************************)
(* What a predicate selects and in which order, and the reentrancy index   *)
(* it consults, for traces of every shape and size and all predicates.     *)
(*                                                                         *)
(* TraceIndex::build computes a call's set of ancestor targets from its    *)
(* parent's.  It is right because the arena holds a parent before its      *)
(* children, and because a call's ancestors are its parent and the         *)
(* parent's ancestors.  What FactArena::net_value_extracted returns is     *)
(* compared, call by call, with the sums of what came in and went out.     *)
(***************************************************************************)
EXTENDS Predicates, SequenceProofs, TLAPS

CallOf == [shape : CallShapes, parent : Nat \union {None}]
Target == {shape.to : shape \in CallShapes}

ArenaOK ==
    /\ calls \in Seq(CallOf)
    /\ \A i \in 1 .. Len(calls) : calls[i].parent = None \/ calls[i].parent \in 1 .. i - 1

(* The targets that are active above a call. *)
Active(id) == {calls[j].shape.to : j \in Ancestors(id)} \ {None}

IndexOK ==
    /\ targets \in Seq(SUBSET Target)
    /\ Len(targets) <= Len(calls)
    /\ \A i \in 1 .. Len(targets) : targets[i] = Active(i)
    /\ reentrant \subseteq 1 .. Len(targets)
    /\ ReentrancyIsOnTheStack

IInv == ArenaOK /\ IndexOK

-----------------------------------------------------------------------------

(* A set that holds the parent of id and of each of its own members. *)
Closed(S, id) ==
    /\ Some(calls[id].parent) \subseteq S
    /\ \A c \in S : Some(calls[c].parent) \subseteq S

LEMMA AncestorsAreClosed ==
    ASSUME ArenaOK, NEW id \in 1 .. Len(calls)
    PROVE  Ancestors(id) \subseteq 1 .. Len(calls) /\ Closed(Ancestors(id), id)
<1>1. \A i \in 1 .. Len(calls) : Some(calls[i].parent) \subseteq 1 .. Len(calls)
  BY DEF ArenaOK, Some
<1>2. Ancestors(id) = {j \in 1 .. Len(calls) :
                            \A S \in SUBSET (1 .. Len(calls)) : Closed(S, id) => j \in S}
  BY DEF Ancestors, Closed
<1>3. Some(calls[id].parent) \subseteq Ancestors(id)
  BY <1>1, <1>2 DEF Closed
<1>4. \A c \in Ancestors(id) : Some(calls[c].parent) \subseteq Ancestors(id)
  <2> SUFFICES ASSUME NEW c \in Ancestors(id), NEW p \in Some(calls[c].parent)
               PROVE  p \in Ancestors(id)
    OBVIOUS
  <2>1. c \in 1 .. Len(calls) /\ p \in 1 .. Len(calls)
    BY <1>1, <1>2
  <2>2. ASSUME NEW S \in SUBSET (1 .. Len(calls)), Closed(S, id) PROVE p \in S
    <3>1. c \in S
      BY <1>2, <2>2
    <3> QED BY <2>2, <3>1 DEF Closed
  <2> QED BY <1>2, <2>1, <2>2
<1> QED BY <1>2, <1>3, <1>4 DEF Closed

LEMMA AncestorsAreLeast ==
    ASSUME ArenaOK, NEW id \in 1 .. Len(calls),
           NEW S \in SUBSET (1 .. Len(calls)), Closed(S, id)
    PROVE  Ancestors(id) \subseteq S
BY DEF Ancestors, Closed

LEMMA AncestorsStep ==
    ASSUME ArenaOK, NEW id \in 1 .. Len(calls)
    PROVE  Ancestors(id) = IF calls[id].parent = None THEN {}
                           ELSE Ancestors(calls[id].parent) \union {calls[id].parent}
<1> DEFINE p == calls[id].parent
<1>1. CASE p = None
  <2>1. Closed({}, id)
    BY <1>1 DEF Closed, Some
  <2> QED BY <1>1, <2>1, AncestorsAreLeast
<1>2. CASE p # None
  <2>1. p \in 1 .. Len(calls)
    BY <1>2 DEF ArenaOK
  <2> HIDE DEF p
  <2>2. p \in Some(calls[id].parent)
    BY <1>2 DEF Some, p
  <2>3. Closed(Ancestors(id), id) /\ Ancestors(id) \in SUBSET (1 .. Len(calls))
    BY AncestorsAreClosed
  <2>4. p \in Ancestors(id)
    BY <2>2, <2>3 DEF Closed
  <2>5. Ancestors(p) \subseteq Ancestors(id)
    <3>1. Closed(Ancestors(id), p)
      BY <2>3, <2>4 DEF Closed
    <3> QED BY <2>1, <2>3, <3>1, AncestorsAreLeast
  <2>6. Ancestors(id) \subseteq Ancestors(p) \union {p}
    <3> DEFINE S == Ancestors(p) \union {p}
    <3>1. Ancestors(p) \subseteq 1 .. Len(calls) /\ Closed(Ancestors(p), p)
      BY <2>1, AncestorsAreClosed
    <3>2. S \in SUBSET (1 .. Len(calls)) /\ Closed(S, id)
      BY <2>1, <3>1 DEF Closed, Some, p
    <3> QED BY <3>2, AncestorsAreLeast
  <2> QED BY <1>2, <2>4, <2>5, <2>6 DEF p
<1> QED BY <1>1, <1>2

(* What the pass computes for a call from its parent's set. *)
LEMMA TargetsAboveIsActive ==
    ASSUME IInv, NEW id \in 1 .. Len(calls), id = Len(targets) + 1
    PROVE  TargetsAbove(calls[id].parent) = Active(id)
<1> DEFINE p == calls[id].parent
<1>1. CASE p = None
  <2>1. Ancestors(id) = {}
    BY <1>1, AncestorsStep DEF IInv
  <2> QED BY <1>1, <2>1 DEF TargetsAbove, Active
<1>2. CASE p # None
  <2>1. p \in 1 .. Len(targets)
    BY <1>2 DEF IInv, ArenaOK, IndexOK
  <2>2. targets[p] = Active(p)
    BY <2>1 DEF IInv, IndexOK
  <2>3. Ancestors(id) = Ancestors(p) \union {p}
    BY <1>2, AncestorsStep DEF IInv
  <2> HIDE DEF p
  <2>4. Active(id) = Active(p) \union Some(calls[p].shape.to)
    BY <2>3 DEF Active, Some
  <2>5. TargetsAbove(p) = targets[p] \union Some(calls[p].shape.to)
    BY <1>2 DEF TargetsAbove, p
  <2> QED BY <2>2, <2>4, <2>5 DEF p
<1> QED BY <1>1, <1>2

-----------------------------------------------------------------------------

LEMMA AppendFacts ==
    ASSUME NEW S, NEW list \in Seq(S), NEW e \in S
    PROVE  /\ Append(list, e) \in Seq(S) /\ Len(Append(list, e)) = Len(list) + 1
           /\ Append(list, e)[Len(list) + 1] = e
           /\ \A i \in 1 .. Len(list) : Append(list, e)[i] = list[i]
OBVIOUS

(* The index is about the calls alone. *)
LEMMA Kept ==
    ASSUME IInv, UNCHANGED <<calls, targets, reentrant>>
    PROVE  IInv'
<1>1. \A i : Ancestors(i)' = Ancestors(i)
  BY DEF Ancestors
<1>2. \A i : Active(i)' = Active(i) /\ Reenters(i)' = Reenters(i)
  BY <1>1 DEF Active, Reenters
<1>3. ReentrancyIsOnTheStack'
  BY <1>2 DEF IInv, IndexOK, ReentrancyIsOnTheStack
<1> QED BY <1>2, <1>3 DEF IInv, ArenaOK, IndexOK

LEMMA AddPreserves == ASSUME IInv, AddCall PROVE IInv'
<1>1. PICK shape \in CallShapes, parent \in IF calls = <<>> THEN {None} ELSE 1 .. Len(calls) :
            calls' = Append(calls, [shape |-> shape, parent |-> parent])
  BY DEF AddCall
<1>2. targets = <<>> /\ targets' = targets /\ reentrant' = reentrant
  BY DEF AddCall, Room
<1> DEFINE call == [shape |-> shape, parent |-> parent]
<1>3. calls \in Seq(CallOf) /\ Len(calls) \in Nat
  BY DEF IInv, ArenaOK
<1>4. call \in CallOf /\ call.parent = parent /\ (parent = None \/ parent \in 1 .. Len(calls))
  BY <1>3 DEF CallOf
<1> HIDE DEF call
<1>5. /\ calls' \in Seq(CallOf) /\ Len(calls') = Len(calls) + 1
      /\ calls'[Len(calls) + 1] = call
      /\ \A i \in 1 .. Len(calls) : calls'[i] = calls[i]
  <2>1. calls' = Append(calls, call)
    BY <1>1 DEF call
  <2> QED BY <1>3, <1>4, <2>1, AppendFacts
<1>6. \A i \in 1 .. Len(calls') : calls'[i].parent = None \/ calls'[i].parent \in 1 .. i - 1
  <2> SUFFICES ASSUME NEW i \in 1 .. Len(calls')
               PROVE  calls'[i].parent = None \/ calls'[i].parent \in 1 .. i - 1
    OBVIOUS
  <2>1. CASE i = Len(calls) + 1
    BY <1>3, <1>4, <1>5, <2>1
  <2>2. CASE i # Len(calls) + 1
    <3>1. i \in 1 .. Len(calls)
      BY <1>3, <1>5, <2>2
    <3> QED BY <1>5, <3>1 DEF IInv, ArenaOK
  <2> QED BY <2>1, <2>2
<1>7. Len(targets') = 0 /\ targets' \in Seq(SUBSET Target)
  BY <1>2
<1>8. ReentrancyIsOnTheStack'
  BY <1>7 DEF ReentrancyIsOnTheStack
<1> QED BY <1>2, <1>3, <1>5, <1>6, <1>7, <1>8 DEF IInv, ArenaOK, IndexOK

LEMMA IndexPreserves == ASSUME IInv, IndexCall PROVE IInv'
<1> DEFINE id == Len(targets) + 1
           above == TargetsAbove(calls[id].parent)
<1>1. /\ calls \in Seq(CallOf) /\ Len(calls) \in Nat
      /\ targets \in Seq(SUBSET Target) /\ Len(targets) \in Nat
      /\ reentrant \subseteq 1 .. Len(targets)
  BY DEF IInv, ArenaOK, IndexOK
<1>2. /\ Len(targets) < Len(calls) /\ calls' = calls
      /\ targets' = Append(targets, above)
      /\ reentrant' = IF Some(calls[id].shape.to) \intersect above # {}
                      THEN reentrant \union {id} ELSE reentrant
  BY DEF IndexCall
<1>3. id \in 1 .. Len(calls) /\ id \notin 1 .. Len(targets) /\ id \notin reentrant
  BY <1>1, <1>2
<1>4. above = Active(id)
  BY <1>3, TargetsAboveIsActive
<1> HIDE DEF above
<1>5. above \in SUBSET Target
  <2>1. \A j \in 1 .. Len(calls) : calls[j].shape.to \in Target
    <3>1. \A j \in 1 .. Len(calls) : calls[j].shape \in CallShapes
      <4>1. \A c \in CallOf : c.shape \in CallShapes
        BY DEF CallOf
      <4> QED BY <1>1, <4>1
    <3>2. \A shape \in CallShapes : shape.to \in Target
      BY Zenon DEF Target
    <3> QED BY <3>1, <3>2
  <2>2. Ancestors(id) \subseteq 1 .. Len(calls)
    BY <1>3, AncestorsAreClosed DEF IInv
  <2> QED BY <1>4, <2>1, <2>2 DEF Active
<1>6. /\ targets' \in Seq(SUBSET Target) /\ Len(targets') = id
      /\ targets'[id] = above
      /\ \A i \in 1 .. Len(targets) : targets'[i] = targets[i]
  BY <1>1, <1>2, <1>5, AppendFacts
<1> HIDE DEF id
<1>7. \A i \in 1 .. Len(targets') : i = id \/ i \in 1 .. Len(targets)
  BY <1>1, <1>6 DEF id
<1>8. /\ \A i : Ancestors(i)' = Ancestors(i)
      /\ \A i : Active(i)' = Active(i) /\ Reenters(i)' = Reenters(i)
  <2>1. \A i : Ancestors(i)' = Ancestors(i)
    BY <1>2 DEF Ancestors
  <2> QED BY <1>2, <2>1 DEF Active, Reenters
<1>9. \A i \in 1 .. Len(targets') : targets'[i] = Active(i)
  BY <1>4, <1>6, <1>7 DEF IInv, IndexOK
<1>10. Reenters(id) <=> Some(calls[id].shape.to) \intersect above # {}
  BY <1>4 DEF Reenters, Active, Some
<1>11. \A i \in 1 .. Len(targets') : (i \in reentrant') <=> Reenters(i)
  <2>1. (id \in reentrant') <=> Reenters(id)
    BY <1>2, <1>3, <1>10
  <2>2. \A i \in 1 .. Len(targets) : (i \in reentrant') <=> Reenters(i)
    BY <1>2, <1>3 DEF IInv, IndexOK, ReentrancyIsOnTheStack
  <2> QED BY <1>7, <2>1, <2>2
<1>12. ReentrancyIsOnTheStack'
  BY <1>8, <1>11 DEF ReentrancyIsOnTheStack
<1>13. Len(targets') <= Len(calls') /\ reentrant' \subseteq 1 .. Len(targets')
  <2>1. Len(targets') = Len(targets) + 1 /\ Len(targets') <= Len(calls)
    BY <1>1, <1>2, <1>6 DEF id
  <2>2. reentrant' \subseteq reentrant \union {id}
    BY <1>2
  <2>3. id = Len(targets') /\ id \in 1 .. Len(targets')
    BY <1>1, <1>6, <2>1
  <2>4. calls' = calls /\ 1 .. Len(targets) \subseteq 1 .. Len(targets')
    BY <1>1, <1>2, <2>1
  <2>5. reentrant' \subseteq 1 .. Len(targets')
    BY <1>1, <2>2, <2>3, <2>4
  <2> QED BY <2>1, <2>4, <2>5
<1> QED BY <1>2, <1>6, <1>8, <1>9, <1>12, <1>13 DEF IInv, ArenaOK, IndexOK

(* The invariant of TraceIndex::build holds while the arena is filled, at every
   turn of the pass and after it. *)
THEOREM IndexInvariance == Spec => []IInv
<1>1. Init => IInv
  <2> SUFFICES ASSUME Init PROVE IInv
    OBVIOUS
  <2>1. calls = <<>> /\ targets = <<>> /\ reentrant = {}
    BY DEF Init
  <2>2. Len(calls) = 0 /\ Len(targets) = 0 /\ calls \in Seq(CallOf) /\ targets \in Seq(SUBSET Target)
    BY <2>1
  <2> QED BY <2>1, <2>2 DEF IInv, ArenaOK, IndexOK, ReentrancyIsOnTheStack
<1>2. IInv /\ [Next]_vars => IInv'
  <2> SUFFICES ASSUME IInv, [Next]_vars PROVE IInv'
    OBVIOUS
  <2>1. CASE AddCall
    BY <2>1, AddPreserves
  <2>2. CASE IndexCall
    BY <2>2, IndexPreserves
  <2>3. CASE \/ AddStorageChange \/ AddLog \/ AddTokenTransfer
             \/ \E predicate \in Queries : Evaluate(predicate)
             \/ Release \/ UNCHANGED vars
    <3>1. UNCHANGED <<calls, targets, reentrant>>
      BY <2>3 DEF AddStorageChange, AddLog, AddTokenTransfer, Evaluate, Release, vars
    <3> QED BY <3>1, Kept
  <2> QED BY <2>1, <2>2, <2>3 DEF Next
<1> QED BY <1>1, <1>2, PTL DEF Spec

(* TraceIndex::build: after the pass, and at every point of it, a call is
   named reentrant exactly when a call above it has the same target. *)
THEOREM ReentrancyIndex == Spec => []ReentrancyIsOnTheStack
<1>1. IInv => ReentrancyIsOnTheStack
  BY DEF IInv, IndexOK
<1> QED BY IndexInvariance, <1>1, PTL

-----------------------------------------------------------------------------
(* The bindings, and the stable sort by order key.                          *)

Rising(list) == \A k, l \in 1 .. Len(list) : k < l => list[k].fact.id < list[l].fact.id

BindingsOf(kind, n, order, unresolved) ==
    [fact : [kind : {kind}, id : 1 .. n], order : {order[id] : id \in 1 .. n},
     unresolved : {unresolved}]

(* list holds the bindings of the selected facts, one each, by their place in
   the arena. *)
Binds(list, kind, n, order, selected, unresolved) ==
    /\ list \in Seq(BindingsOf(kind, n, order, unresolved))
    /\ \A k \in 1 .. Len(list) :
            list[k].fact.id \in selected /\ list[k].order = order[list[k].fact.id]
    /\ Rising(list)
    /\ \A id \in selected : \E k \in 1 .. Len(list) : list[k].fact.id = id

LEMMA BoundIs ==
    ASSUME NEW n \in Nat, NEW C, NEW order \in [1 .. n -> C],
           NEW kind, NEW selected \in SUBSET (1 .. n), NEW unresolved
    PROVE  Binds(Bound(kind, order, selected, unresolved), kind, n, order, selected, unresolved)
<1> DEFINE B == BindingsOf(kind, n, order, unresolved)
           binding(id) == [fact |-> [kind |-> kind, id |-> id],
                           order |-> order[id], unresolved |-> unresolved]
           e == [id \in 1 .. n |-> binding(id)]
           seqs == [id \in DOMAIN order |-> IF id \in selected THEN <<binding(id)>> ELSE <<>>]
           list == Bound(kind, order, selected, unresolved)
<1>1. list = FlattenSeq(seqs)
  BY DEF Bound
<1>2. \A id \in 1 .. n : binding(id) \in B /\ binding(id).fact.id = id /\ binding(id).order = order[id]
  BY DEF BindingsOf
<1> HIDE DEF B, binding, list
<1>3. /\ \A id \in selected : e[id] \in B
      /\ seqs = [i \in 1 .. n |-> IF i \in selected THEN <<e[i]>> ELSE <<>>]
      /\ \A id \in 1 .. n : e[id] = binding(id)
  BY <1>2
<1> HIDE DEF seqs, e
<1>4. list \in Seq(B)
  BY <1>1, <1>3, FlattenSelected
<1>5. PICK row : Keeps(list, row, e, n, selected)
  BY <1>1, <1>3, FlattenSelected
<1>6. \A k \in 1 .. Len(list) : /\ row[k] \in selected /\ list[k].fact.id = row[k]
                                /\ list[k].order = order[row[k]]
  <2>1. \A k \in 1 .. Len(list) : row[k] \in selected /\ list[k] = e[row[k]]
    BY <1>5 DEF Keeps
  <2>2. \A k \in 1 .. Len(list) : row[k] \in 1 .. n
    BY <2>1
  <2>3. \A k \in 1 .. Len(list) : list[k] = binding(row[k])
    BY <1>3, <2>1, <2>2
  <2> QED BY <1>2, <2>1, <2>2, <2>3
<1>7. Rising(list)
  BY <1>5, <1>6 DEF Rising, Keeps
<1>8. \A id \in selected : \E k \in 1 .. Len(list) : list[k].fact.id = id
  <2>1. \A id \in selected : \E k \in 1 .. Len(list) : row[k] = id
    BY <1>5 DEF Keeps
  <2> QED BY <1>6, <2>1
<1> QED BY <1>4, <1>6, <1>7, <1>8 DEF Binds, list, B

LEMMA WithOrderIs ==
    ASSUME NEW R, NEW list \in Seq(R), Rising(list), NEW order
    PROVE  LET chosen == WithOrder(list, order) IN
            /\ chosen \in Seq(R)
            /\ \A k \in 1 .. Len(chosen) :
                    chosen[k].order = order /\ \E i \in 1 .. Len(list) : chosen[k] = list[i]
            /\ Rising(chosen)
            /\ \A i \in 1 .. Len(list) :
                    list[i].order = order => \E k \in 1 .. Len(chosen) : chosen[k] = list[i]
<1> DEFINE seqs == [i \in DOMAIN list |-> IF list[i].order = order THEN <<list[i]>> ELSE <<>>]
           chosen == WithOrder(list, order)
<1>1. chosen = FlattenSeq(seqs)
  BY DEF WithOrder
<1> HIDE DEF chosen
<1> DEFINE selected == {i \in 1 .. Len(list) : list[i].order = order}
<1>2. /\ list \in [1 .. Len(list) -> R] /\ Len(list) \in Nat
      /\ seqs = [i \in 1 .. Len(list) |-> IF i \in selected THEN <<list[i]>> ELSE <<>>]
      /\ \A i \in 1 .. Len(list) : i \in selected <=> list[i].order = order
      /\ selected \in SUBSET (1 .. Len(list))
  OBVIOUS
<1> HIDE DEF seqs, selected
<1>3. chosen \in Seq(R)
  BY <1>1, <1>2, FlattenSelected
<1>4. PICK row : Keeps(chosen, row, list, Len(list), selected)
  BY <1>1, <1>2, FlattenSelected
<1>5. \A k \in 1 .. Len(chosen) :
        row[k] \in 1 .. Len(list) /\ chosen[k] = list[row[k]] /\ list[row[k]].order = order
  <2>1. \A k \in 1 .. Len(chosen) : row[k] \in selected /\ chosen[k] = list[row[k]]
    BY <1>4 DEF Keeps
  <2> QED BY <1>2, <2>1
<1>6. Rising(chosen)
  <2>1. \A k, l \in 1 .. Len(chosen) : k < l => row[k] < row[l]
    BY <1>4 DEF Keeps
  <2> QED BY <1>5, <2>1 DEF Rising
<1>7. ASSUME NEW i \in 1 .. Len(list), list[i].order = order
      PROVE  \E k \in 1 .. Len(chosen) : chosen[k] = list[i]
  <2>1. i \in selected
    BY <1>2, <1>7
  <2>2. PICK k \in 1 .. Len(chosen) : row[k] = i
    BY <1>4, <2>1 DEF Keeps
  <2> QED BY <1>5, <2>2
<1> QED BY <1>3, <1>5, <1>6, <1>7 DEF chosen

(* b comes before c: it has no order key, or a smaller one, or the same one
   and an earlier place in the arena. *)
Precedes(b, c) ==
    \/ b.order = None /\ c.order # None
    \/ b.order \in Nat /\ c.order \in Nat /\ b.order < c.order
    \/ b.order = c.order /\ b.fact.id < c.fact.id

(* Sorting keeps every binding, and leaves them in order. *)
LEMMA ByOrderSorts ==
    ASSUME NEW R, NEW list \in Seq(R), Rising(list), Len(calls) \in Nat,
           \A i \in 1 .. Len(list) : list[i].order \in 1 .. Len(calls) \union {None}
    PROVE  LET sorted == ByOrder(list) IN
            /\ sorted \in Seq(R)
            /\ \A k \in 1 .. Len(sorted) : \E i \in 1 .. Len(list) : sorted[k] = list[i]
            /\ \A i \in 1 .. Len(list) : \E k \in 1 .. Len(sorted) : sorted[k] = list[i]
            /\ \A k, l \in 1 .. Len(sorted) : k < l => Precedes(sorted[k], sorted[l])
<1> DEFINE key(r) == IF r = 1 THEN None ELSE r - 1
           n == Len(calls) + 1
           seqs == [r \in 1 .. n |-> WithOrder(list, key(r))]
           sorted == ByOrder(list)
<1>1. sorted = FlattenSeq(seqs)
  BY DEF ByOrder
<1> HIDE DEF sorted
<1>2. seqs \in Seq(Seq(R)) /\ Len(seqs) = n /\ n \in Nat
  <2>1. \A r \in 1 .. n : seqs[r] \in Seq(R)
    BY WithOrderIs
  <2>2. seqs = [r \in 1 .. n |-> seqs[r]] /\ n \in Nat
    OBVIOUS
  <2> HIDE DEF seqs, n
  <2> QED BY <2>1, <2>2
<1>3. \A r \in 1 .. n : seqs[r] = WithOrder(list, key(r))
  OBVIOUS
<1> HIDE DEF seqs, key, n
<1>4. sorted \in Seq(R)
  BY <1>1, <1>2, FlattenSeqLists
<1>5. PICK row, col : ComesFrom(sorted, row, col, seqs, n)
  BY <1>1, <1>2, FlattenSeqLists
<1>6. ASSUME NEW k \in 1 .. Len(sorted)
      PROVE  row[k] \in 1 .. n /\ col[k] \in 1 .. Len(seqs[row[k]]) /\ sorted[k] = seqs[row[k]][col[k]]
  <2>1. row \in Seq(1 .. n) /\ Len(row) = Len(sorted)
    BY <1>5 DEF ComesFrom
  <2>2. row[k] \in 1 .. n
    BY <1>2, <2>1
  <2> QED BY <1>5, <2>2 DEF ComesFrom
<1>7. ASSUME NEW r \in 1 .. n
      PROVE  /\ \A k \in 1 .. Len(seqs[r]) :
                    seqs[r][k].order = key(r) /\ \E i \in 1 .. Len(list) : seqs[r][k] = list[i]
             /\ Rising(seqs[r])
             /\ \A i \in 1 .. Len(list) :
                    list[i].order = key(r) => \E k \in 1 .. Len(seqs[r]) : seqs[r][k] = list[i]
  BY <1>3, WithOrderIs
<1>8. ASSUME NEW k \in 1 .. Len(sorted)
      PROVE  sorted[k].order = key(row[k]) /\ \E i \in 1 .. Len(list) : sorted[k] = list[i]
  <2>1. row[k] \in 1 .. n /\ col[k] \in 1 .. Len(seqs[row[k]]) /\ sorted[k] = seqs[row[k]][col[k]]
    BY <1>6
  <2> QED BY <1>7, <2>1
<1>9. ASSUME NEW i \in 1 .. Len(list) PROVE \E k \in 1 .. Len(sorted) : sorted[k] = list[i]
  <2>1. PICK r \in 1 .. n : list[i].order = key(r)
    <3>1. CASE list[i].order = None
      <4>1. 1 \in 1 .. n /\ key(1) = None
        BY <1>2 DEF key, n
      <4> QED BY <3>1, <4>1
    <3>2. CASE list[i].order \in 1 .. Len(calls)
      <4>1. list[i].order + 1 \in 1 .. n /\ key(list[i].order + 1) = list[i].order
        BY <3>2 DEF key, n
      <4> QED BY <4>1
    <3> QED BY <3>1, <3>2
  <2>2. PICK j \in 1 .. Len(seqs[r]) : seqs[r][j] = list[i]
    BY <1>7, <2>1
  <2>3. PICK k \in 1 .. Len(sorted) : row[k] = r /\ col[k] = j
    BY <1>5, <2>2 DEF ComesFrom
  <2> QED BY <1>6, <2>2, <2>3
<1>10. ASSUME NEW k \in 1 .. Len(sorted), NEW l \in 1 .. Len(sorted), k < l
       PROVE  Precedes(sorted[k], sorted[l])
  <2>1. row[k] < row[l] \/ (row[k] = row[l] /\ col[k] < col[l])
    BY <1>5, <1>10 DEF ComesFrom
  <2>2. sorted[k].order = key(row[k]) /\ sorted[l].order = key(row[l])
    BY <1>8
  <2>3. CASE row[k] < row[l]
    <3> DEFINE p == row[k]
               q == row[l]
    <3>0. p \in Nat /\ q \in Nat /\ p >= 1 /\ p < q
      <4>1. p \in 1 .. n /\ q \in 1 .. n
        BY <1>6
      <4>2. p < q
        BY <2>3
      <4> HIDE DEF p, q, n
      <4> QED BY <4>1, <4>2, <1>2
    <3> HIDE DEF p, q
    <3>1. q # 1 /\ key(q) = q - 1 /\ q - 1 \in Nat
      BY <3>0 DEF key
    <3>2. sorted[k].order = key(p) /\ sorted[l].order = key(q)
      BY <2>2 DEF p, q
    <3>3. CASE p = 1
      <4>1. sorted[k].order = None /\ sorted[l].order # None
        BY <3>1, <3>2, <3>3, NoneAssumption DEF key
      <4> QED BY <4>1, Zenon DEF Precedes
    <3>4. CASE p # 1
      <4>1. key(p) = p - 1 /\ p - 1 \in Nat /\ p - 1 < q - 1
        BY <3>0, <3>4 DEF key
      <4> HIDE DEF sorted, key
      <4>2. /\ sorted[k].order \in Nat /\ sorted[l].order \in Nat
            /\ sorted[k].order < sorted[l].order
        BY <3>1, <3>2, <4>1
      <4> QED BY <4>2, Zenon DEF Precedes
    <3> QED BY <3>3, <3>4
  <2>4. CASE row[k] = row[l] /\ col[k] < col[l]
    <3>1. sorted[k].fact.id < sorted[l].fact.id
      <4>1. Rising(seqs[row[k]])
        BY <1>6, <1>7
      <4> QED BY <1>6, <2>4, <4>1 DEF Rising
    <3> QED BY <2>2, <2>4, <3>1 DEF Precedes
  <2> QED BY <2>1, <2>3, <2>4
<1> QED BY <1>4, <1>8, <1>9, <1>10 DEF sorted

-----------------------------------------------------------------------------
(* The facts name calls and logs there are, and the bindings are those of   *)
(* the predicate evaluated.                                                 *)

FactsOK ==
    /\ changes \in Seq([shape : ChangeShapes, call : Nat])
    /\ \A i \in 1 .. Len(changes) : changes[i].call \in 1 .. Len(calls)
    /\ logs \in Seq([topics : LogTopics, call : Nat])
    /\ \A i \in 1 .. Len(logs) : logs[i].call \in 1 .. Len(calls)
    /\ transfers \in Seq([shape : TransferShapes, log : Nat])
    /\ \A i \in 1 .. Len(transfers) : transfers[i].log \in 1 .. Len(logs)

(* What the sort starts from: bindings by their place in the arena, each with
   its fact's call, or the only one of the transaction. *)
Sortable(list, kind) ==
    /\ \E R : list \in Seq(R)
    /\ Rising(list)
    /\ \A i \in 1 .. Len(list) :
            IF kind = "transaction" THEN list[i].order = None /\ list[i].fact.id = 1
            ELSE list[i].order \in 1 .. Len(calls) /\ list[i].order = Producer(list[i].fact)
    /\ kind = "transaction" => Len(list) <= 1

InExecutionOrder(list, kind) ==
    \A i, j \in DOMAIN list :
        /\ list[i].order \in {Producer(list[i].fact), None}
        /\ list[i].order = None <=> kind = "transaction"
        /\ i < j => \/ list[i].order < list[j].order
                    \/ /\ list[i].order = list[j].order
                       /\ list[i].fact.id < list[j].fact.id

LEMMA BoundSortable ==
    ASSUME NEW n \in Nat, NEW order \in [1 .. n -> 1 .. Len(calls)],
           NEW kind, NEW selected \in SUBSET (1 .. n), NEW unresolved, NEW query_kind,
           \A fact : fact.kind = kind /\ fact.id \in 1 .. n => Producer(fact) = order[fact.id],
           query_kind # "transaction"
    PROVE  Sortable(Bound(kind, order, selected, unresolved), query_kind)
<1> DEFINE list == Bound(kind, order, selected, unresolved)
           R == BindingsOf(kind, n, order, unresolved)
<1>1. Binds(list, kind, n, order, selected, unresolved)
  BY BoundIs
<1> HIDE DEF list
<1>3. ASSUME NEW k \in 1 .. Len(list)
      PROVE  list[k].order \in 1 .. Len(calls) /\ list[k].order = Producer(list[k].fact)
  <2>1. list[k] \in R /\ list[k].order = order[list[k].fact.id]
    BY <1>1 DEF Binds
  <2>2. /\ list[k].order \in 1 .. Len(calls)
        /\ list[k].fact.kind = kind /\ list[k].fact.id \in 1 .. n
    BY <2>1 DEF BindingsOf
  <2> QED BY <2>1, <2>2
<1> QED BY <1>1, <1>3 DEF Sortable, Binds, list

LEMMA SelectionSortable ==
    ASSUME ArenaOK, FactsOK, NEW p
    PROVE  Sortable(Selection(p), p.kind)
<1>1. /\ Len(calls) \in Nat /\ DOMAIN calls = 1 .. Len(calls)
      /\ Len(changes) \in Nat /\ DOMAIN changes = 1 .. Len(changes)
      /\ Len(logs) \in Nat /\ DOMAIN logs = 1 .. Len(logs)
      /\ Len(transfers) \in Nat /\ DOMAIN transfers = 1 .. Len(transfers)
  BY DEF ArenaOK, FactsOK
<1>2. CASE p.kind = "call" \/ p.kind = "value_flow"
  <2>1. CallOrder \in [1 .. Len(calls) -> 1 .. Len(calls)]
    BY <1>1 DEF CallOrder
  <2>2. \A fact : fact.kind = "call" /\ fact.id \in 1 .. Len(calls) =>
                        Producer(fact) = CallOrder[fact.id]
    BY <1>1 DEF Producer, CallOrder
  <2>3. PICK selected \in SUBSET (1 .. Len(calls)) :
            Selection(p) = Bound("call", CallOrder, selected, {})
    <3>1. CASE p.kind = "call"
      BY <1>1, <3>1 DEF Selection
    <3>2. CASE p.kind = "value_flow"
      BY <1>1, <3>2 DEF Selection
    <3> QED BY <1>2, <3>1, <3>2
  <2>4. p.kind # "transaction"
    BY <1>2
  <2> QED BY <1>1, <2>1, <2>2, <2>3, <2>4, BoundSortable
<1>3. CASE p.kind = "storage"
  <2>1. ChangeOrder \in [1 .. Len(changes) -> 1 .. Len(calls)]
    BY <1>1 DEF ChangeOrder, FactsOK
  <2>2. \A fact : fact.kind = "change" /\ fact.id \in 1 .. Len(changes) =>
                        Producer(fact) = ChangeOrder[fact.id]
    BY <1>1 DEF Producer, ChangeOrder
  <2>3. PICK selected \in SUBSET (1 .. Len(changes)) :
            Selection(p) = Bound("change", ChangeOrder, selected, Undecidable(p))
    BY <1>1, <1>3 DEF Selection
  <2>4. p.kind # "transaction"
    BY <1>3
  <2> QED BY <1>1, <2>1, <2>2, <2>3, <2>4, BoundSortable
<1>4. CASE p.kind = "log"
  <2>1. LogOrder \in [1 .. Len(logs) -> 1 .. Len(calls)]
    BY <1>1 DEF LogOrder, FactsOK
  <2>2. \A fact : fact.kind = "log" /\ fact.id \in 1 .. Len(logs) =>
                        Producer(fact) = LogOrder[fact.id]
    BY <1>1 DEF Producer, LogOrder
  <2>3. PICK selected \in SUBSET (1 .. Len(logs)) :
            Selection(p) = Bound("log", LogOrder, selected, {})
    BY <1>1, <1>4 DEF Selection
  <2>4. p.kind # "transaction"
    BY <1>4
  <2>5. Sortable(Bound("log", LogOrder, selected, {}), p.kind)
    <3>1. Len(logs) \in Nat
      BY <1>1
    <3> QED BY <2>1, <2>2, <2>4, <3>1, BoundSortable, SMTT(60)
  <2> QED BY <2>3, <2>5
<1>5. CASE p.kind = "token_transfer"
  <2>1. TransferOrder \in [1 .. Len(transfers) -> 1 .. Len(calls)]
    BY <1>1 DEF TransferOrder, FactsOK
  <2>2. \A fact : fact.kind = "transfer" /\ fact.id \in 1 .. Len(transfers) =>
                        Producer(fact) = TransferOrder[fact.id]
    BY <1>1 DEF Producer, TransferOrder
  <2>3. PICK selected \in SUBSET (1 .. Len(transfers)) :
            Selection(p) = Bound("transfer", TransferOrder, selected, Undecidable(p))
    BY <1>1, <1>5 DEF Selection
  <2>4. p.kind # "transaction"
    BY <1>5
  <2> QED BY <1>1, <2>1, <2>2, <2>3, <2>4, BoundSortable
<1>6. CASE p.kind = "transaction"
  <2> DEFINE b == [fact |-> [kind |-> "call", id |-> 1], order |-> None, unresolved |-> {}]
  <2>1. Selection(p) = <<b>> \/ Selection(p) = <<>>
    BY <1>6 DEF Selection
  <2>2. b.order = None /\ b.fact.id = 1
    OBVIOUS
  <2> HIDE DEF b
  <2>3. Sortable(<<b>>, p.kind)
    <3>1. <<b>> \in Seq({b}) /\ Len(<<b>>) = 1 /\ \A i \in 1 .. Len(<<b>>) : <<b>>[i] = b
      OBVIOUS
    <3>2. Rising(<<b>>)
      BY <3>1 DEF Rising
    <3>3. \E R : <<b>> \in Seq(R)
      BY <3>1
    <3>4. Len(<<b>>) <= 1
      BY <3>1
    <3> QED BY <1>6, <2>2, <3>1, <3>2, <3>3, <3>4 DEF Sortable
  <2>4. Sortable(<<>>, p.kind)
    <3>1. <<>> \in Seq({b}) /\ Len(<<>>) = 0
      OBVIOUS
    <3> QED BY <3>1 DEF Sortable, Rising
  <2> QED BY <2>1, <2>3, <2>4
<1>7. CASE p.kind \notin {"call", "value_flow", "storage", "log", "token_transfer", "transaction"}
  <2>1. Selection(p) = <<>> /\ <<>> \in Seq({})
    BY <1>7 DEF Selection
  <2> QED BY <1>7, <2>1 DEF Sortable, Rising
<1> QED BY <1>2, <1>3, <1>4, <1>5, <1>6, <1>7

LEMMA EvaluationInOrder ==
    ASSUME ArenaOK, FactsOK, NEW p
    PROVE  InExecutionOrder(ByOrder(Selection(p)), p.kind)
<1> DEFINE list == Selection(p)
           sorted == ByOrder(list)
<1>1. Sortable(list, p.kind) /\ Len(calls) \in Nat
  BY SelectionSortable DEF ArenaOK
<1> HIDE DEF list
<1>2. PICK R : list \in Seq(R)
  BY <1>1 DEF Sortable
<1>3. \A i \in 1 .. Len(list) : list[i].order \in 1 .. Len(calls) \union {None}
  BY <1>1 DEF Sortable
<1>4. /\ sorted \in Seq(R)
      /\ \A k \in 1 .. Len(sorted) : \E i \in 1 .. Len(list) : sorted[k] = list[i]
      /\ \A k, l \in 1 .. Len(sorted) : k < l => Precedes(sorted[k], sorted[l])
  BY <1>1, <1>2, <1>3, ByOrderSorts DEF Sortable
<1> HIDE DEF sorted
<1> SUFFICES ASSUME NEW i \in DOMAIN sorted, NEW j \in DOMAIN sorted
             PROVE  /\ sorted[i].order \in {Producer(sorted[i].fact), None}
                    /\ sorted[i].order = None <=> p.kind = "transaction"
                    /\ i < j => \/ sorted[i].order < sorted[j].order
                                \/ /\ sorted[i].order = sorted[j].order
                                   /\ sorted[i].fact.id < sorted[j].fact.id
  BY DEF InExecutionOrder, list, sorted
<1>5. i \in 1 .. Len(sorted) /\ j \in 1 .. Len(sorted)
  BY <1>4
<1>6. PICK a \in 1 .. Len(list) : sorted[i] = list[a]
  BY <1>4, <1>5
<1>7. PICK b \in 1 .. Len(list) : sorted[j] = list[b]
  BY <1>4, <1>5
<1>8. i < j => Precedes(list[a], list[b])
  BY <1>4, <1>5, <1>6, <1>7
<1>9. CASE p.kind = "transaction"
  <2>1. /\ list[a].order = None /\ list[b].order = None
        /\ list[a].fact.id = 1 /\ list[b].fact.id = 1
    BY <1>1, <1>9 DEF Sortable
  <2>2. ~ (1 < 1)
    OBVIOUS
  <2>3. ~(i < j)
    BY <1>8, <2>1, <2>2, NoneAssumption DEF Precedes
  <2> QED BY <1>6, <1>9, <2>1, <2>3
<1>10. CASE p.kind # "transaction"
  <2>1. /\ list[a].order \in 1 .. Len(calls) /\ list[a].order = Producer(list[a].fact)
        /\ list[b].order \in 1 .. Len(calls)
    BY <1>1, <1>10 DEF Sortable
  <2>2. list[a].order # None /\ list[b].order # None
    BY <2>1, NoneAssumption
  <2> QED BY <1>6, <1>7, <1>8, <1>10, <2>1, <2>2 DEF Precedes
<1> QED BY <1>9, <1>10

(* Nothing is bound but by the predicate evaluated, once the arena is filled
   and indexed. *)
QueryOK ==
    /\ query = None => bindings = <<>>
    /\ query # None => query \in Queries /\ Indexed

TraceInv == FactsOK /\ QueryOK

(* Filling and indexing happen before any evaluation. *)
LEMMA NoQueryYet ==
    ASSUME IInv, QueryOK, Room \/ Len(targets) < Len(calls)
    PROVE  query = None /\ bindings = <<>>
<1>1. Len(calls) \in Nat /\ Len(targets) \in Nat /\ (calls # <<>> => Len(calls) > 0)
  BY DEF IInv, ArenaOK, IndexOK
<1>2. Room => Len(targets) = 0
  BY DEF Room
<1> QED BY <1>1, <1>2 DEF QueryOK, Indexed

LEMMA FillingPreserves ==
    ASSUME IInv, TraceInv, AddCall \/ AddStorageChange \/ AddLog \/ AddTokenTransfer
    PROVE  FactsOK'
<1>1. Len(calls) \in Nat /\ Len(logs) \in Nat
  BY DEF IInv, ArenaOK, TraceInv, FactsOK
<1>2. CASE AddCall
  <2>1. /\ changes = <<>> /\ logs = <<>> /\ transfers = <<>>
        /\ changes' = <<>> /\ logs' = <<>> /\ transfers' = <<>>
    BY <1>2 DEF AddCall
  <2> QED BY <2>1 DEF FactsOK
<1>3. CASE AddStorageChange
  <2>1. PICK shape \in ChangeShapes, call \in 1 .. Len(calls) :
            changes' = Append(changes, [shape |-> shape, call |-> call])
    BY <1>3 DEF AddStorageChange
  <2>2. UNCHANGED <<calls, logs, transfers>>
    BY <1>3 DEF AddStorageChange
  <2> DEFINE change == [shape |-> shape, call |-> call]
  <2>3. change \in [shape : ChangeShapes, call : Nat] /\ change.call = call
    BY <1>1
  <2> HIDE DEF change
  <2>4. /\ changes' \in Seq([shape : ChangeShapes, call : Nat])
        /\ Len(changes') = Len(changes) + 1 /\ changes'[Len(changes) + 1] = change
        /\ \A i \in 1 .. Len(changes) : changes'[i] = changes[i]
    <3>1. changes' = Append(changes, change)
      BY <2>1 DEF change
    <3> QED BY <2>3, <3>1, AppendFacts DEF TraceInv, FactsOK
  <2>5. \A i \in 1 .. Len(changes') : i \in 1 .. Len(changes) \/ i = Len(changes) + 1
    BY <2>4 DEF TraceInv, FactsOK
  <2> QED BY <2>2, <2>3, <2>4, <2>5 DEF TraceInv, FactsOK
<1>4. CASE AddLog
  <2>1. PICK topics \in LogTopics, call \in 1 .. Len(calls) :
            logs' = Append(logs, [topics |-> topics, call |-> call])
    BY <1>4 DEF AddLog
  <2>2. UNCHANGED <<calls, changes, transfers>> /\ transfers = <<>>
    BY <1>4 DEF AddLog
  <2> DEFINE log == [topics |-> topics, call |-> call]
  <2>3. log \in [topics : LogTopics, call : Nat] /\ log.call = call
    BY <1>1
  <2> HIDE DEF log
  <2>4. /\ logs' \in Seq([topics : LogTopics, call : Nat])
        /\ Len(logs') = Len(logs) + 1 /\ logs'[Len(logs) + 1] = log
        /\ \A i \in 1 .. Len(logs) : logs'[i] = logs[i]
    <3>1. logs' = Append(logs, log)
      BY <2>1 DEF log
    <3> QED BY <2>3, <3>1, AppendFacts DEF TraceInv, FactsOK
  <2>5. \A i \in 1 .. Len(logs') : i \in 1 .. Len(logs) \/ i = Len(logs) + 1
    BY <2>4 DEF TraceInv, FactsOK
  <2>6. \A i \in 1 .. Len(logs') : logs'[i].call \in 1 .. Len(calls)
    BY <2>3, <2>4, <2>5 DEF TraceInv, FactsOK
  <2>7. /\ transfers' \in Seq([shape : TransferShapes, log : Nat])
        /\ \A i \in 1 .. Len(transfers') : transfers'[i].log \in 1 .. Len(logs')
    BY <2>2
  <2> QED BY <2>2, <2>4, <2>6, <2>7 DEF TraceInv, FactsOK
<1>5. CASE AddTokenTransfer
  <2>1. PICK shape \in TransferShapes, log \in 1 .. Len(logs) :
            transfers' = Append(transfers, [shape |-> shape, log |-> log])
    BY <1>5 DEF AddTokenTransfer
  <2>2. UNCHANGED <<calls, changes, logs>>
    BY <1>5 DEF AddTokenTransfer
  <2> DEFINE transfer == [shape |-> shape, log |-> log]
  <2>3. transfer \in [shape : TransferShapes, log : Nat] /\ transfer.log = log
    BY <1>1
  <2> HIDE DEF transfer
  <2>4. /\ transfers' \in Seq([shape : TransferShapes, log : Nat])
        /\ Len(transfers') = Len(transfers) + 1 /\ transfers'[Len(transfers) + 1] = transfer
        /\ \A i \in 1 .. Len(transfers) : transfers'[i] = transfers[i]
    <3>1. transfers' = Append(transfers, transfer)
      BY <2>1 DEF transfer
    <3> QED BY <2>3, <3>1, AppendFacts DEF TraceInv, FactsOK
  <2>5. \A i \in 1 .. Len(transfers') : i \in 1 .. Len(transfers) \/ i = Len(transfers) + 1
    BY <2>4 DEF TraceInv, FactsOK
  <2>6. \A i \in 1 .. Len(transfers') : transfers'[i].log \in 1 .. Len(logs)
    BY <2>3, <2>4, <2>5 DEF TraceInv, FactsOK
  <2> QED BY <2>2, <2>4, <2>6 DEF TraceInv, FactsOK
<1> QED BY <1>2, <1>3, <1>4, <1>5

(* Every step, by what it does to the query: an evaluation, its release, or
   nothing, and then either nothing is bound or the trace stands still. *)
LEMMA StepsOfQuery ==
    ASSUME IInv, TraceInv, [Next]_vars
    PROVE  /\ TraceInv'
           /\ \/ query' = None /\ bindings' = <<>>
              \/ /\ UNCHANGED <<trace, targets, reentrant>>
                 /\ \/ UNCHANGED <<query, bindings>>
                    \/ /\ query' \in Queries /\ bindings' = ByOrder(Selection(query'))
                       /\ Indexed
<1>1. CASE AddCall \/ AddStorageChange \/ AddLog \/ AddTokenTransfer
  <2>1. query = None /\ bindings = <<>>
    <3>1. Room
      BY <1>1 DEF AddCall, AddStorageChange, AddLog, AddTokenTransfer
    <3> QED BY <3>1, NoQueryYet DEF TraceInv
  <2>2. UNCHANGED <<query, bindings>>
    BY <1>1 DEF AddCall, AddStorageChange, AddLog, AddTokenTransfer
  <2>3. FactsOK'
    BY <1>1, FillingPreserves
  <2> QED BY <2>1, <2>2, <2>3 DEF TraceInv, QueryOK
<1>2. CASE IndexCall
  <2>1. query = None /\ bindings = <<>>
    BY <1>2, NoQueryYet DEF TraceInv, IndexCall
  <2>2. UNCHANGED <<calls, changes, logs, transfers, query, bindings>>
    BY <1>2 DEF IndexCall
  <2> QED BY <2>1, <2>2 DEF TraceInv, QueryOK, FactsOK
<1>3. ASSUME NEW predicate \in Queries, Evaluate(predicate)
      PROVE  /\ TraceInv' /\ UNCHANGED <<trace, targets, reentrant>>
             /\ query' \in Queries /\ bindings' = ByOrder(Selection(query')) /\ Indexed
  <2>1. /\ UNCHANGED <<transaction, calls, changes, logs, transfers, targets, reentrant>>
        /\ query' = predicate /\ Indexed /\ bindings' = ByOrder(Selection(predicate))
    BY <1>3 DEF Evaluate
  <2>2. query' # None
    BY <2>1, NoneAssumption
  <2> QED BY <2>1, <2>2 DEF TraceInv, QueryOK, FactsOK, Indexed, trace
<1>4. CASE Release
  <2>1. query' = None /\ bindings' = <<>>
        /\ UNCHANGED <<calls, changes, logs, transfers>>
    BY <1>4 DEF Release
  <2> QED BY <2>1 DEF TraceInv, QueryOK, FactsOK
<1>5. CASE UNCHANGED vars
  <2>1. UNCHANGED <<transaction, calls, changes, logs, transfers, targets, reentrant,
                    query, bindings>>
    BY <1>5 DEF vars
  <2> QED BY <2>1 DEF TraceInv, QueryOK, FactsOK, Indexed, trace
<1> QED BY <1>1, <1>2, <1>3, <1>4, <1>5 DEF Next

LEMMA TraceInit == Init => TraceInv
BY DEF Init, TraceInv, FactsOK, QueryOK

(* evaluate's sort: the bindings of a predicate come in the order in which the
   facts' calls executed and, within a call, in which they were recorded. *)
THEOREM ExecutionOrder == Spec => []BindingsInExecutionOrder
<1>1. Init => BindingsInExecutionOrder
  BY DEF Init, BindingsInExecutionOrder
<1>2. IInv /\ TraceInv /\ BindingsInExecutionOrder /\ [Next]_vars
        => TraceInv' /\ BindingsInExecutionOrder'
  <2> SUFFICES ASSUME IInv, TraceInv, BindingsInExecutionOrder, [Next]_vars
               PROVE  TraceInv' /\ BindingsInExecutionOrder'
    OBVIOUS
  <2>1. CASE query' = None /\ bindings' = <<>>
    BY <2>1, StepsOfQuery DEF BindingsInExecutionOrder
  <2>2. CASE UNCHANGED trace
    <3>1. \A fact : Producer(fact)' = Producer(fact)
      BY <2>2 DEF Producer, trace
    <3>2. CASE UNCHANGED <<query, bindings>>
      BY <3>1, <3>2, StepsOfQuery DEF BindingsInExecutionOrder
    <3>3. CASE bindings' = ByOrder(Selection(query'))
      <4>1. InExecutionOrder(bindings', query'.kind)
        BY <3>3, EvaluationInOrder DEF IInv, TraceInv
      <4> QED BY <3>1, <4>1, StepsOfQuery DEF BindingsInExecutionOrder, InExecutionOrder
    <3> QED BY <2>1, <3>2, <3>3, StepsOfQuery
  <2> QED BY <2>1, <2>2, StepsOfQuery
<1> QED BY IndexInvariance, TraceInit, <1>1, <1>2, PTL DEF Spec

-----------------------------------------------------------------------------
(* Hexadecimal texts: what the parsers of module Hex take for a value is     *)
(* what spells it.                                                           *)

(* Each of the sixteen digits is worth its place, in either case. *)
LEMMA DigitValues ==
    /\ \A n \in 0 .. 15 : LowerDigits[n + 1] \in HexDigit /\ ValueOfDigit[LowerDigits[n + 1]] = n
    /\ \A c \in HexDigit : ValueOfDigit[c] \in 0 .. 15
    /\ "x" \notin HexDigit
<1> DEFINE value(c) == IF \E i \in 1 .. 6 : UpperDigits[i] = c
                       THEN 9 + (CHOOSE i \in 1 .. 6 : UpperDigits[i] = c)
                       ELSE (CHOOSE i \in 1 .. 16 : LowerDigits[i] = c) - 1
<1>1. ValueOfDigit = [c \in HexDigit |-> value(c)]
  BY DEF ValueOfDigit
<1>2. ASSUME NEW i \in 1 .. 16, NEW j \in 1 .. 16, LowerDigits[i] = LowerDigits[j]
      PROVE  i = j
  BY <1>2 DEF LowerDigits
<1>3. ASSUME NEW i \in 1 .. 6, NEW j \in 1 .. 16
      PROVE  UpperDigits[i] # LowerDigits[j] /\ UpperDigits[i] # "x" /\ LowerDigits[j] # "x"
  BY DEF LowerDigits, UpperDigits
<1>4. "x" \notin HexDigit
  BY <1>3 DEF HexDigit
<1>5. ASSUME NEW n \in 0 .. 15
      PROVE  LowerDigits[n + 1] \in HexDigit /\ ValueOfDigit[LowerDigits[n + 1]] = n
  <2>1. n + 1 \in 1 .. 16
    OBVIOUS
  <2>2. LowerDigits[n + 1] \in HexDigit
    BY <2>1 DEF HexDigit
  <2>3. ~\E i \in 1 .. 6 : UpperDigits[i] = LowerDigits[n + 1]
    BY <1>3, <2>1
  <2>4. (CHOOSE i \in 1 .. 16 : LowerDigits[i] = LowerDigits[n + 1]) = n + 1
    BY <1>2, <2>1
  <2>5. value(LowerDigits[n + 1]) = (n + 1) - 1
    BY <2>3, <2>4, Zenon
  <2> HIDE DEF value
  <2> QED BY <1>1, <2>2, <2>5
<1>6. ASSUME NEW c \in HexDigit PROVE ValueOfDigit[c] \in 0 .. 15
  <2>1. CASE \E i \in 1 .. 6 : UpperDigits[i] = c
    <3> DEFINE u == CHOOSE i \in 1 .. 6 : UpperDigits[i] = c
    <3>1. u \in 1 .. 6
      BY <2>1
    <3>2. ValueOfDigit[c] = 9 + u
      BY <1>1, <2>1
    <3> HIDE DEF u
    <3> QED BY <3>1, <3>2
  <2>2. CASE ~ \E i \in 1 .. 6 : UpperDigits[i] = c
    <3>1. \E i \in 1 .. 16 : LowerDigits[i] = c
      BY <2>2 DEF HexDigit
    <3> DEFINE l == CHOOSE i \in 1 .. 16 : LowerDigits[i] = c
    <3>2. l \in 1 .. 16
      BY <3>1
    <3>3. ValueOfDigit[c] = l - 1
      BY <1>1, <2>2
    <3> HIDE DEF l
    <3> QED BY <3>2, <3>3
  <2> QED BY <2>1, <2>2
<1> QED BY <1>4, <1>5, <1>6

(* The half of a byte that the kth digit writes. *)
Nibble(bytes, k) == IF k % 2 = 1 THEN bytes[(k + 1) \div 2] \div 16 ELSE bytes[k \div 2] % 16

(* Display, without the prefix: two digits for every byte, each of the value
   of its half of the byte. *)
LEMMA DisplayIs ==
    ASSUME NEW width \in Nat, NEW bytes \in BytesOf(width)
    PROVE  LET plain == SubSeq(Display(bytes), 3, 2 + 2 * Len(bytes)) IN
            /\ Len(bytes) = width /\ Len(plain) = 2 * width
            /\ \A k \in 1 .. 2 * width :
                    Nibble(bytes, k) \in 0 .. 15 /\ ValueOfDigit[plain[k]] = Nibble(bytes, k)
<1> DEFINE D == [k \in 1 .. 2 * Len(bytes) |->
                    LowerDigits[1 + (IF k % 2 = 1 THEN bytes[(k + 1) \div 2] \div 16
                                     ELSE bytes[k \div 2] % 16)]]
           plain == SubSeq(Display(bytes), 3, 2 + 2 * Len(bytes))
<1>1. bytes \in Seq(Byte) /\ Len(bytes) = width
  BY DEF BytesOf
<1>2. ASSUME NEW k \in 1 .. 2 * width PROVE Nibble(bytes, k) \in 0 .. 15
  <2>1. CASE k % 2 = 1
    <3>1. (k + 1) \div 2 \in 1 .. width
      OBVIOUS
    <3>2. bytes[(k + 1) \div 2] \in 0 .. 255
      BY <3>1 DEF BytesOf, Byte
    <3> QED BY <2>1, <3>2 DEF Nibble
  <2>2. CASE k % 2 # 1
    <3>1. k \div 2 \in 1 .. width
      BY <2>2
    <3>2. bytes[k \div 2] \in 0 .. 255
      BY <3>1 DEF BytesOf, Byte
    <3> QED BY <2>2, <3>2 DEF Nibble
  <2> QED BY <2>1, <2>2
<1>3. ASSUME NEW k \in 1 .. 2 * width PROVE D[k] = LowerDigits[Nibble(bytes, k) + 1]
  <2>1. D[k] = LowerDigits[1 + Nibble(bytes, k)]
    BY <1>1 DEF Nibble
  <2>2. 1 + Nibble(bytes, k) = Nibble(bytes, k) + 1
    BY <1>2
  <2> HIDE DEF D
  <2> QED BY <2>1, <2>2
<1>4. D \in Seq(HexDigit) /\ Len(D) = 2 * width
  <2>1. \A k \in 1 .. 2 * width : D[k] \in HexDigit
    BY <1>2, <1>3, DigitValues
  <2>2. D = [k \in 1 .. 2 * width |-> D[k]]
    BY <1>1
  <2> HIDE DEF D
  <2> QED BY <2>1, <2>2
<1>5. Display(bytes) = <<"0", "x">> \o D
  BY DEF Display
<1> HIDE DEF D
<1>6. /\ Len(plain) = 2 * width
      /\ \A k \in 1 .. 2 * width : plain[k] = D[k]
  BY <1>1, <1>4, <1>5
<1> HIDE DEF plain
<1>7. ASSUME NEW k \in 1 .. 2 * width PROVE ValueOfDigit[plain[k]] = Nibble(bytes, k)
  BY <1>2, <1>3, <1>6, DigitValues
<1> QED BY <1>1, <1>2, <1>6, <1>7 DEF plain
(* A byte and its two halves. *)
LEMMA ByteIsItsNibbles ==
    ASSUME NEW b \in Byte, NEW h \in 0 .. 15, NEW l \in 0 .. 15
    PROVE  /\ 16 * h + l = b <=> h = b \div 16 /\ l = b % 16
           /\ 16 * h + l \in Byte
BY DEF Byte

(* What spells a value, apart from the prefix. *)
Digitwise(digits, bytes, width) ==
    /\ Len(digits) = 2 * width /\ AllHex(digits)
    /\ \A k \in 1 .. 2 * width : ValueOfDigit[digits[k]] = Nibble(bytes, k)

(* Two digits at a time, against one at a time. *)
LEMMA BytesOfDigits ==
    ASSUME NEW width \in Nat, NEW S, NEW digits \in Seq(S), NEW bytes \in BytesOf(width),
           Len(digits) = 2 * width, AllHex(digits)
    PROVE  /\ Bytes(digits) \in BytesOf(width)
           /\ Bytes(digits) = bytes <=> Digitwise(digits, bytes, width)
<1> DEFINE h(i) == ValueOfDigit[digits[2 * i - 1]]
           l(i) == ValueOfDigit[digits[2 * i]]
<1>1. Bytes(digits) = [i \in 1 .. width |-> 16 * h(i) + l(i)]
  BY DEF Bytes
<1>2. ASSUME NEW i \in 1 .. width
      PROVE  /\ 2 * i - 1 \in 1 .. 2 * width /\ 2 * i \in 1 .. 2 * width
             /\ h(i) \in 0 .. 15 /\ l(i) \in 0 .. 15 /\ bytes[i] \in Byte
             /\ Nibble(bytes, 2 * i - 1) = bytes[i] \div 16
             /\ Nibble(bytes, 2 * i) = bytes[i] % 16
  <2>1. 2 * i - 1 \in 1 .. 2 * width /\ 2 * i \in 1 .. 2 * width
    OBVIOUS
  <2>2. digits[2 * i - 1] \in HexDigit /\ digits[2 * i] \in HexDigit
    BY <2>1 DEF AllHex
  <2>3. bytes[i] \in Byte
    BY DEF BytesOf
  <2>4. /\ (2 * i - 1) % 2 = 1 /\ ((2 * i - 1) + 1) \div 2 = i
        /\ (2 * i) % 2 = 0 /\ (2 * i) \div 2 = i
    OBVIOUS
  <2>5. /\ Nibble(bytes, 2 * i - 1) = bytes[i] \div 16
        /\ Nibble(bytes, 2 * i) = bytes[i] % 16
    BY <2>4 DEF Nibble
  <2> QED BY <2>1, <2>2, <2>3, <2>5, DigitValues
<1>3. ASSUME NEW k \in 1 .. 2 * width
      PROVE  \E i \in 1 .. width : k = 2 * i - 1 \/ k = 2 * i
  <2>1. CASE k % 2 = 1
    <3>1. (k + 1) \div 2 \in 1 .. width /\ k = 2 * ((k + 1) \div 2) - 1
      BY <2>1
    <3> QED BY <3>1
  <2>2. CASE k % 2 # 1
    <3>1. k \div 2 \in 1 .. width /\ k = 2 * (k \div 2)
      BY <2>2
    <3> QED BY <3>1
  <2> QED BY <2>1, <2>2
<1>4. Bytes(digits) \in BytesOf(width)
  <2> HIDE DEF h, l
  <2>1. ASSUME NEW i \in 1 .. width PROVE 16 * h(i) + l(i) \in Byte
    <3>1. h(i) \in 0 .. 15 /\ l(i) \in 0 .. 15 /\ bytes[i] \in Byte
      BY <1>2
    <3> QED BY <3>1, ByteIsItsNibbles
  <2> QED BY <1>1, <2>1 DEF BytesOf
<1>5. Bytes(digits) = bytes <=> \A i \in 1 .. width : 16 * h(i) + l(i) = bytes[i]
  <2>1. bytes = [i \in 1 .. width |-> bytes[i]]
    BY DEF BytesOf
  <2> HIDE DEF h, l
  <2> QED BY <1>1, <2>1
<1>6. ASSUME NEW i \in 1 .. width
      PROVE  16 * h(i) + l(i) = bytes[i] <=>
                h(i) = Nibble(bytes, 2 * i - 1) /\ l(i) = Nibble(bytes, 2 * i)
  <2> HIDE DEF h, l
  <2>1. bytes[i] \in Byte /\ h(i) \in 0 .. 15 /\ l(i) \in 0 .. 15
    BY <1>2
  <2>2. 16 * h(i) + l(i) = bytes[i] <=> h(i) = bytes[i] \div 16 /\ l(i) = bytes[i] % 16
    BY <2>1, ByteIsItsNibbles
  <2> QED BY <1>2, <2>2
<1>7. (\A i \in 1 .. width : h(i) = Nibble(bytes, 2 * i - 1) /\ l(i) = Nibble(bytes, 2 * i)) <=>
      \A k \in 1 .. 2 * width : ValueOfDigit[digits[k]] = Nibble(bytes, k)
  BY <1>2, <1>3
<1> HIDE DEF h, l
<1> QED BY <1>4, <1>5, <1>6, <1>7 DEF Digitwise
(* The parsers of string attributes against the display of values. *)
LEMMA ParsedIsSpelled ==
    ASSUME NEW width \in Nat, NEW S, NEW text \in Seq(S), NEW bytes \in BytesOf(width),
           Malformed \notin BytesOf(width)
    PROVE  /\ FixedBytes(text, width) # Malformed /\ bytes = FixedBytes(text, width)
                <=> Spells(text, bytes)
           /\ FixedBytes(text, width) \in BytesOf(width) \union {Malformed}
<1> DEFINE plain == SubSeq(Display(bytes), 3, 2 + 2 * Len(bytes))
           spelled(digits) ==
            /\ Len(digits) = Len(plain)
            /\ \A i \in 1 .. Len(plain) :
                    digits[i] \in HexDigit /\ ValueOfDigit[digits[i]] = ValueOfDigit[plain[i]]
           prefixed == Len(text) >= 2 /\ text[1] = "0" /\ text[2] = "x"
           rest == SubSeq(text, 3, Len(text))
<1>1. /\ Len(plain) = 2 * width
      /\ \A k \in 1 .. 2 * width : ValueOfDigit[plain[k]] = Nibble(bytes, k)
  BY DisplayIs
<1>2. Spells(text, bytes) <=> spelled(text) \/ (IsPrefix(<<"0", "x">>, text) /\ spelled(rest))
  BY DEF Spells
<1> HIDE DEF plain
<1>3. \A digits : spelled(digits) <=> Digitwise(digits, bytes, width)
  BY <1>1 DEF Digitwise, AllHex
<1> HIDE DEF spelled
<1>4. IsPrefix(<<"0", "x">>, text) <=> prefixed
  BY DEF IsPrefix
<1>5. prefixed => ~Digitwise(text, bytes, width)
  BY DigitValues DEF Digitwise, AllHex
<1>6. Spells(text, bytes) <=> Digitwise(Digits(text), bytes, width)
  BY <1>2, <1>3, <1>4, <1>5 DEF Digits
<1>7. Digits(text) \in Seq(S)
  BY DEF Digits
<1>8. CASE Len(Digits(text)) = 2 * width /\ AllHex(Digits(text))
  <2>1. FixedBytes(text, width) = Bytes(Digits(text))
    BY <1>8 DEF FixedBytes
  <2> QED BY <1>6, <1>7, <1>8, <2>1, BytesOfDigits
<1>9. CASE ~(Len(Digits(text)) = 2 * width /\ AllHex(Digits(text)))
  <2>1. FixedBytes(text, width) = Malformed
    BY <1>9 DEF FixedBytes
  <2> QED BY <1>6, <1>9, <2>1 DEF Digitwise
<1> QED BY <1>8, <1>9

-----------------------------------------------------------------------------
(* What a predicate's attributes say, one by one.                            *)

(* has_ancestor_of_kind, which goes up the parents one at a time, against the
   least set of calls closed under parents. *)
LEMMA AncestorOfKind ==
    ASSUME ArenaOK, NEW id \in 1 .. Len(calls), NEW name
    PROVE  HasAncestorOfKind(id, name) <=> \E j \in Ancestors(id) : IsOfKind(j, name)
<1> DEFINE n == Len(calls)
           up(above) == [c \in 1 .. n |->
                            /\ calls[c].parent # None
                            /\ IsOfKind(calls[c].parent, name) \/ above[calls[c].parent]]
           walk == CHOOSE above : above = up(above)
           meant == [c \in 1 .. n |-> \E j \in Ancestors(c) : IsOfKind(j, name)]
<1>1. \A c \in 1 .. n : calls[c].parent = None \/ calls[c].parent \in 1 .. c - 1
  BY DEF ArenaOK
<1>2. n \in Nat
  BY DEF ArenaOK
<1>3. meant = up(meant)
  <2>1. ASSUME NEW c \in 1 .. n PROVE meant[c] = up(meant)[c]
    <3>1. CASE calls[c].parent = None
      BY <3>1, AncestorsStep
    <3>2. CASE calls[c].parent # None
      <4>1. calls[c].parent \in 1 .. n
        BY <1>1, <1>2, <3>2
      <4>2. Ancestors(c) = Ancestors(calls[c].parent) \union {calls[c].parent}
        BY <3>2, AncestorsStep
      <4>3. meant[c] <=> IsOfKind(calls[c].parent, name) \/ meant[calls[c].parent]
        BY <4>1, <4>2
      <4>4. up(meant)[c] <=> IsOfKind(calls[c].parent, name) \/ meant[calls[c].parent]
        BY <3>2
      <4> QED BY <4>3, <4>4
    <3> QED BY <3>1, <3>2
  <2> QED BY <2>1
<1>4. walk = up(walk)
  BY <1>3
<1>5. HasAncestorOfKind(id, name) <=> walk[id]
  BY DEF HasAncestorOfKind
<1> HIDE DEF walk, n
<1>6. \A c \in 1 .. n : walk[c] <=> meant[c]
  <2> SUFFICES ASSUME NEW k \in 1 .. n, ~(walk[k] <=> meant[k]) PROVE FALSE
    OBVIOUS
  <2>1. PICK c \in 1 .. n : /\ ~(walk[c] <=> meant[c])
                            /\ \A d \in 1 .. n : d < c => (walk[d] <=> meant[d])
    <3> DEFINE wrong == {c \in 1 .. n : ~(walk[c] <=> meant[c])}
    <3>1. wrong \subseteq Nat /\ k \in wrong
      BY <1>2
    <3> HIDE DEF wrong
    <3>2. \E c \in wrong : \A d \in wrong : c <= d
      BY <3>1, MinExists
    <3> QED BY <1>2, <3>2 DEF wrong
  <2>2. walk[c] <=> calls[c].parent # None /\ (IsOfKind(calls[c].parent, name)
                                             \/ walk[calls[c].parent])
    BY <1>4
  <2>3. meant[c] <=> calls[c].parent # None /\ (IsOfKind(calls[c].parent, name)
                                              \/ meant[calls[c].parent])
    BY <1>3
  <2>4. calls[c].parent # None =>
            calls[c].parent \in 1 .. n /\ calls[c].parent < c
    BY <1>1, <1>2
  <2> HIDE DEF meant, up
  <2> QED BY <2>1, <2>2, <2>3, <2>4
<1> QED BY <1>5, <1>6 DEF n

(* ident, bool_attr, int_attr and str_attr find what the predicate gives. *)
LEMMA AttrIs ==
    ASSUME NEW p \in Queries, NEW name \in DOMAIN Schema[p.kind]
    PROVE  Attr(p, name, Schema[p.kind][name]) =
            IF name \in DOMAIN p.attrs THEN {p.attrs[name].value} ELSE {}
BY QueriesAssumption DEF Attr

(* A number is compared as a number: the amount may leave the signed type but
   the literal cannot reach its end. *)
LEMMA ComparesNumbers ==
    ASSUME NEW amount \in Nat, NEW literal \in Int, literal < MaxI128
    PROVE  /\ AtLeast(amount, literal) <=> amount >= literal
           /\ AtMost(amount, literal) <=> amount <= literal
BY BoundsAssumption DEF AtLeast, AtMost, AsI128

LEMMA LiteralIsSpelled ==
    ASSUME NEW width \in {WordWidth, SelectorWidth, AddressWidth},
           NEW text \in Seq(STRING), NEW bytes \in BytesOf(width)
    PROVE  FixedBytes(text, width) # Malformed /\ bytes = FixedBytes(text, width)
                <=> Spells(text, bytes)
<1>1. width \in Nat /\ Malformed \notin BytesOf(width)
  BY ShapesAssumption
<1> QED BY <1>1, ParsedIsSpelled

(* An attribute that the predicate gives is true of the fact. *)
TrueOf(p, name, id) ==
    name \in DOMAIN p.attrs => FactMeans(p.kind, name, p.attrs[name].value, id)

(* Every one of them is. *)
AllTrueOf(p, id) ==
    \A name \in DOMAIN p.attrs : FactMeans(p.kind, name, p.attrs[name].value, id)

(* The six evaluate functions, attribute by attribute. *)
LEMMA CallSelected ==
    ASSUME ArenaOK, IndexOK, Len(targets) = Len(calls),
           NEW p \in Queries, p.kind = "call", NEW id \in 1 .. Len(calls)
    PROVE  SelectsCall(p, id) <=> AllTrueOf(p, id)
<1> DEFINE call == calls[id].shape
           given(name) == IF name \in DOMAIN p.attrs THEN {p.attrs[name].value} ELSE {}
<1>1. /\ IdentAttr(p, "kind") = given("kind")
      /\ BoolAttr(p, "reentrant") = given("reentrant")
      /\ IdentAttr(p, "value_flow") = given("value_flow")
      /\ IntAttr(p, "min_value") = given("min_value")
      /\ StrAttr(p, "selector") = given("selector")
      /\ BoolAttr(p, "succeeded") = given("succeeded")
      /\ IdentAttr(p, "parent_kind") = given("parent_kind")
      /\ IdentAttr(p, "ancestor_kind") = given("ancestor_kind")
  <2>1. /\ Schema[p.kind]["kind"] = "ident" /\ Schema[p.kind]["reentrant"] = "bool"
        /\ Schema[p.kind]["value_flow"] = "ident" /\ Schema[p.kind]["min_value"] = "int"
        /\ Schema[p.kind]["selector"] = "str" /\ Schema[p.kind]["succeeded"] = "bool"
        /\ Schema[p.kind]["parent_kind"] = "ident" /\ Schema[p.kind]["ancestor_kind"] = "ident"
        /\ {"kind", "reentrant", "value_flow", "min_value", "selector", "succeeded",
            "parent_kind", "ancestor_kind"} \subseteq DOMAIN Schema[p.kind]
    BY DEF Schema
  <2> QED BY <2>1, AttrIs DEF IdentAttr, BoolAttr, IntAttr, StrAttr
<1>2. /\ call \in CallShapes /\ call.value \in Nat
      /\ call.selector \in BytesOf(SelectorWidth) \union {None}
      /\ SelectorWidth \in Nat /\ None \notin BytesOf(SelectorWidth)
      /\ Malformed \notin BytesOf(SelectorWidth)
  <2>1. calls[id] \in CallOf
    BY DEF ArenaOK
  <2>2. call \in CallShapes
    BY <2>1 DEF CallOf
  <2> QED BY <2>2, ShapesAssumption
<1>3. DOMAIN p.attrs \subseteq {"kind", "reentrant", "value_flow", "min_value", "selector",
                              "succeeded", "parent_kind", "ancestor_kind"}
  BY QueriesAssumption DEF Schema
<1> DEFINE v(name) == p.attrs[name].value
<1>4. (\A name \in IdentAttr(p, "kind") : IsOfKind(id, name)) <=> TrueOf(p, "kind", id)
  <2>1. FactMeans(p.kind, "kind", v("kind"), id) <=> IsOfKind(id, v("kind"))
    BY DEF FactMeans, CallMeans, IsOfKind
  <2> QED BY <1>1, <2>1 DEF TrueOf
<1>5. (\A want \in BoolAttr(p, "reentrant") : (id \in reentrant) = want)
        <=> TrueOf(p, "reentrant", id)
  <2>1. (id \in reentrant) = Reenters(id)
    <3>1. id \in 1 .. Len(targets)
      OBVIOUS
    <3>2. id \in reentrant <=> Reenters(id)
      BY <3>1 DEF IndexOK, ReentrancyIsOnTheStack
    <3>3. Reenters(id) \in BOOLEAN /\ (id \in reentrant) \in BOOLEAN
      BY DEF Reenters
    <3>4. CASE id \in reentrant
      <4>1. (id \in reentrant) = TRUE /\ Reenters(id) = TRUE
        BY <3>2, <3>3, <3>4
      <4> QED BY <4>1
    <3>5. CASE id \notin reentrant
      <4>1. (id \in reentrant) = FALSE /\ Reenters(id) = FALSE
        BY <3>2, <3>3, <3>5
      <4> QED BY <4>1
    <3> QED BY <3>4, <3>5
  <2>2. FactMeans(p.kind, "reentrant", v("reentrant"), id) <=> Reenters(id) = v("reentrant")
    BY DEF FactMeans, CallMeans
  <2> QED BY <1>1, <2>1, <2>2 DEF TrueOf
<1>6. (\A way \in IdentAttr(p, "value_flow") : Moves(way, call.from, call.to))
        <=> TrueOf(p, "value_flow", id)
  <2>1. "value_flow" \in DOMAIN p.attrs => v("value_flow") \in {"In", "Out"}
    BY QueriesAssumption
  <2>2. FactMeans(p.kind, "value_flow", v("value_flow"), id) <=>
            (IF v("value_flow") = "In" THEN call.to ELSE call.from) = transaction.from
    BY DEF FactMeans, CallMeans
  <2> QED BY <1>1, <2>1, <2>2 DEF TrueOf, Moves, Anchor
<1>7. (\A min \in IntAttr(p, "min_value") : AtLeast(call.value, min)) <=> TrueOf(p, "min_value", id)
  <2>1. "min_value" \in DOMAIN p.attrs => v("min_value") \in Int /\ v("min_value") < MaxI128
    BY QueriesAssumption DEF Schema
  <2>2. FactMeans(p.kind, "min_value", v("min_value"), id) <=> call.value >= v("min_value")
    BY DEF FactMeans, CallMeans
  <2> QED BY <1>1, <1>2, <2>1, <2>2, ComparesNumbers DEF TrueOf
<1>8. (\A text \in StrAttr(p, "selector") :
            LET wanted == FixedBytes(text, SelectorWidth)
            IN  wanted # Malformed /\ call.selector = wanted) <=> TrueOf(p, "selector", id)
  <2>1. "selector" \in DOMAIN p.attrs => v("selector") \in Seq(STRING)
    BY QueriesAssumption DEF Schema
  <2>2. FactMeans(p.kind, "selector", v("selector"), id) <=>
            call.selector # None /\ Spells(v("selector"), call.selector)
    BY DEF FactMeans, CallMeans
  <2>3. ASSUME "selector" \in DOMAIN p.attrs
        PROVE  FixedBytes(v("selector"), SelectorWidth) # Malformed
                    /\ call.selector = FixedBytes(v("selector"), SelectorWidth)
               <=> call.selector # None /\ Spells(v("selector"), call.selector)
    <3>1. CASE call.selector = None
      <4>1. PICK bytes : bytes \in BytesOf(SelectorWidth)
        <5>1. [i \in 1 .. SelectorWidth |-> 0] \in BytesOf(SelectorWidth)
          BY DEF BytesOf, Byte
        <5> QED BY <5>1
      <4>2. FixedBytes(v("selector"), SelectorWidth) \in BytesOf(SelectorWidth) \union {Malformed}
        BY <1>2, <2>1, <2>3, <4>1, ParsedIsSpelled
      <4> QED BY <1>2, <3>1, <4>2
    <3>2. CASE call.selector # None
      <4>1. call.selector \in BytesOf(SelectorWidth)
        BY <1>2, <3>2
      <4> QED BY <2>1, <2>3, <3>2, <4>1, LiteralIsSpelled
    <3> QED BY <3>1, <3>2
  <2> QED BY <1>1, <2>2, <2>3 DEF TrueOf
<1>9. (\A want \in BoolAttr(p, "succeeded") : call.succeeded = want) <=> TrueOf(p, "succeeded", id)
  <2>1. FactMeans(p.kind, "succeeded", v("succeeded"), id) <=> call.succeeded = v("succeeded")
    BY DEF FactMeans, CallMeans
  <2> QED BY <1>1, <2>1 DEF TrueOf
<1>10. (\A name \in IdentAttr(p, "parent_kind") :
            \E parent \in Some(calls[id].parent) : IsOfKind(parent, name))
        <=> TrueOf(p, "parent_kind", id)
  <2>1. FactMeans(p.kind, "parent_kind", v("parent_kind"), id) <=>
            \E j \in Ancestors(id) : calls[id].parent = j /\ IsOfKind(j, v("parent_kind"))
    BY DEF FactMeans, CallMeans, IsOfKind
  <2>2. \A j : j \in Ancestors(id) /\ calls[id].parent = j <=> j \in Some(calls[id].parent)
    <3>1. Ancestors(id) \subseteq 1 .. Len(calls) /\ Some(calls[id].parent) \subseteq Ancestors(id)
      BY AncestorsAreClosed DEF Closed
    <3>2. None \notin 1 .. Len(calls)
      BY NoneAssumption DEF ArenaOK
    <3> QED BY <3>1, <3>2 DEF Some
  <2> QED BY <1>1, <2>1, <2>2 DEF TrueOf
<1>11. (\A name \in IdentAttr(p, "ancestor_kind") : HasAncestorOfKind(id, name))
        <=> TrueOf(p, "ancestor_kind", id)
  <2>1. FactMeans(p.kind, "ancestor_kind", v("ancestor_kind"), id) <=>
            \E j \in Ancestors(id) : IsOfKind(j, v("ancestor_kind"))
    BY DEF FactMeans, CallMeans, IsOfKind
  <2>2. HasAncestorOfKind(id, v("ancestor_kind")) <=>
            \E j \in Ancestors(id) : IsOfKind(j, v("ancestor_kind"))
    BY AncestorOfKind
  <2> QED BY <1>1, <2>1, <2>2 DEF TrueOf
<1>12. SelectsCall(p, id) <=>
        /\ TrueOf(p, "kind", id) /\ TrueOf(p, "reentrant", id) /\ TrueOf(p, "value_flow", id)
        /\ TrueOf(p, "min_value", id) /\ TrueOf(p, "selector", id) /\ TrueOf(p, "succeeded", id)
        /\ TrueOf(p, "parent_kind", id) /\ TrueOf(p, "ancestor_kind", id)
  BY <1>4, <1>5, <1>6, <1>7, <1>8, <1>9, <1>10, <1>11, Zenon DEF SelectsCall
<1> QED BY <1>3, <1>12 DEF AllTrueOf, TrueOf

(* Entries of a list are of its type. *)
LEMMA EntryIn ==
    ASSUME NEW S, NEW list \in Seq(S), NEW i \in 1 .. Len(list)
    PROVE  list[i] \in S
OBVIOUS

LEMMA ChangeSelected ==
    ASSUME FactsOK, NEW p \in Queries, p.kind = "storage", NEW id \in 1 .. Len(changes)
    PROVE  SelectsChange(p, id) <=> AllTrueOf(p, id)
<1> DEFINE change == changes[id].shape
           given(name) == IF name \in DOMAIN p.attrs THEN {p.attrs[name].value} ELSE {}
           v(name) == p.attrs[name].value
<1>1. /\ BoolAttr(p, "changed") = given("changed")
      /\ StrAttr(p, "slot") = given("slot")
      /\ IdentAttr(p, "call_kind") = given("call_kind")
  <2>1. /\ Schema[p.kind]["changed"] = "bool" /\ Schema[p.kind]["slot"] = "str"
        /\ Schema[p.kind]["call_kind"] = "ident"
        /\ {"changed", "slot", "call_kind"} \subseteq DOMAIN Schema[p.kind]
    BY DEF Schema
  <2> QED BY <2>1, AttrIs DEF IdentAttr, BoolAttr, StrAttr
<1>2. change.slot \in BytesOf(WordWidth)
  <2>0. changes[id] \in [shape : ChangeShapes, call : Nat]
    <3>1. changes \in Seq([shape : ChangeShapes, call : Nat])
      BY DEF FactsOK
    <3> QED BY <3>1, EntryIn, Zenon
  <2>1. change \in ChangeShapes
    BY <2>0
  <2> QED BY <2>1, ShapesAssumption
<1>3. DOMAIN p.attrs \subseteq {"changed", "slot", "call_kind", "role"}
  BY QueriesAssumption DEF Schema
<1>4. (\A want \in BoolAttr(p, "changed") : IsNetChange(change) = want) <=> TrueOf(p, "changed", id)
  <2>1. FactMeans(p.kind, "changed", v("changed"), id) <=>
            (change.before # change.after) = v("changed")
    BY DEF FactMeans, ChangeMeans
  <2> QED BY <1>1, <2>1 DEF TrueOf, IsNetChange
<1>5. (\A text \in StrAttr(p, "slot") :
            LET wanted == FixedBytes(text, WordWidth)
            IN  wanted # Malformed /\ change.slot = wanted) <=> TrueOf(p, "slot", id)
  <2>1. "slot" \in DOMAIN p.attrs => v("slot") \in Seq(STRING)
    BY QueriesAssumption DEF Schema
  <2>2. FactMeans(p.kind, "slot", v("slot"), id) <=> Spells(v("slot"), change.slot)
    BY DEF FactMeans, ChangeMeans
  <2> QED BY <1>1, <1>2, <2>1, <2>2, LiteralIsSpelled DEF TrueOf
<1>6. (\A name \in IdentAttr(p, "call_kind") : IsOfKind(changes[id].call, name))
        <=> TrueOf(p, "call_kind", id)
  <2>1. FactMeans(p.kind, "call_kind", v("call_kind"), id) <=>
            IsOfKind(changes[id].call, v("call_kind"))
    BY DEF FactMeans, ChangeMeans, IsOfKind
  <2> QED BY <1>1, <2>1 DEF TrueOf
<1>7. TrueOf(p, "role", id)
  BY DEF TrueOf, FactMeans, ChangeMeans
<1>8. SelectsChange(p, id) <=>
        TrueOf(p, "changed", id) /\ TrueOf(p, "slot", id) /\ TrueOf(p, "call_kind", id)
  BY <1>4, <1>5, <1>6, Zenon DEF SelectsChange
<1> QED BY <1>3, <1>7, <1>8 DEF AllTrueOf, TrueOf

LEMMA FlowSelected ==
    ASSUME ArenaOK, NEW p \in Queries, p.kind = "value_flow", NEW id \in 1 .. Len(calls)
    PROVE  SelectsFlow(p, id) <=> calls[id].shape.value > 0 /\ AllTrueOf(p, id)
<1> DEFINE call == calls[id].shape
           given(name) == IF name \in DOMAIN p.attrs THEN {p.attrs[name].value} ELSE {}
           v(name) == p.attrs[name].value
<1>1. /\ IdentAttr(p, "direction") = given("direction")
      /\ IntAttr(p, "min") = given("min") /\ IntAttr(p, "max") = given("max")
  <2>1. /\ Schema[p.kind]["direction"] = "ident"
        /\ Schema[p.kind]["min"] = "int" /\ Schema[p.kind]["max"] = "int"
        /\ {"direction", "min", "max"} \subseteq DOMAIN Schema[p.kind]
    BY DEF Schema
  <2> QED BY <2>1, AttrIs DEF IdentAttr, IntAttr
<1>2. call.value \in Nat
  <2>1. calls[id] \in CallOf
    BY DEF ArenaOK
  <2>2. call \in CallShapes
    BY <2>1 DEF CallOf
  <2> QED BY <2>2, ShapesAssumption
<1>3. DOMAIN p.attrs \subseteq {"direction", "min", "max"}
  BY QueriesAssumption DEF Schema
<1>4. (\A way \in IdentAttr(p, "direction") : Moves(way, call.from, call.to))
        <=> TrueOf(p, "direction", id)
  <2>1. "direction" \in DOMAIN p.attrs => v("direction") \in {"In", "Out"}
    BY QueriesAssumption
  <2>2. FactMeans(p.kind, "direction", v("direction"), id) <=>
            (IF v("direction") = "In" THEN call.to ELSE call.from) = transaction.from
    BY DEF FactMeans, CallMeans
  <2> QED BY <1>1, <2>1, <2>2 DEF TrueOf, Moves, Anchor
<1>5. (\A min \in IntAttr(p, "min") : AtLeast(call.value, min)) <=> TrueOf(p, "min", id)
  <2>1. "min" \in DOMAIN p.attrs => v("min") \in Int /\ v("min") < MaxI128
    BY QueriesAssumption DEF Schema
  <2>2. FactMeans(p.kind, "min", v("min"), id) <=> call.value >= v("min")
    BY DEF FactMeans, CallMeans
  <2> QED BY <1>1, <1>2, <2>1, <2>2, ComparesNumbers DEF TrueOf
<1>6. (\A max \in IntAttr(p, "max") : AtMost(call.value, max)) <=> TrueOf(p, "max", id)
  <2>1. "max" \in DOMAIN p.attrs => v("max") \in Int /\ v("max") < MaxI128
    BY QueriesAssumption DEF Schema
  <2>2. FactMeans(p.kind, "max", v("max"), id) <=> call.value <= v("max")
    BY DEF FactMeans, CallMeans
  <2> QED BY <1>1, <1>2, <2>1, <2>2, ComparesNumbers DEF TrueOf
<1>7. IsFlow(id) <=> call.value > 0
  BY <1>2 DEF IsFlow
<1>8. SelectsFlow(p, id) <=>
        IsFlow(id) /\ TrueOf(p, "direction", id) /\ TrueOf(p, "min", id) /\ TrueOf(p, "max", id)
  BY <1>4, <1>5, <1>6, Zenon DEF SelectsFlow
<1> QED BY <1>3, <1>7, <1>8 DEF AllTrueOf, TrueOf

LEMMA TransferSelected ==
    ASSUME FactsOK, NEW p \in Queries, p.kind = "token_transfer", NEW id \in 1 .. Len(transfers)
    PROVE  SelectsTransfer(p, id) <=> AllTrueOf(p, id)
<1> DEFINE transfer == transfers[id].shape
           given(name) == IF name \in DOMAIN p.attrs THEN {p.attrs[name].value} ELSE {}
           v(name) == p.attrs[name].value
<1>1. IdentAttr(p, "direction") = given("direction") /\ StrAttr(p, "token") = given("token")
  <2>1. /\ Schema[p.kind]["direction"] = "ident" /\ Schema[p.kind]["token"] = "str"
        /\ {"direction", "token"} \subseteq DOMAIN Schema[p.kind]
    BY DEF Schema
  <2> QED BY <2>1, AttrIs DEF IdentAttr, StrAttr
<1>2. transfer.token \in BytesOf(AddressWidth)
  <2>0. transfers[id] \in [shape : TransferShapes, log : Nat]
    <3>1. transfers \in Seq([shape : TransferShapes, log : Nat])
      BY DEF FactsOK
    <3> QED BY <3>1, EntryIn, Zenon
  <2>1. transfer \in TransferShapes
    BY <2>0
  <2> QED BY <2>1, ShapesAssumption
<1>3. DOMAIN p.attrs \subseteq {"direction", "token", "unexpected"}
  BY QueriesAssumption DEF Schema
<1>4. (\A way \in IdentAttr(p, "direction") : Moves(way, transfer.from, transfer.to))
        <=> TrueOf(p, "direction", id)
  <2>1. "direction" \in DOMAIN p.attrs => v("direction") \in {"In", "Out"}
    BY QueriesAssumption
  <2>2. FactMeans(p.kind, "direction", v("direction"), id) <=>
            (IF v("direction") = "In" THEN transfer.to ELSE transfer.from) = transaction.from
    BY DEF FactMeans, TransferMeans
  <2> QED BY <1>1, <2>1, <2>2 DEF TrueOf, Moves, Anchor
<1>5. (\A text \in StrAttr(p, "token") :
            LET wanted == FixedBytes(text, AddressWidth)
            IN  wanted # Malformed /\ transfer.token = wanted) <=> TrueOf(p, "token", id)
  <2>1. "token" \in DOMAIN p.attrs => v("token") \in Seq(STRING)
    BY QueriesAssumption DEF Schema
  <2>2. FactMeans(p.kind, "token", v("token"), id) <=> Spells(v("token"), transfer.token)
    BY DEF FactMeans, TransferMeans
  <2> QED BY <1>1, <1>2, <2>1, <2>2, LiteralIsSpelled DEF TrueOf
<1>6. TrueOf(p, "unexpected", id)
  BY DEF TrueOf, FactMeans, TransferMeans
<1>7. SelectsTransfer(p, id) <=> TrueOf(p, "direction", id) /\ TrueOf(p, "token", id)
  BY <1>4, <1>5, Zenon DEF SelectsTransfer
<1> QED BY <1>3, <1>6, <1>7 DEF AllTrueOf, TrueOf

LEMMA TransactionSelected ==
    ASSUME transaction \in Transactions, NEW p \in Queries, p.kind = "transaction"
    PROVE  SelectsTransaction(p) <=> AllTrueOf(p, 1)
<1> DEFINE given(name) == IF name \in DOMAIN p.attrs THEN {p.attrs[name].value} ELSE {}
           v(name) == p.attrs[name].value
<1>1. IdentAttr(p, "status") = given("status") /\ IntAttr(p, "gas_used_min") = given("gas_used_min")
  <2>1. /\ Schema[p.kind]["status"] = "ident" /\ Schema[p.kind]["gas_used_min"] = "int"
        /\ {"status", "gas_used_min"} \subseteq DOMAIN Schema[p.kind]
    BY DEF Schema
  <2> QED BY <2>1, AttrIs DEF IdentAttr, IntAttr
<1>2. transaction.gasUsed \in Nat
  BY ShapesAssumption
<1>3. DOMAIN p.attrs \subseteq {"status", "gas_used_min"}
  BY QueriesAssumption DEF Schema
<1>4. (\A status \in IdentAttr(p, "status") : transaction.status = status) <=> TrueOf(p, "status", 1)
  <2>1. FactMeans(p.kind, "status", v("status"), 1) <=> transaction.status = v("status")
    BY DEF FactMeans, TransactionMeans
  <2> QED BY <1>1, <2>1 DEF TrueOf
<1>5. (\A min \in IntAttr(p, "gas_used_min") : min <= 0 \/ transaction.gasUsed >= min)
        <=> TrueOf(p, "gas_used_min", 1)
  <2>1. "gas_used_min" \in DOMAIN p.attrs => v("gas_used_min") \in Int
    BY QueriesAssumption DEF Schema
  <2>2. FactMeans(p.kind, "gas_used_min", v("gas_used_min"), 1) <=>
            transaction.gasUsed >= v("gas_used_min")
    BY DEF FactMeans, TransactionMeans
  <2> QED BY <1>1, <1>2, <2>1, <2>2 DEF TrueOf
<1>6. SelectsTransaction(p) <=> TrueOf(p, "status", 1) /\ TrueOf(p, "gas_used_min", 1)
  BY <1>4, <1>5, Zenon DEF SelectsTransaction
<1> QED BY <1>3, <1>6 DEF AllTrueOf, TrueOf

LEMMA LogSelected ==
    ASSUME FactsOK, NEW p \in Queries, p.kind = "log", NEW id \in 1 .. Len(logs)
    PROVE  SelectsLog(p, id) <=> AllTrueOf(p, id)
<1> DEFINE topics == logs[id].topics
           given(name) == IF name \in DOMAIN p.attrs THEN {p.attrs[name].value} ELSE {}
           v(name) == p.attrs[name].value
<1>1. StrAttr(p, "topic0") = given("topic0") /\ BoolAttr(p, "decoded") = given("decoded")
  <2>1. /\ Schema[p.kind]["topic0"] = "str" /\ Schema[p.kind]["decoded"] = "bool"
        /\ {"topic0", "decoded"} \subseteq DOMAIN Schema[p.kind]
    BY DEF Schema
  <2> QED BY <2>1, AttrIs DEF BoolAttr, StrAttr
<1>2. topics # <<>> => topics[1] \in BytesOf(WordWidth)
  <2>0. logs[id] \in [topics : LogTopics, call : Nat]
    <3>1. logs \in Seq([topics : LogTopics, call : Nat])
      BY DEF FactsOK
    <3> QED BY <3>1, EntryIn, Zenon
  <2>1. topics \in LogTopics
    BY <2>0
  <2>2. topics \in Seq(BytesOf(WordWidth))
    BY <2>1, ShapesAssumption
  <2> QED BY <2>2
<1>3. DOMAIN p.attrs \subseteq {"topic0", "decoded"}
  BY QueriesAssumption DEF Schema
<1>4. (\A text \in StrAttr(p, "topic0") :
            LET wanted == FixedBytes(text, WordWidth)
            IN  /\ wanted # Malformed
                /\ topics # <<>> /\ topics[1] = wanted) <=> TrueOf(p, "topic0", id)
  <2>1. "topic0" \in DOMAIN p.attrs => v("topic0") \in Seq(STRING)
    BY QueriesAssumption DEF Schema
  <2>2. FactMeans(p.kind, "topic0", v("topic0"), id) <=>
            topics # <<>> /\ Spells(v("topic0"), topics[1])
    BY DEF FactMeans, LogMeans
  <2>3. "topic0" \in DOMAIN p.attrs /\ topics # <<>> =>
            (FixedBytes(v("topic0"), WordWidth) # Malformed
                /\ topics[1] = FixedBytes(v("topic0"), WordWidth)
             <=> Spells(v("topic0"), topics[1]))
    BY <1>2, <2>1, LiteralIsSpelled
  <2> QED BY <1>1, <2>2, <2>3 DEF TrueOf
<1>5. (\A want \in BoolAttr(p, "decoded") : IsDecoded(id) = want) <=> TrueOf(p, "decoded", id)
  <2>1. FactMeans(p.kind, "decoded", v("decoded"), id) <=>
            (id \in {transfers[t].log : t \in DOMAIN transfers}) = v("decoded")
    BY DEF FactMeans, LogMeans
  <2>2. IsDecoded(id) <=> id \in {transfers[t].log : t \in DOMAIN transfers}
    BY DEF IsDecoded, FactsOK
  <2>3. IsDecoded(id) \in BOOLEAN
    BY DEF IsDecoded
  <2>4. IsDecoded(id) = (id \in {transfers[t].log : t \in DOMAIN transfers})
    BY <2>2, <2>3
  <2> QED BY <1>1, <2>1, <2>4 DEF TrueOf
<1>6. SelectsLog(p, id) <=> TrueOf(p, "topic0", id) /\ TrueOf(p, "decoded", id)
  BY <1>4, <1>5, Zenon DEF SelectsLog
<1> QED BY <1>3, <1>6 DEF AllTrueOf, TrueOf

(* The ids of the facts in list, and what it reports as undecided. *)
Selected(list) == {list[k].fact.id : k \in 1 .. Len(list)}
Reports(list, names) == \A k \in 1 .. Len(list) : list[k].unresolved = names

LEMMA BoundSelects ==
    ASSUME NEW n \in Nat, NEW C, NEW order \in [1 .. n -> C],
           NEW kind, NEW selected \in SUBSET (1 .. n), NEW unresolved
    PROVE  /\ Selected(Bound(kind, order, selected, unresolved)) = selected
           /\ Reports(Bound(kind, order, selected, unresolved), unresolved)
<1> DEFINE list == Bound(kind, order, selected, unresolved)
<1>1. Binds(list, kind, n, order, selected, unresolved)
  BY BoundIs
<1> HIDE DEF list
<1>2. Selected(list) = selected
  BY <1>1 DEF Binds, Selected
<1>3. ASSUME NEW k \in 1 .. Len(list) PROVE list[k].unresolved = unresolved
  <2>1. list \in Seq(BindingsOf(kind, n, order, unresolved))
    BY <1>1 DEF Binds
  <2>2. list[k] \in BindingsOf(kind, n, order, unresolved)
    BY <2>1, EntryIn
  <2> QED BY <2>2 DEF BindingsOf
<1> QED BY <1>2, <1>3 DEF Reports, list

(* The facts a predicate's attributes are true of. *)
Meant(p) == {id \in Candidates(p.kind) : AllTrueOf(p, id)}

LEMMA SelectionSelects ==
    ASSUME IInv, FactsOK, Indexed, transaction \in Transactions, NEW p \in Queries
    PROVE  /\ Selected(Selection(p)) = Meant(p)
           /\ Reports(Selection(p), DOMAIN p.attrs \intersect {"role", "unexpected"})
<1> DEFINE undecided == DOMAIN p.attrs \intersect {"role", "unexpected"}
<1>1. /\ Len(calls) \in Nat /\ DOMAIN calls = 1 .. Len(calls)
      /\ Len(changes) \in Nat /\ DOMAIN changes = 1 .. Len(changes)
      /\ Len(logs) \in Nat /\ DOMAIN logs = 1 .. Len(logs)
      /\ Len(transfers) \in Nat /\ DOMAIN transfers = 1 .. Len(transfers)
  BY DEF IInv, ArenaOK, FactsOK
<1>2. p.kind \in {"call", "storage", "value_flow", "token_transfer", "transaction", "log"}
  BY QueriesAssumption DEF Schema
<1>3. /\ p.kind \in {"call", "value_flow", "log", "transaction"} => undecided = {}
      /\ Undecidable(p) = undecided
  <2>1. DOMAIN p.attrs \subseteq DOMAIN Schema[p.kind]
    BY QueriesAssumption
  <2>2. CASE p.kind = "call"
    BY <2>1, <2>2 DEF Schema, Undecidable
  <2>3. CASE p.kind = "storage"
    BY <2>1, <2>3 DEF Schema, Undecidable
  <2>4. CASE p.kind = "value_flow"
    BY <2>1, <2>4 DEF Schema, Undecidable
  <2>5. CASE p.kind = "token_transfer"
    BY <2>1, <2>5 DEF Schema, Undecidable
  <2>6. CASE p.kind = "transaction"
    BY <2>1, <2>6 DEF Schema, Undecidable
  <2>7. CASE p.kind = "log"
    BY <2>1, <2>7 DEF Schema, Undecidable
  <2> QED BY <1>2, <2>2, <2>3, <2>4, <2>5, <2>6, <2>7
<1> HIDE DEF undecided
<1>4. CASE p.kind = "call"
  <2> DEFINE selected == {id \in DOMAIN calls : SelectsCall(p, id)}
  <2>1. Selection(p) = Bound("call", CallOrder, selected, {})
    BY <1>4 DEF Selection
  <2>2. CallOrder \in [1 .. Len(calls) -> Nat] /\ selected \in SUBSET (1 .. Len(calls))
    BY <1>1 DEF CallOrder
  <2>3. selected = Meant(p)
    BY <1>1, <1>4, CallSelected DEF Meant, Candidates, Indexed, IInv
  <2> HIDE DEF selected
  <2>4. /\ Selected(Bound("call", CallOrder, selected, {})) = selected
        /\ Reports(Bound("call", CallOrder, selected, {}), {})
    BY <1>1, <2>2, BoundSelects
  <2> QED BY <1>3, <1>4, <2>1, <2>3, <2>4 DEF undecided
<1>5. CASE p.kind = "storage"
  <2> DEFINE selected == {id \in DOMAIN changes : SelectsChange(p, id)}
  <2>1. Selection(p) = Bound("change", ChangeOrder, selected, Undecidable(p))
    BY <1>5 DEF Selection
  <2>2. /\ ChangeOrder \in [1 .. Len(changes) -> 1 .. Len(calls)]
        /\ selected \in SUBSET (1 .. Len(changes))
    BY <1>1 DEF ChangeOrder, FactsOK
  <2>3. selected = Meant(p)
    BY <1>1, <1>5, ChangeSelected DEF Meant, Candidates
  <2> HIDE DEF selected
  <2>4. /\ Selected(Bound("change", ChangeOrder, selected, Undecidable(p))) = selected
        /\ Reports(Bound("change", ChangeOrder, selected, Undecidable(p)), Undecidable(p))
    BY <1>1, <2>2, BoundSelects
  <2> QED BY <1>3, <2>1, <2>3, <2>4 DEF undecided
<1>6. CASE p.kind = "value_flow"
  <2> DEFINE selected == {id \in DOMAIN calls : SelectsFlow(p, id)}
  <2>1. Selection(p) = Bound("call", CallOrder, selected, {})
    BY <1>6 DEF Selection
  <2>2. CallOrder \in [1 .. Len(calls) -> Nat] /\ selected \in SUBSET (1 .. Len(calls))
    BY <1>1 DEF CallOrder
  <2>3. selected = Meant(p)
    BY <1>1, <1>6, FlowSelected DEF Meant, Candidates, IInv
  <2> HIDE DEF selected
  <2>4. /\ Selected(Bound("call", CallOrder, selected, {})) = selected
        /\ Reports(Bound("call", CallOrder, selected, {}), {})
    BY <1>1, <2>2, BoundSelects
  <2> QED BY <1>3, <1>6, <2>1, <2>3, <2>4 DEF undecided
<1>7. CASE p.kind = "token_transfer"
  <2> DEFINE selected == {id \in DOMAIN transfers : SelectsTransfer(p, id)}
  <2>1. Selection(p) = Bound("transfer", TransferOrder, selected, Undecidable(p))
    BY <1>7 DEF Selection
  <2>2. /\ TransferOrder \in [1 .. Len(transfers) -> 1 .. Len(calls)]
        /\ selected \in SUBSET (1 .. Len(transfers))
    BY <1>1 DEF TransferOrder, FactsOK
  <2>3. selected = Meant(p)
    BY <1>1, <1>7, TransferSelected DEF Meant, Candidates
  <2> HIDE DEF selected
  <2>4. /\ Selected(Bound("transfer", TransferOrder, selected, Undecidable(p))) = selected
        /\ Reports(Bound("transfer", TransferOrder, selected, Undecidable(p)), Undecidable(p))
    BY <1>1, <2>2, BoundSelects
  <2> QED BY <1>3, <2>1, <2>3, <2>4 DEF undecided
<1>8. CASE p.kind = "log"
  <2> DEFINE selected == {id \in DOMAIN logs : SelectsLog(p, id)}
  <2>1. Selection(p) = Bound("log", LogOrder, selected, {})
    BY <1>8 DEF Selection
  <2>2. /\ LogOrder \in [1 .. Len(logs) -> 1 .. Len(calls)]
        /\ selected \in SUBSET (1 .. Len(logs))
    BY <1>1 DEF LogOrder, FactsOK
  <2>3. selected = Meant(p)
    BY <1>1, <1>8, LogSelected DEF Meant, Candidates
  <2> HIDE DEF selected
  <2>4. /\ Selected(Bound("log", LogOrder, selected, {})) = selected
        /\ Reports(Bound("log", LogOrder, selected, {}), {})
    BY <1>1, <2>2, BoundSelects
  <2> QED BY <1>3, <1>8, <2>1, <2>3, <2>4 DEF undecided
<1>9. CASE p.kind = "transaction"
  <2> DEFINE b == [fact |-> [kind |-> "call", id |-> 1], order |-> None, unresolved |-> {}]
  <2>1. Selection(p) = IF SelectsTransaction(p) THEN <<b>> ELSE <<>>
    BY <1>9 DEF Selection
  <2>2. b.fact.id = 1 /\ b.unresolved = {}
    OBVIOUS
  <2>3. SelectsTransaction(p) <=> AllTrueOf(p, 1)
    BY <1>9, TransactionSelected
  <2>4. Meant(p) = IF AllTrueOf(p, 1) THEN {1} ELSE {}
    BY <1>9 DEF Meant, Candidates
  <2> HIDE DEF b
  <2>5. Selected(<<b>>) = {1} /\ Reports(<<b>>, {})
    BY <2>2 DEF Selected, Reports
  <2>6. Selected(<<>>) = {} /\ Reports(<<>>, {})
    BY DEF Selected, Reports
  <2> QED BY <1>3, <1>9, <2>1, <2>3, <2>4, <2>5, <2>6 DEF undecided
<1> QED BY <1>2, <1>4, <1>5, <1>6, <1>7, <1>8, <1>9

LEMMA EvaluationSelects ==
    ASSUME IInv, FactsOK, Indexed, transaction \in Transactions, NEW p \in Queries
    PROVE  /\ Selected(ByOrder(Selection(p))) = Meant(p)
           /\ Reports(ByOrder(Selection(p)), DOMAIN p.attrs \intersect {"role", "unexpected"})
           /\ \E R : ByOrder(Selection(p)) \in Seq(R)
<1> DEFINE list == Selection(p)
           sorted == ByOrder(list)
           undecided == DOMAIN p.attrs \intersect {"role", "unexpected"}
<1>1. Sortable(list, p.kind) /\ Len(calls) \in Nat
  BY SelectionSortable DEF IInv, ArenaOK
<1>2. Selected(list) = Meant(p) /\ Reports(list, undecided)
  BY SelectionSelects
<1> HIDE DEF list
<1>3. PICK R : list \in Seq(R)
  BY <1>1 DEF Sortable
<1>4. \A i \in 1 .. Len(list) : list[i].order \in 1 .. Len(calls) \union {None}
  BY <1>1 DEF Sortable
<1>5. /\ sorted \in Seq(R)
      /\ \A k \in 1 .. Len(sorted) : \E i \in 1 .. Len(list) : sorted[k] = list[i]
      /\ \A i \in 1 .. Len(list) : \E k \in 1 .. Len(sorted) : sorted[k] = list[i]
  BY <1>1, <1>3, <1>4, ByOrderSorts DEF Sortable
<1> HIDE DEF sorted
<1>6. Selected(sorted) = Selected(list)
  <2>1. ASSUME NEW k \in 1 .. Len(sorted) PROVE sorted[k].fact.id \in Selected(list)
    BY <1>5 DEF Selected
  <2>2. ASSUME NEW i \in 1 .. Len(list) PROVE list[i].fact.id \in Selected(sorted)
    BY <1>5 DEF Selected
  <2> QED BY <2>1, <2>2 DEF Selected
<1>7. Reports(sorted, undecided)
  BY <1>2, <1>5 DEF Reports
<1> QED BY <1>2, <1>5, <1>6, <1>7 DEF list, sorted

(* evaluate: for every trace and every predicate the schema admits, the facts
   bound are those its attributes are true of, and an attribute that no fact
   can decide is reported on each. *)
THEOREM SelectsExactly == Spec => []SelectsWhatTheClauseSays
<1> DEFINE Whole == transaction \in Transactions
<1>1. Init => Whole /\ SelectsWhatTheClauseSays
  BY DEF Init, SelectsWhatTheClauseSays
<1>2. IInv /\ TraceInv /\ Whole /\ SelectsWhatTheClauseSays /\ [Next]_vars
        => TraceInv' /\ Whole' /\ SelectsWhatTheClauseSays'
  <2> SUFFICES ASSUME IInv, TraceInv, Whole, SelectsWhatTheClauseSays, [Next]_vars
               PROVE  TraceInv' /\ Whole' /\ SelectsWhatTheClauseSays'
    OBVIOUS
  <2>1. TraceInv' /\ Whole'
    <3>1. UNCHANGED transaction
      BY DEF Next, vars, AddCall, AddStorageChange, AddLog, AddTokenTransfer, IndexCall,
             Evaluate, Release
    <3> QED BY <3>1, StepsOfQuery
  <2>2. CASE query' = None /\ bindings' = <<>>
    BY <2>1, <2>2 DEF SelectsWhatTheClauseSays
  <2>3. CASE UNCHANGED <<trace, targets, reentrant>>
    <3>1. UNCHANGED <<transaction, calls, changes, logs, transfers>>
      BY <2>3 DEF trace
    <3>2. CASE UNCHANGED <<query, bindings>>
      <4>1. SelectsWhatTheClauseSays' <=> SelectsWhatTheClauseSays
        BY <3>1, <3>2 DEF SelectsWhatTheClauseSays, Candidates, FactMeans, CallMeans,
                          ChangeMeans, TransferMeans, LogMeans, TransactionMeans, Reenters,
                          Ancestors
      <4> QED BY <2>1, <4>1
    <3>3. ASSUME query' \in Queries, bindings' = ByOrder(Selection(query')), Indexed
          PROVE  SelectsWhatTheClauseSays'
      <4> DEFINE p == query'
      <4>1. /\ Selected(bindings') = Meant(p)
            /\ Reports(bindings', DOMAIN p.attrs \intersect {"role", "unexpected"})
            /\ \E R : bindings' \in Seq(R)
        BY <3>3, EvaluationSelects DEF TraceInv
      <4>2. \A kind, name, value, id :
                /\ FactMeans(kind, name, value, id)' = FactMeans(kind, name, value, id)
                /\ Candidates(kind)' = Candidates(kind)
        BY <3>1 DEF Candidates, FactMeans, CallMeans, ChangeMeans, TransferMeans, LogMeans,
                    TransactionMeans, Reenters, Ancestors
      <4>3. DOMAIN bindings' = 1 .. Len(bindings')
        BY <4>1
      <4> QED BY <4>1, <4>2, <4>3 DEF SelectsWhatTheClauseSays, Selected, Reports, Meant, AllTrueOf
    <3> QED BY <2>1, <2>2, <3>2, <3>3, StepsOfQuery
  <2> QED BY <2>1, <2>2, <2>3, StepsOfQuery
<1> QED BY IndexInvariance, TraceInit, <1>1, <1>2, PTL DEF Spec

-----------------------------------------------------------------------------
(* Sums over sets of calls.                                                 *)

(* What the calls of S move together. *)
Total(S) == MapThenSumSet(LAMBDA id : calls[id].shape.value, S)

(* What one call moves. *)
Value(id) == calls[id].shape.value

(* c sums the values over the subsets of S. *)
ValueSums(c, S) ==
    /\ c[{}] = 0
    /\ \A s \in SUBSET S : c[s] \in Int
    /\ \A s \in SUBSET S : \A x \in s : c[s] = Value(x) + c[s \ {x}]
    /\ Total(S) = c[S]

(* What MapThenSumSet recurs over, with the element it picks. *)
TotalOf(c, S) ==
    c = [s \in SUBSET S |->
            IF s = {} THEN 0
            ELSE LET x == CHOOSE y \in s : TRUE IN Value(x) + c[s \ {x}]]

(* Total, without the recursion that defines it. *)
LEMMA TotalIs == ASSUME NEW S PROVE Total(S) = (CHOOSE c : TotalOf(c, S))[S]
BY DEF Total, TotalOf, Value, MapThenSumSet, MapThenFoldSet

(* Amounts are naturals. *)
LEMMA ValuesAre == ASSUME ArenaOK PROVE \A id \in 1 .. Len(calls) : Value(id) \in Nat
<1> TAKE id \in 1 .. Len(calls)
<1>1. calls[id] \in CallOf
  BY DEF ArenaOK
<1>2. calls[id].shape \in CallShapes
  BY <1>1 DEF CallOf
<1> QED BY <1>2, ShapesAssumption DEF Value

(* A sum does not depend on the order in which it is taken. *)
LEMMA ValueSumsExist ==
    ASSUME ArenaOK, NEW S \in SUBSET (1 .. Len(calls))
    PROVE  \E c : ValueSums(c, S)
<1> DEFINE f == [x \in S |-> Value(x)]
<1>1. IsFiniteSet(S) /\ \A x \in S : f[x] \in Int
  <2>1. Len(calls) \in Nat
    BY DEF ArenaOK
  <2>2. IsFiniteSet(1 .. Len(calls))
    BY <2>1, FS_Interval
  <2>3. IsFiniteSet(S)
    BY <2>2, FS_Subset
  <2>4. \A x \in S : Value(x) \in Nat
    BY ValuesAre
  <2> QED BY <2>3, <2>4
<1>2. ASSUME NEW c PROVE SumRecursion(c, f, S) <=> TotalOf(c, S)
  <2>1. \A s \in SUBSET S : s # {} => (CHOOSE y \in s : TRUE) \in S
    OBVIOUS
  <2>2. [s \in SUBSET S |->
            IF s = {} THEN 0 ELSE LET x == CHOOSE y \in s : TRUE IN f[x] + c[s \ {x}]]
      = [s \in SUBSET S |->
            IF s = {} THEN 0 ELSE LET x == CHOOSE y \in s : TRUE IN Value(x) + c[s \ {x}]]
    BY <2>1
  <2> HIDE DEF f
  <2> QED BY <2>2 DEF SumRecursion, TotalOf
<1> HIDE DEF f
<1> DEFINE c == CHOOSE d : TotalOf(d, S)
<1>3. TotalOf(c, S)
  BY <1>1, <1>2, SumRecursionExists
<1>4. Total(S) = c[S]
  BY TotalIs
<1> HIDE DEF c
<1>5. Sums(c, f, S)
  BY <1>1, <1>2, <1>3, SumInAnyOrder
<1>6. ValueSums(c, S)
  BY <1>4, <1>5 DEF ValueSums, Sums, f
<1> QED BY <1>6

-----------------------------------------------------------------------------
(* What net_value_extracted is after each call.                             *)

(* The values of the fold over the calls up to one. *)
Nets(c, address) ==
    /\ c[{}] = 0
    /\ \A k \in 1 .. Len(calls) :
            c[1 .. k] = AfterFlow(c[1 .. k - 1], calls[k].shape, address)
    /\ NetValue(address) = c[1 .. Len(calls)]

(* What the fold of NetValue recurs over: the last call of a set last. *)
NetOf(c, address) ==
    c = [s \in SUBSET DOMAIN calls |->
            IF s = {} THEN 0
            ELSE LET x == Max(s) IN AfterFlow(c[s \ {x}], calls[x].shape, address)]

(* NetValue, without the recursion that defines it. *)
LEMMA NetIs ==
    ASSUME NEW address
    PROVE  NetValue(address) = (CHOOSE c : NetOf(c, address))[DOMAIN calls]
BY DEF NetValue, NetOf, FoldLeft, MapThenFoldSet

(* A call takes a net, or none, to a net, or none. *)
LEMMA FlowTyped ==
    ASSUME ArenaOK, NEW k \in 1 .. Len(calls), NEW net \in Int \union {None}, NEW address
    PROVE  AfterFlow(net, calls[k].shape, address) \in Int \union {None}
<1>1. calls[k].shape.value \in Nat
  BY ValuesAre DEF Value
<1>2. ASSUME NEW v \in Int \union {None}, NEW sign \in {1, -1}
      PROVE  Moved(v, sign, calls[k].shape.value) \in Int \union {None}
  BY <1>1, <1>2, BoundsAssumption DEF Moved, Checked
<1> QED BY <1>2 DEF AfterFlow

(* NetValue is the last of the values the fold takes, call by call. *)
LEMMA NetsExist ==
    ASSUME ArenaOK, NEW address
    PROVE  \E c : Nets(c, address)
<1> DEFINE n == Len(calls)
           S == 1 .. n
           V == Int \union {None}
           pick == [s \in SUBSET S |-> Max(s)]
           step == [x \in S |-> [v \in V |-> AfterFlow(v, calls[x].shape, address)]]
<1>1. n \in Nat /\ DOMAIN calls = S /\ IsFiniteSet(S) /\ 0 \in V
  <2>1. n \in Nat /\ DOMAIN calls = S
    BY DEF ArenaOK
  <2> QED BY <2>1, FS_Interval
<1>2. \A s \in SUBSET S : pick[s] = Max(s)
  OBVIOUS
<1>3. \A s \in SUBSET S : s # {} => pick[s] \in s /\ \A y \in s : y <= pick[s]
  BY <1>1, <1>2, MaxIs
<1>4. /\ step \in [S -> [V -> V]]
      /\ \A x \in S : \A v \in V : step[x][v] = AfterFlow(v, calls[x].shape, address)
  <2>1. \A x \in S : \A v \in V : AfterFlow(v, calls[x].shape, address) \in V
    BY FlowTyped
  <2> HIDE DEF S, V
  <2> QED BY <2>1
<1> HIDE DEF V, pick, step
<1>5. Foldable(S, V, 0, pick, step)
  BY <1>1, <1>3, <1>4 DEF Foldable, Picking
<1>6. PICK f : f = [s \in SUBSET S |-> f[s]] /\ FoldOf(f, S, V, 0, pick, step)
  BY <1>5, FoldExists, Zenon
<1>7. \A s \in SUBSET S : s # {} => pick[s] \in S /\ s \ {pick[s]} \in SUBSET S
  BY <1>3
<1> HIDE DEF S, n
<1>8. NetOf(f, address)
  <2>1. ASSUME NEW s \in SUBSET S, s # {}
        PROVE  f[s] = LET x == Max(s) IN AfterFlow(f[s \ {x}], calls[x].shape, address)
    <3>1. f[s] = step[pick[s]][f[s \ {pick[s]}]]
      BY <1>6, <2>1 DEF FoldOf, Folded
    <3>2. f[s \ {pick[s]}] \in V
      BY <1>6, <1>7, <2>1 DEF FoldOf
    <3>3. f[s] = AfterFlow(f[s \ {pick[s]}], calls[pick[s]].shape, address)
      BY <1>4, <1>7, <2>1, <3>1, <3>2
    <3> QED BY <1>2, <3>3
  <2>2. f[{}] = 0
    BY <1>6 DEF FoldOf, Folded
  <2>4. \A s \in SUBSET S :
            f[s] = IF s = {} THEN 0
                   ELSE LET x == Max(s) IN AfterFlow(f[s \ {x}], calls[x].shape, address)
    BY <2>1, <2>2
  <2>3. f = [s \in SUBSET S |-> f[s]]
    BY <1>6, Zenon
  <2> QED BY <1>1, <2>3, <2>4, Zenon DEF NetOf
<1> DEFINE c == CHOOSE d : NetOf(d, address)
<1>9. NetOf(c, address)
  BY <1>8
<1>10. NetValue(address) = c[S]
  BY <1>1, NetIs
<1> HIDE DEF c
<1>11. \A s \in SUBSET S :
            c[s] = IF s = {} THEN 0
                   ELSE AfterFlow(c[s \ {pick[s]}], calls[pick[s]].shape, address)
  <2>1. \A s \in SUBSET S :
            c[s] = IF s = {} THEN 0
                   ELSE LET x == Max(s) IN AfterFlow(c[s \ {x}], calls[x].shape, address)
    BY <1>1, <1>9 DEF NetOf
  <2> QED BY <1>2, <2>1
<1>12. ASSUME NEW k \in 1 .. n
       PROVE  c[1 .. k] = AfterFlow(c[1 .. k - 1], calls[k].shape, address)
  <2>1. 1 .. k \in SUBSET S /\ 1 .. k # {} /\ k \in 1 .. k /\ (1 .. k) \ {k} = 1 .. k - 1
    BY <1>1 DEF S
  <2>2. pick[1 .. k] = k
    <3>1. pick[1 .. k] \in 1 .. k /\ k <= pick[1 .. k]
      BY <1>3, <2>1
    <3> QED BY <1>1, <3>1
  <2> QED BY <1>11, <2>1, <2>2
<1>13. c[{}] = 0
  BY <1>11
<1>14. Nets(c, address)
  BY <1>10, <1>12, <1>13 DEF Nets, n, S
<1> QED BY <1>14

(* One call moves a net that is exact, or none, by what it moves. *)
LEMMA FlowExact ==
    ASSUME NEW call, call.value \in Nat, NEW address, NEW exact \in Int,
           NEW net \in {None, exact}
    PROVE  AfterFlow(net, call, address) \in
                {None, (exact + (IF call.to = address THEN call.value ELSE 0))
                            - (IF call.from = address THEN call.value ELSE 0)}
<1> DEFINE v == call.value
           got == IF call.to = address THEN v ELSE 0
           gave == IF call.from = address THEN v ELSE 0
           received == IF call.to = address THEN Moved(net, 1, v) ELSE net
<1>1. ASSUME NEW e \in Int, NEW m \in {None, e}, NEW sign \in {1, -1}
      PROVE  Moved(m, sign, v) \in {None, e + sign * v}
  BY <1>1 DEF Moved, Checked
<1>2. received \in {None, exact + got} /\ exact + got \in Int
  <2>1. CASE call.to = address
    <3>1. Moved(net, 1, v) \in {None, exact + 1 * v}
      BY <1>1
    <3> QED BY <2>1, <3>1
  <2>2. CASE call.to # address
    BY <2>2
  <2> QED BY <2>1, <2>2
<1>3. AfterFlow(net, call, address) = IF call.from = address THEN Moved(received, -1, v) ELSE received
  BY DEF AfterFlow
<1> HIDE DEF received, got
<1>4. AfterFlow(net, call, address) \in {None, (exact + got) - gave}
  <2>1. CASE call.from = address
    <3>1. Moved(received, -1, v) \in {None, (exact + got) + (-1) * v}
      BY <1>1, <1>2
    <3> QED BY <1>2, <1>3, <2>1, <3>1
  <2>2. CASE call.from # address
    BY <1>2, <1>3, <2>2
  <2> QED BY <2>1, <2>2
<1> QED BY <1>4 DEF got

(* Whatever net_value_extracted returns is what the address received less what
   it sent. *)
LEMMA NetIsExact ==
    ASSUME ArenaOK, NEW address
    PROVE  NetValue(address) \in
                {None, Total({id \in DOMAIN calls : calls[id].shape.to = address})
                       - Total({id \in DOMAIN calls : calls[id].shape.from = address})}
<1> DEFINE n == Len(calls)
           To == {id \in 1 .. n : calls[id].shape.to = address}
           From == {id \in 1 .. n : calls[id].shape.from = address}
<1>1. n \in Nat /\ DOMAIN calls = 1 .. n /\ \A k \in 1 .. n : calls[k].shape.value \in Nat
  BY ValuesAre DEF ArenaOK, Value
<1>2. PICK in : ValueSums(in, To)
  BY ValueSumsExist
<1>3. PICK out : ValueSums(out, From)
  BY ValueSumsExist
<1>4. PICK c : Nets(c, address)
  BY NetsExist
<1> DEFINE Exact(k) == in[To \intersect (1 .. k)] - out[From \intersect (1 .. k)]
           T == {k \in 0 .. n : c[1 .. k] \notin {None, Exact(k)}}
<1>5. ASSUME NEW k \in 0 .. n PROVE Exact(k) \in Int
  <2>1. To \intersect (1 .. k) \in SUBSET To /\ From \intersect (1 .. k) \in SUBSET From
    OBVIOUS
  <2>2. in[To \intersect (1 .. k)] \in Int /\ out[From \intersect (1 .. k)] \in Int
    BY <1>2, <1>3, <2>1 DEF ValueSums
  <2> QED BY <2>2
<1>6. 0 \notin T
  <2>1. To \intersect (1 .. 0) = {} /\ From \intersect (1 .. 0) = {} /\ 1 .. 0 = {}
    OBVIOUS
  <2>2. in[{}] = 0 /\ out[{}] = 0 /\ c[{}] = 0
    BY <1>2, <1>3, <1>4 DEF ValueSums, Nets
  <2>3. c[1 .. 0] = Exact(0)
    BY <2>1, <2>2
  <2> QED BY <2>3
<1>7. ASSUME NEW k \in 1 .. n
      PROVE  Exact(k) = (Exact(k - 1) + (IF calls[k].shape.to = address THEN calls[k].shape.value ELSE 0))
                            - (IF calls[k].shape.from = address THEN calls[k].shape.value ELSE 0)
  <2> DEFINE v == calls[k].shape.value
  <2>1. in[To \intersect (1 .. k)] =
            in[To \intersect (1 .. k - 1)] + (IF calls[k].shape.to = address THEN v ELSE 0)
    <3>1. CASE calls[k].shape.to = address
      <4>1. k \in To \intersect (1 .. k) /\ (To \intersect (1 .. k)) \ {k} = To \intersect (1 .. k - 1)
        BY <1>1, <3>1
      <4>2. To \intersect (1 .. k) \in SUBSET To /\ To \intersect (1 .. k - 1) \in SUBSET To
        OBVIOUS
      <4> HIDE DEF To
      <4>3. in[To \intersect (1 .. k)] = Value(k) + in[To \intersect (1 .. k - 1)]
        BY <1>2, <4>1, <4>2 DEF ValueSums
      <4>4. in[To \intersect (1 .. k - 1)] \in Int /\ Value(k) = v /\ v \in Nat
        BY <1>1, <1>2, <4>2 DEF ValueSums, Value
      <4> HIDE DEF v
      <4> QED BY <3>1, <4>3, <4>4
    <3>2. CASE calls[k].shape.to # address
      <4>1. To \intersect (1 .. k) = To \intersect (1 .. k - 1)
        BY <1>1, <3>2
      <4>2. To \intersect (1 .. k) \in SUBSET To
        OBVIOUS
      <4>3. in[To \intersect (1 .. k)] \in Int
        BY <1>2, <4>2 DEF ValueSums
      <4> DEFINE a == in[To \intersect (1 .. k - 1)]
      <4>4. in[To \intersect (1 .. k)] = a /\ a \in Int
        BY <4>1, <4>3, Zenon
      <4> HIDE DEF To, v, a
      <4>5. (IF calls[k].shape.to = address THEN v ELSE 0) = 0
        BY <3>2
      <4>6. a = a + 0
        BY <4>4
      <4>7. a = a + (IF calls[k].shape.to = address THEN v ELSE 0)
        BY <4>5, <4>6, Zenon
      <4> QED BY <4>4, <4>7, Zenon DEF a
    <3> QED BY <3>1, <3>2
  <2>2. out[From \intersect (1 .. k)] =
            out[From \intersect (1 .. k - 1)] + (IF calls[k].shape.from = address THEN v ELSE 0)
    <3>1. CASE calls[k].shape.from = address
      <4>1. k \in From \intersect (1 .. k) /\ (From \intersect (1 .. k)) \ {k} = From \intersect (1 .. k - 1)
        BY <1>1, <3>1
      <4>2. From \intersect (1 .. k) \in SUBSET From /\ From \intersect (1 .. k - 1) \in SUBSET From
        OBVIOUS
      <4> HIDE DEF From
      <4>3. out[From \intersect (1 .. k)] = Value(k) + out[From \intersect (1 .. k - 1)]
        BY <1>3, <4>1, <4>2 DEF ValueSums
      <4>4. out[From \intersect (1 .. k - 1)] \in Int /\ Value(k) = v /\ v \in Nat
        BY <1>1, <1>3, <4>2 DEF ValueSums, Value
      <4> HIDE DEF v
      <4> QED BY <3>1, <4>3, <4>4
    <3>2. CASE calls[k].shape.from # address
      <4>1. From \intersect (1 .. k) = From \intersect (1 .. k - 1)
        BY <1>1, <3>2
      <4>2. From \intersect (1 .. k) \in SUBSET From
        OBVIOUS
      <4>3. out[From \intersect (1 .. k)] \in Int
        BY <1>3, <4>2 DEF ValueSums
      <4> DEFINE a == out[From \intersect (1 .. k - 1)]
      <4>4. out[From \intersect (1 .. k)] = a /\ a \in Int
        BY <4>1, <4>3, Zenon
      <4> HIDE DEF From, v, a
      <4>5. (IF calls[k].shape.from = address THEN v ELSE 0) = 0
        BY <3>2
      <4>6. a = a + 0
        BY <4>4
      <4>7. a = a + (IF calls[k].shape.from = address THEN v ELSE 0)
        BY <4>5, <4>6, Zenon
      <4> QED BY <4>4, <4>7, Zenon DEF a
    <3> QED BY <3>1, <3>2
  <2>3. /\ in[To \intersect (1 .. k - 1)] \in Int /\ out[From \intersect (1 .. k - 1)] \in Int
        /\ v \in Nat
    <3>1. To \intersect (1 .. k - 1) \in SUBSET To /\ From \intersect (1 .. k - 1) \in SUBSET From
      OBVIOUS
    <3> QED BY <1>1, <1>2, <1>3, <3>1 DEF ValueSums
  <2> HIDE DEF To, From, v
  <2>4. Exact(k) = (Exact(k - 1) + (IF calls[k].shape.to = address THEN v ELSE 0))
                            - (IF calls[k].shape.from = address THEN v ELSE 0)
    BY <2>1, <2>2, <2>3
  <2> QED BY <2>4 DEF v
<1> HIDE DEF To, From
<1>8. ASSUME NEW k \in 1 .. n, k - 1 \notin T PROVE k \notin T
  <2>0. k - 1 \in 0 .. n
    BY <1>1
  <2>1. c[1 .. k - 1] \in {None, Exact(k - 1)}
    BY <1>8, <2>0, Zenon
  <2>4. Exact(k - 1) \in Int
    BY <1>5, <2>0, Zenon
  <2> DEFINE net == c[1 .. k - 1]
             call == calls[k].shape
  <2>2. c[1 .. k] = AfterFlow(c[1 .. k - 1], calls[k].shape, address)
    BY <1>4 DEF Nets
  <2> HIDE DEF Exact
  <2>5. call.value \in Nat
    BY <1>1
  <2>6. Exact(k) = (Exact(k - 1) + (IF call.to = address THEN call.value ELSE 0))
                       - (IF call.from = address THEN call.value ELSE 0)
    BY <1>7
  <2> DEFINE before == Exact(k - 1)
  <2>7. net \in {None, before} /\ before \in Int
    BY <2>1, <2>4
  <2> HIDE DEF net, call, before
  <2>8. AfterFlow(net, call, address) \in
            {None, (before + (IF call.to = address THEN call.value ELSE 0))
                        - (IF call.from = address THEN call.value ELSE 0)}
    BY <2>5, <2>7, FlowExact
  <2>9. AfterFlow(net, call, address) \in {None, Exact(k)}
    BY <2>6, <2>8, Zenon DEF before
  <2>3. c[1 .. k] \in {None, Exact(k)}
    BY <2>2, <2>9, Zenon DEF net, call
  <2> QED BY <2>3
<1>9. T = {}
  <2> SUFFICES ASSUME T # {} PROVE FALSE
    OBVIOUS
  <2>1. T \in SUBSET Nat
    OBVIOUS
  <2>2. PICK k \in T : \A y \in T : k <= y
    <3> HIDE DEF T
    <3> QED BY <2>1, MinExists
  <2>3. k \in 0 .. n /\ k # 0
    BY <1>6, <2>2
  <2>4. k \in 1 .. n /\ k - 1 \in Nat /\ ~(k <= k - 1)
    BY <1>1, <2>3
  <2> HIDE DEF T
  <2>5. k - 1 \notin T
    BY <2>2, <2>4
  <2> QED BY <1>8, <2>2, <2>4, <2>5
<1>10. c[1 .. n] \in {None, Exact(n)}
  <2>1. n \in 0 .. n /\ n \notin T
    <3> HIDE DEF T
    <3> QED BY <1>1, <1>9
  <2> HIDE DEF Exact
  <2> QED BY <2>1, Zenon
<1>11. To \intersect (1 .. n) = To /\ From \intersect (1 .. n) = From
  BY DEF To, From
<1>12. in[To] = Total(To) /\ out[From] = Total(From) /\ c[1 .. n] = NetValue(address)
  BY <1>2, <1>3, <1>4 DEF ValueSums, Nets
<1>13. NetValue(address) \in {None, Total(To) - Total(From)}
  BY <1>10, <1>11, <1>12
<1> QED BY <1>1, <1>13 DEF To, From

(* No overflow of net_value_extracted on the way to its result goes unnoticed,
   for any number of calls and amounts: what it returns is what the address
   received less what it sent, or nothing. *)
THEOREM NetValues == Spec => []NetValueIsNeverWrong
<1>1. IInv => NetValueIsNeverWrong
  <2> SUFFICES ASSUME ArenaOK, NEW address \in {calls[id].shape.from : id \in DOMAIN calls}
               PROVE  NetValue(address) \in
                        {None, Total({id \in DOMAIN calls : calls[id].shape.to = address})
                               - Total({id \in DOMAIN calls : calls[id].shape.from = address})}
    BY DEF IInv, NetValueIsNeverWrong, Total
  <2> QED BY NetIsExact
<1> QED BY <1>1, IndexInvariance, PTL
=============================================================================
