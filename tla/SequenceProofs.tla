--------------------------- MODULE SequenceProofs ---------------------------
(***************************************************************************)
(* What the proofs share about naturals and sequences: least elements,     *)
(* lists compared neighbour by neighbour, where the elements of a          *)
(* flattened sequence come from, when two lists of the same places are     *)
(* one, that a fold over a finite set has the values its steps give, that  *)
(* a sum over one does not depend on the order it is taken in, and that a  *)
(* fold from the left over a list is what its steps, one by one, make it.  *)
(* Every induction is on a least counterexample.                           *)
(***************************************************************************)
EXTENDS Integers, Sequences, SequencesExt, WellFoundedInduction, SequenceTheorems,
        FiniteSetTheorems, TLAPS

(* A set of naturals with an element has a least one: the induction the
   proofs below rest on. *)
LEMMA MinExists ==
    ASSUME NEW T \in SUBSET Nat, T # {}
    PROVE  \E x \in T : \A y \in T : x <= y
<1> DEFINE R == {ss \in Nat \X Nat : ss[1] < ss[2]}
<1>1. IsWellFoundedOn(R, Nat)
  BY NatLessThanWellFounded, Zenon DEF OpToRel
<1>2. \E x \in T : \A y \in T : ~(<<y, x>> \in R)
  <2> HIDE DEF R
  <2> QED BY <1>1, WFMin
<1>3. \A x, y \in T : ~(<<y, x>> \in R) => x <= y
  OBVIOUS
<1> QED BY <1>2, <1>3

(* Keys that never fall from one step to the next never fall at all. *)
LEMMA Monotone ==
    ASSUME NEW n \in Nat, NEW f, \A i \in 1 .. n : f[i] \in Nat,
           \A i \in 1 .. n - 1 : f[i] <= f[i + 1]
    PROVE  \A i, j \in 1 .. n : i < j => f[i] <= f[j]
<1> DEFINE T == {k \in 1 .. n : \E i \in 1 .. n : i < k /\ ~(f[i] <= f[k])}
<1>1. SUFFICES ASSUME T # {} PROVE FALSE
  OBVIOUS
<1>2. PICK k \in T : \A y \in T : k <= y
  <2>1. T \in SUBSET Nat
    OBVIOUS
  <2> HIDE DEF T
  <2> QED BY <1>1, <2>1, MinExists
<1>3. PICK i \in 1 .. n : i < k /\ ~(f[i] <= f[k])
  BY <1>2
<1>4. k - 1 \in 1 .. n /\ k - 1 \notin T /\ f[k - 1] <= f[k]
  <2>1. k \in 1 .. n /\ k - 1 \in 1 .. n - 1
    BY <1>2, <1>3
  <2>2. f[k - 1] <= f[(k - 1) + 1]
    BY <2>1
  <2> QED BY <1>2, <2>1, <2>2
<1>5. i = k - 1 \/ f[i] <= f[k - 1]
  BY <1>3, <1>4, <1>2
<1> QED BY <1>3, <1>4, <1>5, <1>2

(* Calls that agree pairwise along a list are all one call. *)
LEMMA Constant ==
    ASSUME NEW n \in Nat, NEW f, \A i \in 1 .. n - 1 : f[i] = f[i + 1]
    PROVE  \A i, j \in 1 .. n : f[i] = f[j]
<1> DEFINE T == {k \in 1 .. n : f[k] # f[1]}
<1>1. SUFFICES ASSUME T # {} PROVE FALSE
  OBVIOUS
<1>2. PICK k \in T : \A y \in T : k <= y
  <2>1. T \in SUBSET Nat
    OBVIOUS
  <2> HIDE DEF T
  <2> QED BY <1>1, <2>1, MinExists
<1>3. k \in 1 .. n /\ k # 1 /\ k - 1 \in 1 .. n - 1
  BY <1>2
<1>4. f[k - 1] = f[1]
  BY <1>2, <1>3
<1>5. f[k - 1] = f[(k - 1) + 1]
  BY <1>3
<1> QED BY <1>2, <1>3, <1>4, <1>5

-----------------------------------------------------------------------------
(* FlattenSeq.                                                              *)

(* f flattens the first i of the sequences, for every i up to n. *)
Flattens(f, seqs, n) ==
    f = [i \in 1 .. n |-> IF i = 1 THEN seqs[i] ELSE f[i - 1] \o seqs[i]]

LEMMA FlattensExists ==
    ASSUME NEW seqs, NEW n \in Nat
    PROVE  \E f : Flattens(f, seqs, n)
<1> DEFINE T == {m \in Nat : ~ \E f : Flattens(f, seqs, m)}
<1>1. SUFFICES ASSUME T # {} PROVE FALSE
  OBVIOUS
<1>2. PICK m \in T : \A y \in T : m <= y
  <2>1. T \in SUBSET Nat
    OBVIOUS
  <2> HIDE DEF T
  <2> QED BY <1>1, <2>1, MinExists
<1>3. m # 0
  <2>1. Flattens([i \in 1 .. 0 |-> <<>>], seqs, 0)
    BY DEF Flattens
  <2> QED BY <1>2, <2>1
<1>4. PICK f : Flattens(f, seqs, m - 1)
  BY <1>2, <1>3
<1> DEFINE last == IF m = 1 THEN seqs[m] ELSE f[m - 1] \o seqs[m]
           g == [i \in 1 .. m |-> IF i = m THEN last ELSE f[i]]
<1>5. \A i \in 1 .. m : g[i] = IF i = 1 THEN seqs[i] ELSE g[i - 1] \o seqs[i]
  <2> SUFFICES ASSUME NEW i \in 1 .. m
               PROVE  g[i] = IF i = 1 THEN seqs[i] ELSE g[i - 1] \o seqs[i]
    OBVIOUS
  <2>1. CASE i = m
    <3>1. i # 1 => i - 1 \in 1 .. m /\ i - 1 # m /\ g[i - 1] = f[i - 1]
      BY <1>2, <1>3
    <3> QED BY <2>1, <3>1
  <2>2. CASE i # m
    <3>1. i \in 1 .. m - 1 /\ g[i] = f[i]
      BY <1>2, <1>3, <2>2
    <3>2. i # 1 => i - 1 \in 1 .. m /\ i - 1 # m /\ g[i - 1] = f[i - 1]
      BY <1>2, <1>3
    <3>3. f[i] = IF i = 1 THEN seqs[i] ELSE f[i - 1] \o seqs[i]
      BY <1>4, <3>1 DEF Flattens
    <3> QED BY <3>1, <3>2, <3>3
  <2> QED BY <2>1, <2>2
<1>6. Flattens(g, seqs, m)
  <2>1. g = [i \in 1 .. m |-> g[i]]
    OBVIOUS
  <2> HIDE DEF g
  <2> QED BY <1>5, <2>1 DEF Flattens
<1> QED BY <1>2, <1>6

LEMMA FlattenSeqIs ==
    ASSUME NEW S, NEW seqs \in Seq(S)
    PROVE  \/ Len(seqs) = 0 /\ FlattenSeq(seqs) = <<>>
           \/ Len(seqs) > 0 /\ \E f : Flattens(f, seqs, Len(seqs)) /\ FlattenSeq(seqs) = f[Len(seqs)]
<1>1. CASE Len(seqs) = 0
  BY <1>1 DEF FlattenSeq
<1>2. CASE Len(seqs) # 0
  <2> DEFINE F == CHOOSE f : Flattens(f, seqs, Len(seqs))
  <2>1. Len(seqs) \in Nat
    OBVIOUS
  <2>2. Flattens(F, seqs, Len(seqs))
    BY <2>1, FlattensExists
  <2>3. FlattenSeq(seqs) = F[Len(seqs)]
    BY <1>2 DEF FlattenSeq, Flattens
  <2> HIDE DEF F
  <2> QED BY <1>2, <2>1, <2>2, <2>3
<1> QED BY <1>1, <1>2

(* out holds the elements of the first n sequences: the k-th of them is element
   col[k] of sequence row[k], in the order of the sequences and of each. *)
ComesFrom(out, row, col, seqs, n) ==
    /\ row \in Seq(1 .. n) /\ col \in Seq(Nat)
    /\ Len(row) = Len(out) /\ Len(col) = Len(out)
    /\ \A k \in 1 .. Len(out) :
            col[k] \in 1 .. Len(seqs[row[k]]) /\ out[k] = seqs[row[k]][col[k]]
    /\ \A k, l \in 1 .. Len(out) :
            k < l => row[k] < row[l] \/ (row[k] = row[l] /\ col[k] < col[l])
    /\ \A i \in 1 .. n : \A j \in 1 .. Len(seqs[i]) :
            \E k \in 1 .. Len(out) : row[k] = i /\ col[k] = j

LEMMA ComesFromNext ==
    ASSUME NEW X, NEW n \in Nat, NEW seqs, NEW out \in Seq(X), NEW row, NEW col,
           ComesFrom(out, row, col, seqs, n), seqs[n + 1] \in Seq(X)
    PROVE  \E r, c : ComesFrom(out \o seqs[n + 1], r, c, seqs, n + 1)
<1> DEFINE more == seqs[n + 1]
           new == out \o more
           r == [k \in 1 .. Len(new) |-> IF k <= Len(out) THEN row[k] ELSE n + 1]
           c == [k \in 1 .. Len(new) |-> IF k <= Len(out) THEN col[k] ELSE k - Len(out)]
<1>1. /\ row \in Seq(1 .. n) /\ col \in Seq(Nat) /\ Len(out) \in Nat
      /\ Len(row) = Len(out) /\ Len(col) = Len(out)
      /\ \A k \in 1 .. Len(out) : row[k] \in 1 .. n /\ col[k] \in Nat
  BY DEF ComesFrom
<1>2. /\ Len(more) \in Nat /\ Len(new) = Len(out) + Len(more) /\ Len(new) \in Nat
      /\ \A k \in 1 .. Len(out) : new[k] = out[k]
      /\ \A k \in 1 .. Len(new) : k > Len(out) => new[k] = more[k - Len(out)]
  OBVIOUS
<1> HIDE DEF new
<1>3. /\ \A k \in 1 .. Len(new) : r[k] = IF k <= Len(out) THEN row[k] ELSE n + 1
      /\ \A k \in 1 .. Len(new) : c[k] = IF k <= Len(out) THEN col[k] ELSE k - Len(out)
  OBVIOUS
<1>4. r \in Seq(1 .. n + 1) /\ c \in Seq(Nat) /\ Len(r) = Len(new) /\ Len(c) = Len(new)
  BY <1>1, <1>2
<1> HIDE DEF r, c
<1>5. ASSUME NEW k \in 1 .. Len(new)
      PROVE  c[k] \in 1 .. Len(seqs[r[k]]) /\ new[k] = seqs[r[k]][c[k]]
  <2>1. CASE k <= Len(out)
    <3>1. k \in 1 .. Len(out) /\ r[k] = row[k] /\ c[k] = col[k] /\ new[k] = out[k]
      BY <1>1, <1>2, <1>3, <2>1
    <3> QED BY <3>1 DEF ComesFrom
  <2>2. CASE ~(k <= Len(out))
    <3>1. /\ r[k] = n + 1 /\ c[k] = k - Len(out) /\ new[k] = more[k - Len(out)]
          /\ k - Len(out) \in 1 .. Len(more)
      BY <1>1, <1>2, <1>3, <2>2
    <3> QED BY <3>1
  <2> QED BY <2>1, <2>2
<1>6. ASSUME NEW k \in 1 .. Len(new), NEW l \in 1 .. Len(new), k < l
      PROVE  r[k] < r[l] \/ (r[k] = r[l] /\ c[k] < c[l])
  <2>1. CASE l <= Len(out)
    <3>1. /\ k \in 1 .. Len(out) /\ l \in 1 .. Len(out)
          /\ r[k] = row[k] /\ c[k] = col[k] /\ r[l] = row[l] /\ c[l] = col[l]
      BY <1>1, <1>2, <1>3, <1>6, <2>1
    <3> QED BY <1>6, <3>1 DEF ComesFrom
  <2>2. CASE k <= Len(out) /\ ~(l <= Len(out))
    <3>1. k \in 1 .. Len(out) /\ r[k] = row[k] /\ r[l] = n + 1
      BY <1>1, <1>2, <1>3, <2>2
    <3> QED BY <1>1, <3>1
  <2>3. CASE ~(k <= Len(out))
    <3>1. r[k] = n + 1 /\ r[l] = n + 1 /\ c[k] = k - Len(out) /\ c[l] = l - Len(out)
      BY <1>1, <1>2, <1>3, <1>6, <2>3
    <3> QED BY <1>1, <1>2, <1>6, <3>1
  <2> QED BY <2>1, <2>2, <2>3
<1>7. ASSUME NEW i \in 1 .. n + 1, NEW j \in 1 .. Len(seqs[i])
      PROVE  \E k \in 1 .. Len(new) : r[k] = i /\ c[k] = j
  <2>1. CASE i = n + 1
    <3>1. /\ Len(out) + j \in 1 .. Len(new) /\ ~(Len(out) + j <= Len(out))
          /\ (Len(out) + j) - Len(out) = j
      BY <1>1, <1>2, <2>1
    <3> QED BY <1>3, <2>1, <3>1
  <2>2. CASE i # n + 1
    <3>1. PICK k \in 1 .. Len(out) : row[k] = i /\ col[k] = j
      <4>1. i \in 1 .. n
        BY <2>2
      <4> QED BY <4>1 DEF ComesFrom
    <3>2. k \in 1 .. Len(new) /\ k <= Len(out)
      BY <1>1, <1>2
    <3> QED BY <1>3, <3>1, <3>2
  <2> QED BY <2>1, <2>2
<1>8. ComesFrom(new, r, c, seqs, n + 1)
  BY <1>4, <1>5, <1>6, <1>7 DEF ComesFrom
<1> QED BY <1>8 DEF new

(* Where the elements of a flattened sequence come from. *)
LEMMA FlattenSeqLists ==
    ASSUME NEW X, NEW seqs \in Seq(Seq(X))
    PROVE  /\ FlattenSeq(seqs) \in Seq(X)
           /\ \E row, col : ComesFrom(FlattenSeq(seqs), row, col, seqs, Len(seqs))
<1>1. ASSUME NEW f, Flattens(f, seqs, Len(seqs)), NEW n \in 1 .. Len(seqs)
      PROVE  f[n] \in Seq(X) /\ \E row, col : ComesFrom(f[n], row, col, seqs, n)
  <2> DEFINE Right(m) == f[m] \in Seq(X) /\ \E row, col : ComesFrom(f[m], row, col, seqs, m)
             T == {m \in 1 .. Len(seqs) : ~Right(m)}
  <2>1. SUFFICES ASSUME T # {} PROVE FALSE
    OBVIOUS
  <2>2. PICK m \in T : \A y \in T : m <= y
    <3>1. T \in SUBSET Nat
      OBVIOUS
    <3> HIDE DEF T
    <3> QED BY <2>1, <3>1, MinExists
  <2>3. m \in 1 .. Len(seqs) /\ ~Right(m) /\ seqs[m] \in Seq(X)
    BY <2>2
  <2>4. f[m] = IF m = 1 THEN seqs[m] ELSE f[m - 1] \o seqs[m]
    BY <1>1, <2>3 DEF Flattens
  <2>5. CASE m = 1
    <3>1. ComesFrom(<<>>, <<>>, <<>>, seqs, 0)
      BY DEF ComesFrom
    <3>2. \E r, c : ComesFrom(<<>> \o seqs[0 + 1], r, c, seqs, 0 + 1)
      <4>1. <<>> \in Seq(X) /\ 0 \in Nat /\ seqs[0 + 1] \in Seq(X)
        BY <2>3, <2>5
      <4> QED BY <3>1, <4>1, ComesFromNext
    <3>3. <<>> \o seqs[0 + 1] = seqs[1] /\ 0 + 1 = 1
      BY <2>3, <2>5
    <3> QED BY <2>3, <2>4, <2>5, <3>2, <3>3
  <2>6. CASE m # 1
    <3>1. m - 1 \in 1 .. Len(seqs) /\ m - 1 \in Nat /\ (m - 1) + 1 = m /\ ~(m <= m - 1)
      BY <2>3, <2>6
    <3>2. m - 1 \notin T
      <4> HIDE DEF T
      <4> QED BY <2>2, <3>1
    <3>3. f[m - 1] \in Seq(X) /\ \E row, col : ComesFrom(f[m - 1], row, col, seqs, m - 1)
      BY <3>1, <3>2
    <3>4. PICK row, col : ComesFrom(f[m - 1], row, col, seqs, m - 1)
      BY <3>3
    <3>5. \E r, c : ComesFrom(f[m - 1] \o seqs[(m - 1) + 1], r, c, seqs, (m - 1) + 1)
      <4>1. seqs[(m - 1) + 1] \in Seq(X)
        BY <2>3, <3>1
      <4> HIDE DEF T
      <4> QED BY <3>1, <3>3, <3>4, <4>1, ComesFromNext
    <3>6. f[m] = f[m - 1] \o seqs[m] /\ f[m] \in Seq(X)
      <4>1. f[m] = f[m - 1] \o seqs[m]
        BY <2>4, <2>6
      <4> HIDE DEF T, Right
      <4> QED BY <2>3, <3>3, <4>1
    <3> QED BY <2>3, <3>1, <3>5, <3>6
  <2> QED BY <2>5, <2>6
<1>2. CASE Len(seqs) = 0
  <2>1. FlattenSeq(seqs) = <<>>
    BY <1>2 DEF FlattenSeq
  <2>2. ComesFrom(<<>>, <<>>, <<>>, seqs, 0)
    BY DEF ComesFrom
  <2> QED BY <1>2, <2>1, <2>2
<1>3. CASE Len(seqs) # 0
  <2>1. PICK f : Flattens(f, seqs, Len(seqs)) /\ FlattenSeq(seqs) = f[Len(seqs)]
    BY <1>3, FlattenSeqIs
  <2>2. Len(seqs) \in 1 .. Len(seqs)
    BY <1>3
  <2> QED BY <1>1, <2>1, <2>2
<1> QED BY <1>2, <1>3

(* out is a selection of n elements e, in their order: its k-th element is
   that at row[k]. *)
Keeps(out, row, e, n, selected) ==
    /\ row \in Seq(1 .. n) /\ Len(row) = Len(out)
    /\ \A k \in 1 .. Len(out) : row[k] \in selected /\ out[k] = e[row[k]]
    /\ \A k, l \in 1 .. Len(out) : k < l => row[k] < row[l]
    /\ \A i \in selected : \E k \in 1 .. Len(out) : row[k] = i

LEMMA FlattenSelected ==
    ASSUME NEW X, NEW n \in Nat, NEW selected \in SUBSET (1 .. n),
           NEW e, \A i \in selected : e[i] \in X,
           NEW seqs, seqs = [i \in 1 .. n |-> IF i \in selected THEN <<e[i]>> ELSE <<>>]
    PROVE  FlattenSeq(seqs) \in Seq(X) /\ \E row : Keeps(FlattenSeq(seqs), row, e, n, selected)
<1>1. \A x \in X : <<x>> \in Seq(X) /\ Len(<<x>>) = 1 /\ <<x>>[1] = x
  OBVIOUS
<1>2. \A i \in 1 .. n : /\ i \in selected => seqs[i] = <<e[i]>> /\ e[i] \in X
                        /\ i \notin selected => seqs[i] = <<>>
  OBVIOUS
<1>3. seqs \in Seq(Seq(X)) /\ Len(seqs) = n
  <2>1. \A i \in 1 .. n : seqs[i] \in Seq(X)
    <3>1. <<>> \in Seq(X)
      OBVIOUS
    <3> QED BY <1>1, <1>2, <3>1
  <2>2. seqs = [i \in 1 .. n |-> seqs[i]]
    OBVIOUS
  <2> QED BY <2>1, <2>2
<1>4. \A i \in 1 .. n : /\ i \in selected => Len(seqs[i]) = 1 /\ seqs[i][1] = e[i]
                        /\ i \notin selected => Len(seqs[i]) = 0
  <2> SUFFICES ASSUME NEW i \in 1 .. n
               PROVE  /\ i \in selected => Len(seqs[i]) = 1 /\ seqs[i][1] = e[i]
                      /\ i \notin selected => Len(seqs[i]) = 0
    OBVIOUS
  <2>1. CASE i \in selected
    BY <1>1, <1>2, <2>1
  <2>2. CASE i \notin selected
    <3>1. seqs[i] = <<>>
      BY <1>2, <2>2
    <3> QED BY <2>2, <3>1
  <2> QED BY <2>1, <2>2
<1> DEFINE out == FlattenSeq(seqs)
<1>5. out \in Seq(X) /\ \E row, col : ComesFrom(out, row, col, seqs, n)
  BY <1>3, FlattenSeqLists
<1> HIDE DEF out
<1>6. PICK row, col : ComesFrom(out, row, col, seqs, n)
  BY <1>5
<1>7. row \in Seq(1 .. n) /\ Len(row) = Len(out) /\ Len(out) \in Nat
  BY <1>5, <1>6 DEF ComesFrom
<1>8. ASSUME NEW k \in 1 .. Len(out)
      PROVE  row[k] \in selected /\ col[k] = 1 /\ out[k] = e[row[k]]
  <2>1. row[k] \in 1 .. n
    BY <1>7
  <2>2. col[k] \in 1 .. Len(seqs[row[k]]) /\ out[k] = seqs[row[k]][col[k]]
    BY <1>6 DEF ComesFrom
  <2>3. row[k] \in selected
    BY <1>4, <2>1, <2>2
  <2> QED BY <1>4, <2>1, <2>2, <2>3
<1>9. ASSUME NEW k \in 1 .. Len(out), NEW l \in 1 .. Len(out), k < l PROVE row[k] < row[l]
  <2>1. row[k] < row[l] \/ (row[k] = row[l] /\ col[k] < col[l])
    BY <1>6, <1>9 DEF ComesFrom
  <2> QED BY <1>8, <2>1
<1>10. ASSUME NEW i \in selected PROVE \E k \in 1 .. Len(out) : row[k] = i
  <2>1. i \in 1 .. n /\ 1 \in 1 .. Len(seqs[i])
    BY <1>4
  <2>2. \A x \in 1 .. n : \A j \in 1 .. Len(seqs[x]) :
            \E k \in 1 .. Len(out) : row[k] = x /\ col[k] = j
    BY <1>6 DEF ComesFrom
  <2> QED BY <2>1, <2>2, Zenon
<1>11. Keeps(out, row, e, n, selected)
  BY <1>7, <1>8, <1>9, <1>10 DEF Keeps
<1> QED BY <1>5, <1>11 DEF out

(* Two of them agree as far as what they flatten does. *)
LEMMA FlattensAgree ==
    ASSUME NEW a, NEW b, NEW f, NEW g, NEW n \in Nat, NEW m \in Nat, NEW k \in Nat, k <= n, k <= m,
           Flattens(f, a, n), Flattens(g, b, m), \A i \in 1 .. k : a[i] = b[i]
    PROVE  \A i \in 1 .. k : f[i] = g[i]
<1> DEFINE T == {i \in 1 .. k : f[i] # g[i]}
<1>1. SUFFICES ASSUME T # {} PROVE FALSE
  OBVIOUS
<1>2. PICK i \in T : \A y \in T : i <= y
  <2>1. T \in SUBSET Nat
    OBVIOUS
  <2> HIDE DEF T
  <2> QED BY <1>1, <2>1, MinExists
<1>3. i \in 1 .. k /\ f[i] # g[i] /\ a[i] = b[i] /\ i \in 1 .. n /\ i \in 1 .. m
  BY <1>2
<1>4. /\ f[i] = IF i = 1 THEN a[i] ELSE f[i - 1] \o a[i]
      /\ g[i] = IF i = 1 THEN b[i] ELSE g[i - 1] \o b[i]
  BY <1>3 DEF Flattens
<1>5. i # 1 => f[i - 1] = g[i - 1]
  <2>1. i # 1 => i - 1 \in 1 .. k /\ ~(i <= i - 1)
    BY <1>3
  <2> QED BY <1>2, <2>1
<1> QED BY <1>3, <1>4, <1>5

(* The (n + 1)-st step of one after the n-th of the other. *)
Grows(f, g, b, n) == f[n + 1] = g[n] \o b[n + 1]

LEMMA FlattenStep ==
    ASSUME NEW a, NEW b, NEW f, NEW g, NEW n \in Nat \ {0},
           Flattens(f, b, n + 1), Flattens(g, a, n), \A i \in 1 .. n : b[i] = a[i]
    PROVE  Grows(f, g, b, n)
<1>1. \A i \in 1 .. n : f[i] = g[i]
  <2>1. n + 1 \in Nat /\ n <= n + 1 /\ n <= n /\ n \in Nat
    OBVIOUS
  <2> QED BY <2>1, FlattensAgree
<1>2. f[n + 1] = f[n] \o b[n + 1] /\ n \in 1 .. n
  <2>1. n + 1 \in 1 .. n + 1 /\ n + 1 # 1 /\ (n + 1) - 1 = n /\ n \in 1 .. n
    OBVIOUS
  <2>2. \A i \in 1 .. n + 1 : f[i] = IF i = 1 THEN b[i] ELSE f[i - 1] \o b[i]
    BY Zenon DEF Flattens
  <2> QED BY <2>1, <2>2
<1> QED BY <1>1, <1>2 DEF Grows

LEMMA FlattenSeqEmpty == FlattenSeq(<<>>) = <<>>
BY DEF FlattenSeq

LEMMA FlattenSeqAppend ==
    ASSUME NEW X, NEW seqs \in Seq(Seq(X)), NEW s \in Seq(X)
    PROVE  FlattenSeq(Append(seqs, s)) = FlattenSeq(seqs) \o s
<1> DEFINE more == Append(seqs, s)
           n == Len(seqs)
<1>1. /\ n \in Nat /\ more \in Seq(Seq(X)) /\ Len(more) = n + 1 /\ more[n + 1] = s
      /\ \A i \in 1 .. n : more[i] = seqs[i]
  OBVIOUS
<1> HIDE DEF more
<1>2. PICK f : Flattens(f, more, n + 1) /\ FlattenSeq(more) = f[n + 1]
  <2>1. Len(more) > 0
    BY <1>1
  <2> QED BY <1>1, <2>1, FlattenSeqIs
<1>3. CASE n = 0
  <2>1. f[1] = s
    <3>1. 1 \in 1 .. n + 1 /\ n + 1 = 1
      BY <1>3
    <3>2. \A i \in 1 .. n + 1 : f[i] = IF i = 1 THEN more[i] ELSE f[i - 1] \o more[i]
      BY <1>2, Zenon DEF Flattens
    <3> HIDE DEF n
    <3> QED BY <1>1, <3>1, <3>2
  <2>2. FlattenSeq(seqs) = <<>> /\ n + 1 = 1
    BY <1>3 DEF FlattenSeq
  <2> QED BY <1>2, <2>1, <2>2, ConcatEmptySeq DEF more
<1>4. CASE n # 0
  <2>1. PICK g : Flattens(g, seqs, n) /\ FlattenSeq(seqs) = g[n]
    BY <1>4, FlattenSeqIs
  <2>2. Grows(f, g, more, n)
    <3>1. n \in Nat \ {0}
      BY <1>1, <1>4
    <3> HIDE DEF n
    <3> QED BY <1>1, <1>2, <2>1, <3>1, FlattenStep, Zenon
  <2>3. FlattenSeq(more) = FlattenSeq(seqs) \o s
    BY <1>1, <1>2, <2>1, <2>2, Zenon DEF Grows
  <2> QED BY <2>3 DEF more
<1> QED BY <1>3, <1>4

LEMMA FlattenSeqOne ==
    ASSUME NEW X, NEW s \in Seq(X) PROVE FlattenSeq(<<s>>) = s
<1>1. <<>> \in Seq(Seq(X)) /\ Append(<<>>, s) = <<s>> /\ <<>> \o s = s
  BY ConcatEmptySeq
<1> QED BY <1>1, FlattenSeqEmpty, FlattenSeqAppend

LEMMA FlattenSeqCat ==
    ASSUME NEW X, NEW a \in Seq(Seq(X)), NEW b \in Seq(Seq(X))
    PROVE  FlattenSeq(a \o b) = FlattenSeq(a) \o FlattenSeq(b)
<1> DEFINE Holds(c) == FlattenSeq(a \o c) = FlattenSeq(a) \o FlattenSeq(c)
           T == {n \in Nat : \E c \in Seq(Seq(X)) : Len(c) = n /\ ~Holds(c)}
<1>1. SUFFICES ASSUME T # {} PROVE FALSE
  <2>1. Len(b) \in Nat
    OBVIOUS
  <2> QED BY <2>1
<1>2. PICK n \in T : \A y \in T : n <= y
  <2>1. T \in SUBSET Nat
    OBVIOUS
  <2> HIDE DEF T
  <2> QED BY <1>1, <2>1, MinExists
<1>3. PICK c \in Seq(Seq(X)) : Len(c) = n /\ ~Holds(c)
  BY <1>2
<1>4. FlattenSeq(a) \in Seq(X)
  BY FlattenSeqLists
<1>5. c # <<>>
  <2> SUFFICES ASSUME c = <<>> PROVE FALSE
    OBVIOUS
  <2>1. a \o <<>> = a /\ FlattenSeq(a) \o <<>> = FlattenSeq(a)
    BY <1>4, ConcatEmptySeq
  <2> QED BY <1>3, <2>1, FlattenSeqEmpty
<1>6. PICK d \in Seq(Seq(X)), s \in Seq(X) : c = Append(d, s)
  BY <1>5, SequenceEmptyOrAppend
<1>7. Holds(d)
  <2>1. Len(d) \in Nat /\ Len(d) + 1 = n
    BY <1>3, <1>6
  <2>2. Len(d) \notin T
    <3> HIDE DEF T
    <3> QED BY <1>2, <2>1
  <2> HIDE DEF Holds
  <2> QED BY <2>1, <2>2
<1>8. a \o c = Append(a \o d, s) /\ a \o d \in Seq(Seq(X))
  <2>1. s \in Seq(X) /\ <<s>> \in Seq(Seq(X)) /\ c = d \o <<s>> /\ a \o d \in Seq(Seq(X))
    BY <1>6, AppendIsConcat
  <2>2. Append(a \o d, s) = (a \o d) \o <<s>>
    BY <2>1, AppendIsConcat
  <2>3. (a \o d) \o <<s>> = a \o (d \o <<s>>)
    <3> HIDE DEF T, Holds
    <3>1. a \in Seq(Seq(X)) /\ d \in Seq(Seq(X)) /\ <<s>> \in Seq(Seq(X))
      BY <2>1
    <3> QED BY <3>1, ConcatAssociative, SMTT(30)
  <2> HIDE DEF T, Holds
  <2> QED BY <2>1, <2>2, <2>3, Zenon
<1>9. FlattenSeq(a \o c) = (FlattenSeq(a) \o FlattenSeq(d)) \o s
  <2> HIDE DEF T
  <2>1. FlattenSeq(Append(a \o d, s)) = FlattenSeq(a \o d) \o s
    <3> HIDE DEF Holds
    <3> QED BY <1>8, FlattenSeqAppend
  <2>2. FlattenSeq(a \o d) = FlattenSeq(a) \o FlattenSeq(d)
    BY <1>7, Zenon
  <2> HIDE DEF Holds
  <2> QED BY <1>8, <2>1, <2>2, Zenon
<1>10. FlattenSeq(a) \o FlattenSeq(c) = FlattenSeq(a) \o (FlattenSeq(d) \o s)
  <2>1. FlattenSeq(c) = FlattenSeq(d) \o s
    <3> HIDE DEF T, Holds
    <3> QED BY <1>6, FlattenSeqAppend
  <2> HIDE DEF T, Holds
  <2> QED BY <2>1, Zenon
<1>11. FlattenSeq(d) \in Seq(X)
  BY FlattenSeqLists
<1>12. (FlattenSeq(a) \o FlattenSeq(d)) \o s = FlattenSeq(a) \o (FlattenSeq(d) \o s)
  <2>1. \A x, y \in Seq(X) : (x \o y) \o s = x \o (y \o s)
    <3> HIDE DEF T, Holds
    <3> QED BY SMTT(30)
  <2> HIDE DEF T, Holds
  <2> QED BY <1>4, <1>11, <2>1, Zenon
<1> QED BY <1>3, <1>9, <1>10, <1>12

-----------------------------------------------------------------------------
(* Sequences that are one, element by element.                             *)

(* The sequence u is s and then t. *)
Joins(u, s, t) == u = s \o t

(* A sequence that has the one's elements and then the other's joins the two. *)
LEMMA JoinedPointwise ==
    ASSUME NEW S, NEW s \in Seq(S), NEW t \in Seq(S), NEW u \in Seq(S),
           Len(u) = Len(s) + Len(t),
           \A i \in 1 .. Len(u) : u[i] = IF i <= Len(s) THEN s[i] ELSE t[i - Len(s)]
    PROVE  Joins(u, s, t)
<1>1. s \o t \in Seq(S) /\ Len(s \o t) = Len(s) + Len(t)
  OBVIOUS
<1>2. u = s \o t
  BY <1>1, ConcatProperties, SeqEqual
<1> QED BY <1>2 DEF Joins

(* The image of a sequence under f, and what it is of two joined together. *)
Image(f, list) == [i \in 1 .. Len(list) |-> f[list[i]]]

(* The image of two joined sequences joins their images. *)
LEMMA ImageCat ==
    ASSUME NEW S, NEW T, NEW f \in [S -> T], NEW a \in Seq(S), NEW b \in Seq(S)
    PROVE  Joins(Image(f, a \o b), Image(f, a), Image(f, b))
<1>1. /\ Len(a) \in Nat /\ Len(b) \in Nat /\ Len(a \o b) = Len(a) + Len(b) /\ a \o b \in Seq(S)
      /\ \A i \in 1 .. Len(a) + Len(b) :
                (a \o b)[i] = IF i <= Len(a) THEN a[i] ELSE b[i - Len(a)]
  BY ConcatProperties
<1>2. \A list \in Seq(S) :
        Image(f, list) \in Seq(T) /\ Len(Image(f, list)) = Len(list)
            /\ \A i \in 1 .. Len(list) : Image(f, list)[i] = f[list[i]]
  BY DEF Image
<1> DEFINE x == Image(f, a)
           y == Image(f, b)
           c == a \o b
           z == Image(f, c)
<1>3. /\ x \in Seq(T) /\ Len(x) = Len(a) /\ \A i \in 1 .. Len(a) : x[i] = f[a[i]]
      /\ y \in Seq(T) /\ Len(y) = Len(b) /\ \A i \in 1 .. Len(b) : y[i] = f[b[i]]
  BY <1>2
<1>4. z \in Seq(T) /\ Len(z) = Len(a) + Len(b) /\ \A i \in 1 .. Len(a) + Len(b) : z[i] = f[c[i]]
  <2> HIDE DEF c
  <2>1. c \in Seq(S) /\ Len(c) = Len(a) + Len(b)
    BY <1>1 DEF c
  <2> QED BY <1>2, <2>1
<1> HIDE DEF x, y, z
<1>5. \A i \in 1 .. Len(z) : z[i] = IF i <= Len(x) THEN x[i] ELSE y[i - Len(x)]
  <2> TAKE i \in 1 .. Len(z)
  <2>1. CASE i <= Len(a)
    BY <1>1, <1>3, <1>4, <2>1
  <2>2. CASE ~(i <= Len(a))
    <3>1. i - Len(a) \in 1 .. Len(b) /\ i \in 1 .. Len(a) + Len(b)
      BY <1>1, <1>4, <2>2
    <3>2. z[i] = f[c[i]] /\ c[i] = b[i - Len(a)]
      <4>1. c[i] = b[i - Len(a)]
        BY <1>1, <2>2, <3>1
      <4> QED BY <1>4, <3>1, <4>1
    <3>3. y[i - Len(a)] = f[b[i - Len(a)]]
      BY <1>3, <3>1
    <3> HIDE DEF c
    <3>4. ~(i <= Len(x)) /\ i - Len(x) = i - Len(a)
      BY <1>3, <2>2
    <3> QED BY <3>2, <3>3, <3>4
  <2> QED BY <1>3, <2>1, <2>2
<1>6. Joins(z, x, y)
  BY <1>3, <1>4, <1>5, JoinedPointwise, Zenon
<1> QED BY <1>6 DEF x, y, z

(* n places of m rows, count[i] of them in the i-th: each of them once, those
   of an earlier row first and those of one row in their order. *)
RowByRow(n, row, col, m, count) ==
    /\ \A p \in 1 .. n : row[p] \in 1 .. m /\ col[p] \in 1 .. count[row[p]]
    /\ \A p, q \in 1 .. n : p < q => row[p] < row[q] \/ (row[p] = row[q] /\ col[p] < col[q])
    /\ \A i \in 1 .. m : \A j \in 1 .. count[i] : \E p \in 1 .. n : row[p] = i /\ col[p] = j

(* Two lists of the same places agree as far as both go, and neither is longer. *)
LEMMA PlacesAgree ==
    ASSUME NEW n \in Nat, NEW n2 \in Nat, NEW m \in Nat, NEW count \in [1 .. m -> Nat],
           NEW row, NEW col, NEW row2, NEW col2,
           RowByRow(n, row, col, m, count), RowByRow(n2, row2, col2, m, count)
    PROVE  /\ \A p \in 1 .. n : p <= n2 => row[p] = row2[p] /\ col[p] = col2[p]
           /\ n2 <= n
<1>1. /\ \A p \in 1 .. n : row[p] \in 1 .. m /\ col[p] \in 1 .. count[row[p]]
      /\ \A p \in 1 .. n : row[p] \in Int /\ col[p] \in Int
      /\ \A p \in 1 .. n2 : row2[p] \in 1 .. m /\ col2[p] \in 1 .. count[row2[p]]
      /\ \A p \in 1 .. n2 : row2[p] \in Int /\ col2[p] \in Int
  BY DEF RowByRow
<1>2. /\ \A p, q \in 1 .. n :
            p < q => row[p] < row[q] \/ (row[p] = row[q] /\ col[p] < col[q])
      /\ \A p, q \in 1 .. n2 :
            p < q => row2[p] < row2[q] \/ (row2[p] = row2[q] /\ col2[p] < col2[q])
  BY DEF RowByRow
<1>3. ASSUME NEW p \in 1 .. n2 PROVE \E q \in 1 .. n : row[q] = row2[p] /\ col[q] = col2[p]
  <2>1. row2[p] \in 1 .. m /\ col2[p] \in 1 .. count[row2[p]]
    BY <1>1
  <2>2. \A i \in 1 .. m : \A j \in 1 .. count[i] : \E q \in 1 .. n : row[q] = i /\ col[q] = j
    BY DEF RowByRow
  <2> QED BY <2>1, <2>2, Zenon
<1>4. ASSUME NEW p \in 1 .. n PROVE \E q \in 1 .. n2 : row2[q] = row[p] /\ col2[q] = col[p]
  <2>1. row[p] \in 1 .. m /\ col[p] \in 1 .. count[row[p]]
    BY <1>1
  <2>2. \A i \in 1 .. m : \A j \in 1 .. count[i] : \E q \in 1 .. n2 : row2[q] = i /\ col2[q] = j
    BY DEF RowByRow
  <2> QED BY <2>1, <2>2, Zenon
<1>7. ASSUME NEW p \in 1 .. n, NEW q \in 1 .. n, p < q
      PROVE  ~(row[p] = row[q] /\ col[p] = col[q])
  <2>1. row[p] < row[q] \/ (row[p] = row[q] /\ col[p] < col[q])
    BY <1>2, <1>7
  <2>2. row[p] \in Int /\ row[q] \in Int /\ col[p] \in Int /\ col[q] \in Int
    BY <1>1
  <2> QED BY <2>1, <2>2
<1>8. ASSUME NEW p \in 1 .. n2, NEW q \in 1 .. n2, p < q
      PROVE  ~(row2[p] = row2[q] /\ col2[p] = col2[q])
  <2>1. row2[p] < row2[q] \/ (row2[p] = row2[q] /\ col2[p] < col2[q])
    BY <1>2, <1>8
  <2>2. row2[p] \in Int /\ row2[q] \in Int /\ col2[p] \in Int /\ col2[q] \in Int
    BY <1>1
  <2> QED BY <2>1, <2>2
<1>5. \A p \in 1 .. n : p <= n2 => row[p] = row2[p] /\ col[p] = col2[p]
  <2> DEFINE T == {p \in 1 .. n : p <= n2 /\ ~(row[p] = row2[p] /\ col[p] = col2[p])}
  <2>1. SUFFICES ASSUME T # {} PROVE FALSE
    OBVIOUS
  <2>2. PICK p \in T : \A y \in T : p <= y
    <3>1. T \in SUBSET Nat
      OBVIOUS
    <3> HIDE DEF T
    <3> QED BY <2>1, <3>1, MinExists
  <2>3. p \in 1 .. n /\ p \in 1 .. n2 /\ ~(row[p] = row2[p] /\ col[p] = col2[p])
    BY <2>2
  <2>4. \A q \in 1 .. n : q < p => row[q] = row2[q] /\ col[q] = col2[q]
    <3> TAKE q \in 1 .. n
    <3> SUFFICES ASSUME q < p PROVE row[q] = row2[q] /\ col[q] = col2[q]
      OBVIOUS
    <3>1. q \notin T
      <4> HIDE DEF T
      <4> QED BY <2>2, <2>3
    <3> QED BY <2>3, <3>1
  <2>5. PICK q \in 1 .. n2 : row2[q] = row[p] /\ col2[q] = col[p]
    BY <1>4, <2>3
  <2>6. PICK q2 \in 1 .. n : row[q2] = row2[p] /\ col[q2] = col2[p]
    BY <1>3, <2>3
  <2> HIDE DEF T
  <2>7. p < q
    <3>1. CASE q < p
      <4>1. q \in 1 .. n /\ row[q] = row[p] /\ col[q] = col[p]
        BY <2>3, <2>4, <2>5, <3>1
      <4> QED BY <1>7, <2>3, <3>1, <4>1
    <3> QED BY <2>3, <2>5, <3>1
  <2>8. p < q2
    <3>1. CASE q2 < p
      <4>1. q2 \in 1 .. n2 /\ row2[q2] = row2[p] /\ col2[q2] = col2[p]
        BY <2>3, <2>4, <2>6, <3>1
      <4> QED BY <1>8, <2>3, <3>1, <4>1
    <3> QED BY <2>3, <2>6, <3>1
  <2>9. row2[p] < row[p] \/ (row2[p] = row[p] /\ col2[p] < col[p])
    BY <1>2, <2>3, <2>5, <2>7
  <2>10. row[p] < row2[p] \/ (row[p] = row2[p] /\ col[p] < col2[p])
    BY <1>2, <2>3, <2>6, <2>8
  <2> QED BY <1>1, <2>3, <2>9, <2>10
<1>6. n2 <= n
  <2> SUFFICES ASSUME ~(n2 <= n) PROVE FALSE
    OBVIOUS
  <2>1. n + 1 \in 1 .. n2
    OBVIOUS
  <2>2. PICK q \in 1 .. n : row[q] = row2[n + 1] /\ col[q] = col2[n + 1]
    BY <1>3, <2>1
  <2>3. q \in 1 .. n2 /\ q < n + 1 /\ row2[q] = row2[n + 1] /\ col2[q] = col2[n + 1]
    BY <1>5, <2>2
  <2> QED BY <1>8, <2>1, <2>3
<1> QED BY <1>5, <1>6

(* The same number of places, and the same ones. *)
SamePlaces(n, n2, row, col, row2, col2) ==
    n = n2 /\ \A p \in 1 .. n : row[p] = row2[p] /\ col[p] = col2[p]

(* So they are one list. *)
LEMMA OneListing ==
    ASSUME NEW n \in Nat, NEW n2 \in Nat, NEW m \in Nat, NEW count \in [1 .. m -> Nat],
           NEW row, NEW col, NEW row2, NEW col2,
           RowByRow(n, row, col, m, count), RowByRow(n2, row2, col2, m, count)
    PROVE  SamePlaces(n, n2, row, col, row2, col2)
<1>1. n2 <= n /\ \A p \in 1 .. n : p <= n2 => row[p] = row2[p] /\ col[p] = col2[p]
  BY PlacesAgree
<1>2. n <= n2
  BY PlacesAgree
<1> QED BY <1>1, <1>2 DEF SamePlaces

(* moved are the selected positions less 1, in increasing order. *)
Selects(moved, selected) ==
    /\ \A k \in 1 .. Len(moved) : moved[k] + 1 \in selected
    /\ \A k, l \in 1 .. Len(moved) : k < l => moved[k] < moved[l]
    /\ \A i \in selected : \E k \in 1 .. Len(moved) : moved[k] = i - 1

(* A selection of positions, in increasing order, is the only one. *)
LEMMA OneSelection ==
    ASSUME NEW n \in Nat, NEW selected \in SUBSET (1 .. n),
           NEW out \in Seq(Nat), NEW moved \in Seq(Nat),
           NEW row, NEW e, \A i \in 1 .. n : e[i] = i - 1, Keeps(out, row, e, n, selected),
           Selects(moved, selected)
    PROVE  out = moved
<1> DEFINE count == [i \in 1 .. n |-> IF i \in selected THEN 1 ELSE 0]
           one == [i \in 1 .. Len(out) |-> 1]
           one2 == [i \in 1 .. Len(moved) |-> 1]
           row2 == [i \in 1 .. Len(moved) |-> moved[i] + 1]
<1>0. /\ \A k \in 1 .. Len(moved) : moved[k] + 1 \in selected
      /\ \A k, l \in 1 .. Len(moved) : k < l => moved[k] < moved[l]
      /\ \A i \in selected : \E k \in 1 .. Len(moved) : moved[k] = i - 1
  BY DEF Selects
<1>1. /\ Len(out) \in Nat /\ Len(moved) \in Nat /\ \A k \in 1 .. Len(moved) : moved[k] \in Nat
      /\ count \in [1 .. n -> Nat]
      /\ \A i \in 1 .. n : \A j \in 1 .. count[i] : i \in selected /\ j = 1
      /\ \A i \in selected : i \in 1 .. n /\ i \in Int /\ count[i] = 1
      /\ \A k \in 1 .. Len(out) : one[k] = 1
      /\ \A k \in 1 .. Len(moved) : one2[k] = 1 /\ row2[k] = moved[k] + 1
  OBVIOUS
<1> HIDE DEF count, one, one2, row2
<1>2. RowByRow(Len(out), row, one, n, count)
  <2>1. /\ \A k \in 1 .. Len(out) : row[k] \in selected /\ out[k] = e[row[k]]
        /\ \A k, l \in 1 .. Len(out) : k < l => row[k] < row[l]
        /\ \A i \in selected : \E k \in 1 .. Len(out) : row[k] = i
    BY DEF Keeps
  <2>2. \A p \in 1 .. Len(out) : row[p] \in 1 .. n /\ one[p] \in 1 .. count[row[p]]
    <3> TAKE p \in 1 .. Len(out)
    <3>1. row[p] \in selected /\ row[p] \in 1 .. n /\ count[row[p]] = 1 /\ one[p] = 1
      BY <1>1, <2>1
    <3> QED BY <3>1
  <2>3. \A i \in 1 .. n : \A j \in 1 .. count[i] : \E p \in 1 .. Len(out) : row[p] = i /\ one[p] = j
    <3> TAKE i \in 1 .. n
    <3> TAKE j \in 1 .. count[i]
    <3>1. i \in selected /\ j = 1
      BY <1>1
    <3>2. PICK p \in 1 .. Len(out) : row[p] = i
      BY <2>1, <3>1
    <3> QED BY <1>1, <3>1, <3>2
  <2>4. \A p, q \in 1 .. Len(out) : p < q => row[p] < row[q] \/ (row[p] = row[q] /\ one[p] < one[q])
    BY <2>1
  <2> QED BY <2>2, <2>3, <2>4, Zenon DEF RowByRow
<1>3. RowByRow(Len(moved), row2, one2, n, count)
  <2>1. \A p \in 1 .. Len(moved) : row2[p] \in 1 .. n /\ one2[p] \in 1 .. count[row2[p]]
    <3> TAKE p \in 1 .. Len(moved)
    <3>1. row2[p] = moved[p] + 1 /\ moved[p] + 1 \in selected /\ one2[p] = 1
      BY <1>0, <1>1
    <3>2. row2[p] \in selected
      BY <3>1
    <3>3. row2[p] \in 1 .. n /\ count[row2[p]] = 1
      BY <1>1, <3>2
    <3> QED BY <3>1, <3>3
  <2>2. \A p, q \in 1 .. Len(moved) :
            p < q => row2[p] < row2[q] \/ (row2[p] = row2[q] /\ one2[p] < one2[q])
    <3> SUFFICES ASSUME NEW p \in 1 .. Len(moved), NEW q \in 1 .. Len(moved), p < q
                 PROVE  row2[p] < row2[q]
      OBVIOUS
    <3>1. moved[p] < moved[q]
      BY <1>0
    <3>2. row2[p] = moved[p] + 1 /\ row2[q] = moved[q] + 1 /\ moved[p] \in Nat /\ moved[q] \in Nat
      BY <1>1
    <3> QED BY <3>1, <3>2
  <2>3. ASSUME NEW i \in 1 .. n, NEW j \in 1 .. count[i]
        PROVE  \E p \in 1 .. Len(moved) : row2[p] = i /\ one2[p] = j
    <3>1. i \in selected /\ j = 1
      BY <1>1
    <3>2. PICK p \in 1 .. Len(moved) : moved[p] = i - 1
      BY <1>0, <3>1
    <3>3. row2[p] = moved[p] + 1 /\ one2[p] = 1 /\ i \in Int
      BY <1>1
    <3> QED BY <3>1, <3>2, <3>3
  <2> QED BY <2>1, <2>2, <2>3, Zenon DEF RowByRow
<1>4. Len(out) = Len(moved) /\ \A p \in 1 .. Len(out) : row[p] = row2[p]
  <2>1. Len(out) = Len(moved)
        /\ \A p \in 1 .. Len(out) : row[p] = row2[p] /\ one[p] = one2[p]
    <3>1. Len(out) \in Nat /\ Len(moved) \in Nat /\ count \in [1 .. n -> Nat]
      BY <1>1
    <3>2. SamePlaces(Len(out), Len(moved), row, one, row2, one2)
      BY <1>2, <1>3, <3>1, OneListing, Zenon
    <3> QED BY <3>2 DEF SamePlaces
  <2> QED BY <2>1
<1>5. \A p \in 1 .. Len(out) : out[p] = moved[p]
  <2> TAKE p \in 1 .. Len(out)
  <2>1. row[p] \in selected /\ out[p] = e[row[p]]
    BY DEF Keeps
  <2>2. row[p] \in 1 .. n /\ out[p] = row[p] - 1
    BY <2>1
  <2> QED BY <1>1, <1>4, <2>2
<1> QED BY <1>1, <1>4, <1>5, SeqEqual

-----------------------------------------------------------------------------
(* Folds over finite sets.                                                  *)

(* f folds the subsets of S: a set with an element is the step of the one
   picked from it, after the rest. *)
Folded(f, S, base, pick, step) ==
    /\ f[{}] = base
    /\ \A s \in SUBSET S : s # {} => f[s] = step[pick[s]][f[s \ {pick[s]}]]

Picking(pick, S) == \A s \in SUBSET S : s # {} => pick[s] \in s

(* c folds the subsets of S, as far as its values are of the type V. *)
Folding(c, S, V, base, pick, step) ==
    /\ c[{}] = base
    /\ \A s \in SUBSET S : s # {} /\ c[s \ {pick[s]}] \in V
            => c[s] = step[pick[s]][c[s \ {pick[s]}]]

(* Every value of the fold f is in V. *)
FoldOf(f, S, V, base, pick, step) ==
    Folded(f, S, base, pick, step) /\ \A s \in SUBSET S : f[s] \in V

(* What a fold over the subsets of S is made of. *)
Foldable(S, V, base, pick, step) ==
    IsFiniteSet(S) /\ base \in V /\ Picking(pick, S) /\ step \in [S -> [V -> V]]

(* The greatest of a set of places is in it. *)
LEMMA MaxIs ==
    ASSUME NEW n \in Nat, NEW s \in SUBSET (1 .. n), s # {}
    PROVE  Max(s) \in s /\ \A y \in s : y <= Max(s)
<1> DEFINE T == {k \in 0 .. n : \A y \in s : y <= k}
<1>1. n \in T /\ T \in SUBSET Nat
  OBVIOUS
<1>2. PICK m \in T : \A k \in T : m <= k
  <2> HIDE DEF T
  <2> QED BY <1>1, MinExists
<1>3. m \in 0 .. n /\ \A y \in s : y <= m
  BY <1>2
<1>4. m \in s
  <2> SUFFICES ASSUME m \notin s PROVE FALSE
    OBVIOUS
  <2>1. m # 0
    <3>1. PICK y \in s : TRUE
      OBVIOUS
    <3>2. y \in 1 .. n /\ y <= m
      BY <1>3, <3>1
    <3> QED BY <3>2
  <2>2. m - 1 \in 0 .. n /\ \A y \in s : y <= m - 1
    BY <1>3, <2>1
  <2>3. m - 1 \in T
    BY <2>2
  <2> HIDE DEF T
  <2> QED BY <1>2, <1>3, <2>3
<1>5. \E x \in s : \A y \in s : x >= y
  BY <1>3, <1>4
<1>6. Max(s) \in s /\ \A y \in s : Max(s) >= y
  BY <1>5, Zenon DEF Max
<1> QED BY <1>6

(* A set is larger by one than what is left when an element is taken out. *)
LEMMA RestIsSmaller ==
    ASSUME NEW S, IsFiniteSet(S), NEW s \in SUBSET S, NEW x \in s
    PROVE  /\ s \ {x} \in SUBSET S
           /\ Cardinality(s) \in Nat /\ Cardinality(s \ {x}) = Cardinality(s) - 1
           /\ Cardinality(s \ {x}) \in Nat
<1>1. IsFiniteSet(s)
  BY FS_Subset
<1>2. IsFiniteSet(s \ {x}) /\ Cardinality(s \ {x}) = Cardinality(s) - 1
  BY <1>1, FS_RemoveElement
<1> QED BY <1>1, <1>2, FS_CardinalityType

(* Among sets of finite sets there is a smallest one. *)
LEMMA SmallestExists ==
    ASSUME NEW S, IsFiniteSet(S), NEW T \in SUBSET SUBSET S, T # {}
    PROVE  \E t \in T : \A u \in T : Cardinality(t) <= Cardinality(u)
<1> DEFINE sizes == {Cardinality(t) : t \in T}
<1>1. \A t \in T : Cardinality(t) \in Nat
  BY FS_Subset, FS_CardinalityType
<1>2. sizes \in SUBSET Nat /\ sizes # {}
  BY <1>1
<1>3. PICK x \in sizes : \A y \in sizes : x <= y
  <2> HIDE DEF sizes
  <2> QED BY <1>2, MinExists
<1> QED BY <1>3

(* Steps that stay in V never leave it: whatever folds as far as its values
   are in V folds all the way. *)
LEMMA FoldTyped ==
    ASSUME NEW S, NEW V, NEW base, NEW pick, NEW step, Foldable(S, V, base, pick, step),
           NEW c, Folding(c, S, V, base, pick, step)
    PROVE  FoldOf(c, S, V, base, pick, step)
<1> USE DEF Foldable, Folding
<1> DEFINE T == {s \in SUBSET S : c[s] \notin V}
<1>1. ASSUME T # {} PROVE FALSE
  <2>1. PICK s \in T : \A u \in T : Cardinality(s) <= Cardinality(u)
    <3>1. T \in SUBSET SUBSET S
      OBVIOUS
    <3> HIDE DEF T
    <3> QED BY <1>1, <3>1, SmallestExists
  <2>2. s \in SUBSET S /\ c[s] \notin V /\ s # {}
    BY <2>1
  <2> DEFINE x == pick[s]
  <2>3. x \in s /\ x \in S
    BY <2>2 DEF Picking
  <2>4. /\ s \ {x} \in SUBSET S
        /\ Cardinality(s) \in Nat /\ Cardinality(s \ {x}) = Cardinality(s) - 1
    BY <2>2, <2>3, RestIsSmaller
  <2>5. s \ {x} \notin T
    <3> HIDE DEF T, x
    <3> QED BY <2>1, <2>4
  <2>6. c[s \ {x}] \in V
    BY <2>4, <2>5
  <2>7. c[s] = step[x][c[s \ {x}]]
    BY <2>2, <2>6
  <2>8. step[x] \in [V -> V]
    BY <2>3
  <2>9. c[s] \in V
    <3> HIDE DEF x
    <3> QED BY <2>6, <2>7, <2>8
  <2> QED BY <2>2, <2>9
<1>2. \A s \in SUBSET S : c[s] \in V
  BY <1>1
<1>3. ASSUME NEW s \in SUBSET S, s # {} PROVE c[s] = step[pick[s]][c[s \ {pick[s]}]]
  <2>1. c[s \ {pick[s]}] \in V
    BY <1>2, Zenon
  <2> QED BY <1>3, <2>1
<1> QED BY <1>2, <1>3 DEF Folded, FoldOf

(* There is a fold of every base and step. *)
LEMMA FoldExists ==
    ASSUME NEW S, NEW V, NEW base, NEW pick, NEW step, Foldable(S, V, base, pick, step)
    PROVE  \E f : f = [s \in SUBSET S |-> f[s]] /\ FoldOf(f, S, V, base, pick, step)
<1> USE DEF Foldable
<1> DEFINE To(f, k) ==
                /\ f[{}] = base
                /\ \A s \in SUBSET S : s # {} /\ Cardinality(s) <= k
                        => f[s] = step[pick[s]][f[s \ {pick[s]}]]
           T == {k \in Nat : ~ \E f \in [SUBSET S -> V] : To(f, k)}
<1>1. \A s \in SUBSET S : s # {} => /\ pick[s] \in S /\ s \ {pick[s]} \in SUBSET S
                                    /\ Cardinality(s) \in Nat /\ Cardinality(s) # 0
                                    /\ Cardinality(s \ {pick[s]}) = Cardinality(s) - 1
  <2> TAKE s \in SUBSET S
  <2> HAVE s # {}
  <2>1. pick[s] \in s
    BY DEF Picking
  <2>2. /\ s \ {pick[s]} \in SUBSET S
        /\ Cardinality(s) \in Nat /\ Cardinality(s \ {pick[s]}) = Cardinality(s) - 1
        /\ Cardinality(s \ {pick[s]}) \in Nat
    BY <2>1, RestIsSmaller, Zenon
  <2>3. pick[s] \in S
    BY <2>1
  <2> QED BY <2>2, <2>3
<1>2. 0 \notin T
  <2> DEFINE f == [s \in SUBSET S |-> base]
  <2>1. f \in [SUBSET S -> V] /\ f[{}] = base
    OBVIOUS
  <2>2. ASSUME NEW s \in SUBSET S, s # {} PROVE ~(Cardinality(s) <= 0)
    <3>1. Cardinality(s) \in Nat /\ Cardinality(s) # 0
      BY <1>1, <2>2
    <3> QED BY <3>1
  <2> HIDE DEF f
  <2>3. To(f, 0)
    BY <2>1, <2>2
  <2> QED BY <2>1, <2>3
<1>3. ASSUME NEW m \in T, m - 1 \in Nat, m - 1 \notin T PROVE FALSE
  <2>1. PICK f \in [SUBSET S -> V] : To(f, m - 1)
    BY <1>3
  <2> DEFINE g == [s \in SUBSET S |-> IF s = {} THEN base ELSE step[pick[s]][f[s \ {pick[s]}]]]
  <2>2. g \in [SUBSET S -> V]
    <3>1. ASSUME NEW s \in SUBSET S, s # {} PROVE step[pick[s]][f[s \ {pick[s]}]] \in V
      <4>1. pick[s] \in S /\ s \ {pick[s]} \in SUBSET S
        BY <1>1, <3>1
      <4>2. step[pick[s]] \in [V -> V] /\ f[s \ {pick[s]}] \in V
        BY <4>1
      <4> QED BY <4>2
    <3> QED BY <3>1
  <2>3. g[{}] = base /\ \A s \in SUBSET S : s # {} => g[s] = step[pick[s]][f[s \ {pick[s]}]]
    OBVIOUS
  <2> HIDE DEF g
  <2>4. ASSUME NEW s \in SUBSET S, Cardinality(s) <= m - 1 PROVE g[s] = f[s]
    <3>1. CASE s = {}
      BY <2>1, <2>3, <3>1
    <3>2. CASE s # {}
      BY <2>1, <2>3, <2>4, <3>2
    <3> QED BY <3>1, <3>2
  <2>5. ASSUME NEW s \in SUBSET S, s # {}, Cardinality(s) <= m
        PROVE  g[s] = step[pick[s]][g[s \ {pick[s]}]]
    <3>1. s \ {pick[s]} \in SUBSET S /\ Cardinality(s \ {pick[s]}) <= m - 1
      BY <1>1, <1>3, <2>5
    <3>2. g[s \ {pick[s]}] = f[s \ {pick[s]}]
      BY <2>4, <3>1
    <3> QED BY <2>3, <2>5, <3>2
  <2>6. To(g, m)
    BY <2>3, <2>5
  <2> QED BY <1>3, <2>2, <2>6
<1>4. T = {}
  <2> SUFFICES ASSUME T # {} PROVE FALSE
    OBVIOUS
  <2>1. T \in SUBSET Nat
    OBVIOUS
  <2>2. PICK m \in T : \A y \in T : m <= y
    <3> HIDE DEF T
    <3> QED BY <2>1, MinExists
  <2>3. m \in Nat /\ m # 0
    BY <1>2, <2>2
  <2>4. m - 1 \in Nat /\ ~(m <= m - 1)
    BY <2>3
  <2>5. m - 1 \notin T
    <3> HIDE DEF T
    <3> QED BY <2>2, <2>4
  <2> HIDE DEF T
  <2> QED BY <1>3, <2>4, <2>5
<1>5. Cardinality(S) \in Nat
  BY FS_CardinalityType
<1>6. PICK f \in [SUBSET S -> V] : To(f, Cardinality(S))
  BY <1>4, <1>5
<1>7. \A s \in SUBSET S : Cardinality(s) <= Cardinality(S)
  BY FS_Subset
<1>8. Folded(f, S, base, pick, step)
  BY <1>6, <1>7 DEF Folded
<1>9. f = [s \in SUBSET S |-> f[s]] /\ \A s \in SUBSET S : f[s] \in V
  OBVIOUS
<1> QED BY <1>8, <1>9, Zenon DEF FoldOf

-----------------------------------------------------------------------------
(* Sums over finite sets.                                                   *)

(* c sums the values f has on the subsets of S. *)
Sums(c, f, S) ==
    /\ c[{}] = 0
    /\ \A s \in SUBSET S : c[s] \in Int
    /\ \A s \in SUBSET S : \A x \in s : c[s] = f[x] + c[s \ {x}]

(* The recursion that defines a sum, over the element picked. *)
SumRecursion(c, f, S) ==
    c = [s \in SUBSET S |->
            IF s = {} THEN 0
            ELSE LET x == CHOOSE y \in s : TRUE IN f[x] + c[s \ {x}]]

LEMMA SumRecursionExists ==
    ASSUME NEW S, IsFiniteSet(S), NEW f, \A x \in S : f[x] \in Int
    PROVE  \E c : SumRecursion(c, f, S)
<1> DEFINE pick == [s \in SUBSET S |-> CHOOSE y \in s : TRUE]
           step == [x \in S |-> [v \in Int |-> f[x] + v]]
<1>1. Picking(pick, S) /\ \A s \in SUBSET S : pick[s] = CHOOSE y \in s : TRUE
  BY DEF Picking
<1>2. step \in [S -> [Int -> Int]] /\ \A x \in S : \A v \in Int : step[x][v] = f[x] + v
  OBVIOUS
<1> HIDE DEF pick, step
<1>3. Foldable(S, Int, 0, pick, step)
  BY <1>1, <1>2 DEF Foldable
<1>4. PICK c : c = [s \in SUBSET S |-> c[s]] /\ FoldOf(c, S, Int, 0, pick, step)
  BY <1>3, FoldExists, Zenon
<1>5. \A s \in SUBSET S : s # {} => pick[s] \in S /\ s \ {pick[s]} \in SUBSET S
  BY <1>1 DEF Picking
<1>6. ASSUME NEW s \in SUBSET S, s # {}
      PROVE  c[s] = LET x == CHOOSE y \in s : TRUE IN f[x] + c[s \ {x}]
  <2>1. c[s] = step[pick[s]][c[s \ {pick[s]}]]
    BY <1>4, <1>6 DEF FoldOf, Folded
  <2>2. c[s \ {pick[s]}] \in Int
    BY <1>4, <1>5, <1>6 DEF FoldOf
  <2>3. c[s] = f[pick[s]] + c[s \ {pick[s]}]
    BY <1>2, <1>5, <1>6, <2>1, <2>2
  <2> QED BY <1>1, <2>3
<1>7. c[{}] = 0
  BY <1>4 DEF FoldOf, Folded
<1>8. c = [s \in SUBSET S |-> c[s]]
  BY <1>4, Zenon
<1>9. \A s \in SUBSET S : c[s] = IF s = {} THEN 0
                                 ELSE LET x == CHOOSE y \in s : TRUE IN f[x] + c[s \ {x}]
  BY <1>6, <1>7
<1>10. SumRecursion(c, f, S)
  BY <1>8, <1>9, Zenon DEF SumRecursion
<1> QED BY <1>10

(* A sum does not depend on the order in which it is taken. *)
LEMMA SumInAnyOrder ==
    ASSUME NEW S, IsFiniteSet(S), NEW f, \A x \in S : f[x] \in Int,
           NEW c, SumRecursion(c, f, S)
    PROVE  Sums(c, f, S)
<1> DEFINE pick == [s \in SUBSET S |-> CHOOSE y \in s : TRUE]
           step == [x \in S |-> [v \in Int |-> f[x] + v]]
<1>1. Picking(pick, S) /\ \A s \in SUBSET S : pick[s] = CHOOSE y \in s : TRUE
  BY DEF Picking
<1>2. step \in [S -> [Int -> Int]] /\ \A x \in S : \A v \in Int : step[x][v] = f[x] + v
  OBVIOUS
<1> HIDE DEF pick, step
<1>3. Foldable(S, Int, 0, pick, step)
  BY <1>1, <1>2 DEF Foldable
<1>5. \A s \in SUBSET S : s # {} => pick[s] \in S /\ pick[s] \in s /\ s \ {pick[s]} \in SUBSET S
  BY <1>1 DEF Picking
<1>9. \A s \in SUBSET S : c[s] = IF s = {} THEN 0 ELSE f[pick[s]] + c[s \ {pick[s]}]
  <2>1. \A s \in SUBSET S : c[s] = IF s = {} THEN 0
                                   ELSE LET x == CHOOSE y \in s : TRUE IN f[x] + c[s \ {x}]
    BY DEF SumRecursion
  <2> QED BY <1>1, <2>1
<1>10. c[{}] = 0
  BY <1>9
<1>11. \A s \in SUBSET S : s # {} /\ c[s \ {pick[s]}] \in Int
            => c[s] = step[pick[s]][c[s \ {pick[s]}]]
  BY <1>2, <1>5, <1>9
<1>16. Folding(c, S, Int, 0, pick, step)
  BY <1>10, <1>11 DEF Folding
<1>12. \A s \in SUBSET S : c[s] \in Int
  BY <1>3, <1>16, FoldTyped DEF FoldOf
<1> DEFINE T == {s \in SUBSET S : \E x \in s : c[s] # f[x] + c[s \ {x}]}
<1>13. ASSUME T # {} PROVE FALSE
  <2>1. PICK s \in T : \A u \in T : Cardinality(s) <= Cardinality(u)
    <3>1. T \in SUBSET SUBSET S
      OBVIOUS
    <3> HIDE DEF T
    <3> QED BY <1>13, <3>1, SmallestExists
  <2>2. s \in SUBSET S /\ s # {} /\ \E x \in s : c[s] # f[x] + c[s \ {x}]
    BY <2>1
  <2>3. PICK x \in s : c[s] # f[x] + c[s \ {x}]
    BY <2>2
  <2> DEFINE p == pick[s]
  <2>4. p \in s /\ c[s] = f[p] + c[s \ {p}]
    BY <1>5, <1>9, <2>2
  <2>5. x # p
    BY <2>3, <2>4
  <2> HIDE DEF p
  <2>6. \A y \in s : s \ {y} \in SUBSET S /\ s \ {y} \notin T
    <3> TAKE y \in s
    <3>1. s \ {y} \in SUBSET S /\ Cardinality(s \ {y}) = Cardinality(s) - 1 /\ Cardinality(s) \in Nat
      BY <2>2, RestIsSmaller
    <3>2. ~(Cardinality(s) <= Cardinality(s \ {y}))
      BY <3>1
    <3> HIDE DEF T
    <3> QED BY <2>1, <3>1, <3>2
  <2>7. c[s \ {p}] = f[x] + c[(s \ {p}) \ {x}]
    <3>1. x \in s \ {p}
      BY <2>5
    <3> QED BY <2>4, <2>6, <3>1
  <2>8. c[s \ {x}] = f[p] + c[(s \ {x}) \ {p}]
    <3>1. p \in s \ {x}
      BY <2>4, <2>5
    <3> QED BY <2>6, <3>1
  <2>9. (s \ {x}) \ {p} = (s \ {p}) \ {x} /\ (s \ {p}) \ {x} \in SUBSET S
    BY <2>2
  <2>10. f[x] \in Int /\ f[p] \in Int /\ c[(s \ {p}) \ {x}] \in Int
    BY <1>12, <2>2, <2>4, <2>9
  <2>11. c[s] = f[x] + c[s \ {x}]
    <3> DEFINE rest == c[(s \ {p}) \ {x}]
    <3>1. c[s \ {x}] = f[p] + rest /\ c[s] = f[p] + (f[x] + rest)
      BY <2>4, <2>7, <2>8, <2>9
    <3>2. f[x] \in Int /\ f[p] \in Int /\ rest \in Int
      BY <2>10
    <3> HIDE DEF rest
    <3> QED BY <3>1, <3>2
  <2> QED BY <2>3, <2>11
<1>14. \A s \in SUBSET S : \A x \in s : c[s] = f[x] + c[s \ {x}]
  BY <1>13
<1> QED BY <1>10, <1>12, <1>14 DEF Sums

(* SumFunction, without the recursion that defines it. *)
LEMMA SumFunctionIs ==
    ASSUME NEW f PROVE SumFunction(f) = (CHOOSE c : SumRecursion(c, f, DOMAIN f))[DOMAIN f]
BY DEF SumFunction, SumFunctionOnSet, FoldFunctionOnSet, MapThenFoldSet, SumRecursion

LEMMA SumFunctionSums ==
    ASSUME NEW f, IsFiniteSet(DOMAIN f), \A x \in DOMAIN f : f[x] \in Int
    PROVE  \E c : Sums(c, f, DOMAIN f) /\ SumFunction(f) = c[DOMAIN f]
<1> DEFINE c == CHOOSE d : SumRecursion(d, f, DOMAIN f)
<1>1. SumRecursion(c, f, DOMAIN f)
  BY SumRecursionExists
<1>2. SumFunction(f) = c[DOMAIN f]
  BY SumFunctionIs
<1> HIDE DEF c
<1>3. Sums(c, f, DOMAIN f)
  BY <1>1, SumInAnyOrder
<1> QED BY <1>2, <1>3

(* What two functions that agree on a set sum to over it. *)
LEMMA SumsAgree ==
    ASSUME NEW S, NEW T, IsFiniteSet(S), IsFiniteSet(T), NEW f, NEW g, NEW c, NEW d,
           Sums(c, f, S), Sums(d, g, T),
           NEW s \in SUBSET (S \intersect T), \A x \in s : f[x] = g[x]
    PROVE  c[s] = d[s]
<1> DEFINE B == {t \in SUBSET s : c[t] # d[t]}
<1>1. ASSUME B # {} PROVE FALSE
  <2>1. PICK t \in B : \A u \in B : Cardinality(t) <= Cardinality(u)
    <3>1. B \in SUBSET SUBSET S
      OBVIOUS
    <3> HIDE DEF B
    <3> QED BY <1>1, <3>1, SmallestExists
  <2>2. t \in SUBSET s /\ c[t] # d[t] /\ t \in SUBSET S /\ t \in SUBSET T
    BY <2>1
  <2>3. t # {}
    BY <2>2 DEF Sums
  <2>4. PICK x \in t : TRUE
    BY <2>3
  <2>5. /\ t \ {x} \in SUBSET s
        /\ Cardinality(t) \in Nat /\ Cardinality(t \ {x}) = Cardinality(t) - 1
    BY <2>2, <2>4, RestIsSmaller
  <2>6. t \ {x} \notin B
    <3>1. ~(Cardinality(t) <= Cardinality(t \ {x}))
      BY <2>5
    <3> HIDE DEF B
    <3> QED BY <2>1, <3>1
  <2>7. c[t \ {x}] = d[t \ {x}]
    BY <2>5, <2>6
  <2>8. c[t] = f[x] + c[t \ {x}]
    BY <2>2, <2>4 DEF Sums
  <2>9. d[t] = g[x] + d[t \ {x}]
    BY <2>2, <2>4 DEF Sums
  <2>10. f[x] = g[x]
    BY <2>2, <2>4
  <2> QED BY <2>2, <2>7, <2>8, <2>9, <2>10
<1> QED BY <1>1

(* One value more, or one that has changed. *)
LEMMA SumChanges ==
    ASSUME NEW f, IsFiniteSet(DOMAIN f), \A x \in DOMAIN f : f[x] \in Int,
           NEW g, NEW p, DOMAIN g = DOMAIN f \union {p}, g[p] \in Int,
           \A x \in DOMAIN f \ {p} : g[x] = f[x]
    PROVE  /\ SumFunction(f) \in Int
           /\ SumFunction(g) = SumFunction(f) + (g[p] - (IF p \in DOMAIN f THEN f[p] ELSE 0))
<1> DEFINE S == DOMAIN f
           T == DOMAIN g
           rest == S \ {p}
<1>1. IsFiniteSet(T)
  BY FS_AddElement
<1>2. \A x \in T : g[x] \in Int
  OBVIOUS
<1>3. PICK c : Sums(c, f, S) /\ SumFunction(f) = c[S]
  BY SumFunctionSums
<1>4. PICK d : Sums(d, g, T) /\ SumFunction(g) = d[T]
  BY <1>1, <1>2, SumFunctionSums
<1>5. c[rest] = d[rest]
  <2>1. rest \in SUBSET (S \intersect T) /\ \A x \in rest : f[x] = g[x]
    OBVIOUS
  <2> HIDE DEF rest, S, T
  <2> QED BY <1>1, <1>3, <1>4, <2>1, SumsAgree DEF S
<1>6. d[T] = g[p] + d[T \ {p}]
  BY <1>4 DEF Sums
<1>7. T \ {p} = rest
  OBVIOUS
<1>8. c[rest] \in Int /\ c[S] \in Int
  BY <1>3 DEF Sums
<1> DEFINE left == c[rest]
<1>9. SumFunction(g) = g[p] + left /\ left \in Int
  BY <1>4, <1>5, <1>6, <1>7, <1>8
<1>10. CASE p \in S
  <2>1. c[S] = f[p] + left /\ f[p] \in Int
    BY <1>3, <1>10 DEF Sums
  <2> HIDE DEF left
  <2>2. SumFunction(f) = f[p] + left
    BY <1>3, <2>1
  <2>3. f[p] + left \in Int /\ g[p] + left = (f[p] + left) + (g[p] - f[p])
    BY <1>9, <2>1
  <2> QED BY <1>9, <1>10, <2>2, <2>3
<1>11. CASE p \notin S
  <2>1. rest = S
    BY <1>11
  <2>2. SumFunction(f) = left
    BY <1>3, <2>1
  <2> HIDE DEF left
  <2> QED BY <1>9, <1>11, <2>2
<1> QED BY <1>10, <1>11

(* Nothing sums to nothing. *)
LEMMA SumOfZeros ==
    ASSUME NEW f, IsFiniteSet(DOMAIN f), \A x \in DOMAIN f : f[x] = 0
    PROVE  SumFunction(f) = 0
<1>1. PICK c : Sums(c, f, DOMAIN f) /\ SumFunction(f) = c[DOMAIN f]
  <2>1. \A x \in DOMAIN f : f[x] \in Int
    OBVIOUS
  <2> QED BY <2>1, SumFunctionSums
<1> DEFINE d == [s \in SUBSET DOMAIN f |-> 0]
<1>2. Sums(d, f, DOMAIN f)
  BY DEF Sums
<1> HIDE DEF d
<1>3. c[DOMAIN f] = d[DOMAIN f]
  BY <1>1, <1>2, SumsAgree
<1> QED BY <1>1, <1>3 DEF d

-----------------------------------------------------------------------------
(* A fold from the left, a step at a time.                                  *)

(* A step at a time. *)
LEMMA Stepwise ==
    ASSUME NEW n \in Nat, NEW T, 0 \in T, \A k \in 1 .. n : k - 1 \in T => k \in T
    PROVE  \A k \in 0 .. n : k \in T
<1> DEFINE B == {k \in 0 .. n : k \notin T}
<1>1. ASSUME B # {} PROVE FALSE
  <2>1. PICK m \in B : \A y \in B : m <= y
    <3>1. B \in SUBSET Nat
      OBVIOUS
    <3> HIDE DEF B
    <3> QED BY <1>1, <3>1, MinExists
  <2>2. m \in 1 .. n /\ m \notin T /\ m - 1 \in 0 .. n /\ ~(m <= m - 1)
    BY <2>1
  <2>3. m - 1 \in T
    BY <2>1, <2>2
  <2> QED BY <2>2, <2>3
<1> QED BY <1>1

LEMMA PrefixGrows ==
    ASSUME NEW R, NEW L \in Seq(R), NEW rs \in Seq(R), NEW k \in 1 .. Len(rs)
    PROVE  /\ L \o SubSeq(rs, 1, k - 1) \in Seq(R)
           /\ L \o SubSeq(rs, 1, k) = Append(L \o SubSeq(rs, 1, k - 1), rs[k])
<1> DEFINE a == SubSeq(rs, 1, k - 1)
           b == SubSeq(rs, 1, k)
<1>1. /\ a \in Seq(R) /\ Len(a) = k - 1 /\ \A i \in 1 .. k - 1 : a[i] = rs[i]
      /\ b \in Seq(R) /\ Len(b) = k /\ \A i \in 1 .. k : b[i] = rs[i]
      /\ k \in Nat /\ k - 1 \in Nat /\ rs[k] \in R
  OBVIOUS
<1> HIDE DEF a, b
<1>2. b = Append(a, rs[k])
  <2>1. Append(a, rs[k]) \in Seq(R) /\ Len(Append(a, rs[k])) = k
    BY <1>1
  <2>2. \A i \in 1 .. k : b[i] = Append(a, rs[k])[i]
    BY <1>1
  <2> QED BY <1>1, <2>1, <2>2
<1>3. L \o Append(a, rs[k]) = Append(L \o a, rs[k])
  BY <1>1
<1> QED BY <1>1, <1>2, <1>3 DEF a, b

(* f is what the first elements of 1 .. n are folded to from the left. *)
StepsTo(f, n, V, base, step) ==
    /\ f = [s \in SUBSET (1 .. n) |-> f[s]]
    /\ f[{}] = base
    /\ \A s \in SUBSET (1 .. n) : f[s] \in V
    /\ \A s \in SUBSET (1 .. n) : s # {} =>
            Max(s) \in 1 .. n /\ f[s] = step[Max(s)][f[s \ {Max(s)}]]

(* What is folded from the left has a value after each element. *)
LEMMA StepsExist ==
    ASSUME NEW n \in Nat, NEW V, NEW base \in V, NEW step \in [1 .. n -> [V -> V]]
    PROVE  \E f : StepsTo(f, n, V, base, step)
<1> DEFINE S == 1 .. n
           pick == [s \in SUBSET S |-> Max(s)]
<1>1. IsFiniteSet(S)
  BY FS_Interval
<1>2. /\ \A s \in SUBSET S : pick[s] = Max(s)
      /\ \A s \in SUBSET S : s # {} => pick[s] \in s
  BY MaxIs
<1> HIDE DEF pick
<1>3. Foldable(S, V, base, pick, step)
  BY <1>1, <1>2 DEF Foldable, Picking
<1>4. PICK f : f = [s \in SUBSET S |-> f[s]] /\ FoldOf(f, S, V, base, pick, step)
  BY <1>3, FoldExists, Zenon
<1>5. /\ f[{}] = base /\ \A s \in SUBSET S : f[s] \in V
      /\ \A s \in SUBSET S : s # {} => f[s] = step[pick[s]][f[s \ {pick[s]}]]
  BY <1>4 DEF FoldOf, Folded
<1>6. \A s \in SUBSET S : s # {} =>
            Max(s) \in S /\ f[s] = step[Max(s)][f[s \ {Max(s)}]]
  BY <1>2, <1>5
<1> HIDE DEF S
<1> QED BY <1>4, <1>5, <1>6, Zenon DEF S, StepsTo

(* The elements up to the k-th: the k-th is the last, and the rest are before it. *)
LEMMA UptoIs ==
    ASSUME NEW n \in Nat, NEW k \in 1 .. n
    PROVE  /\ 1 .. k \in SUBSET (1 .. n) /\ 1 .. k # {}
           /\ Max(1 .. k) = k /\ (1 .. k) \ {k} = 1 .. k - 1
<1>1. k \in 1 .. k /\ 1 .. k \in SUBSET (1 .. n) /\ (1 .. k) \ {k} = 1 .. k - 1
  OBVIOUS
<1>2. Max(1 .. k) \in 1 .. k /\ k <= Max(1 .. k)
  BY <1>1, MaxIs
<1> QED BY <1>1, <1>2

-----------------------------------------------------------------------------
(* Counting.                                                                *)

Bit(b) == IF b THEN 1 ELSE 0

(* How many elements of a list are in Q. *)
NumberIn(L, Q) == Cardinality({k \in DOMAIN L : L[k] \in Q})

LEMMA NumberInAppend ==
    ASSUME NEW R, NEW L \in Seq(R), NEW r \in R, NEW Q
    PROVE  /\ NumberIn(L, Q) \in Nat
           /\ NumberIn(Append(L, r), Q) = NumberIn(L, Q) + Bit(r \in Q)
<1> DEFINE n == Len(L)
           more == Append(L, r)
           S == {k \in DOMAIN L : L[k] \in Q}
           T == {k \in DOMAIN more : more[k] \in Q}
<1>1. /\ n \in Nat /\ DOMAIN L = 1 .. n /\ DOMAIN more = 1 .. n + 1 /\ more[n + 1] = r
      /\ \A k \in 1 .. n : more[k] = L[k]
  OBVIOUS
<1> HIDE DEF more, n
<1>2. IsFiniteSet(S) /\ Cardinality(S) \in Nat
  <2>1. IsFiniteSet(1 .. n) /\ S \in SUBSET (1 .. n)
    BY <1>1, FS_Interval
  <2> HIDE DEF S
  <2> QED BY <2>1, FS_Subset, FS_CardinalityType
<1>3. CASE r \in Q
  <2>1. T = S \union {n + 1} /\ n + 1 \notin S
    BY <1>1, <1>3
  <2> HIDE DEF S, T
  <2>2. Cardinality(T) = Cardinality(S) + 1
    BY <1>2, <2>1, FS_AddElement
  <2> QED BY <1>2, <1>3, <2>2 DEF NumberIn, Bit, S, T, more
<1>4. CASE r \notin Q
  <2>1. T = S
    BY <1>1, <1>4
  <2> HIDE DEF S, T
  <2>2. Cardinality(T) = Cardinality(S) + 0
    BY <1>2, <2>1
  <2> QED BY <1>2, <1>4, <2>2 DEF NumberIn, Bit, S, T, more
<1> QED BY <1>3, <1>4

LEMMA NumberInNone ==
    ASSUME NEW R, NEW L \in Seq(R), NEW Q, \A k \in DOMAIN L : L[k] \notin Q
    PROVE  NumberIn(L, Q) = 0
<1>1. {k \in DOMAIN L : L[k] \in Q} = {}
  OBVIOUS
<1> QED BY <1>1, FS_EmptySet DEF NumberIn

NamedBy(name, S) == {name[i] : i \in S}

(* As many names as places, when no two share one. *)
LEMMA AsManyNames ==
    ASSUME NEW n \in Nat, NEW name, NEW S \in SUBSET (1 .. n),
           \A i, j \in 1 .. n : i # j => name[i] # name[j]
    PROVE  Cardinality(NamedBy(name, S)) = Cardinality(S)
<1> DEFINE T == {name[i] : i \in S}
           f == [i \in S |-> name[i]]
<1>1. IsFiniteSet(S)
  <2>1. IsFiniteSet(1 .. n)
    BY FS_Interval
  <2> QED BY <2>1, FS_Subset
<1>2. f \in [S -> T] /\ \A i \in S : f[i] = name[i]
  OBVIOUS
<1>3. \A t \in T : \E i \in S : f[i] = t
  BY <1>2
<1>4. \A i, j \in S : f[i] = f[j] => i = j
  BY <1>2
<1> HIDE DEF f, T
<1>5. f \in Surjection(S, T)
  BY <1>2, <1>3 DEF Surjection
<1>6. f \in Injection(S, T)
  BY <1>2, <1>4 DEF Injection, IsInjective
<1>7. Cardinality(T) = Cardinality(S)
  BY <1>1, <1>5, <1>6, FS_Surjection
<1> QED BY <1>7 DEF T, NamedBy
=============================================================================
