----------------------------- MODULE FoldLemmas -----------------------------
(***************************************************************************)
(* What proofs about the folds of the community modules need: sets of      *)
(* numbers have a least and a greatest element, what holds of 0 and is     *)
(* handed on holds up to n, and the recursion by which a fold is defined   *)
(* has a solution.  A lemma with an operator for a parameter cannot be     *)
(* cited, so the operation that is folded is a function here.              *)
(***************************************************************************)
EXTENDS Integers, Sequences, SequencesExt, SubSequences, FiniteSetTheorems,
        WellFoundedInduction, TLAPS

(* A set of natural numbers that is not empty has a least element. *)
LEMMA LeastNatural ==
    ASSUME NEW T, T \subseteq Nat, T # {}
    PROVE  \E x \in T : \A y \in T : x <= y
<1>1. \E x \in T : \A y \in T : ~ (<<y, x>> \in OpToRel(<, Nat))
  BY NatLessThanWellFounded, WFMin
<1>2. ASSUME NEW x \in T, NEW y \in T, ~ (<<y, x>> \in OpToRel(<, Nat)) PROVE x <= y
  BY <1>2 DEF OpToRel
<1>3. QED BY <1>1, <1>2

(* What holds of 0, and of each number up to n if of the one before, holds
   of all numbers up to n. *)
LEMMA HandedOn ==
    ASSUME NEW n \in Nat, NEW T, 0 \in T, \A k \in 1 .. n : k - 1 \in T => k \in T
    PROVE  0 .. n \subseteq T
<1> DEFINE Missing == (0 .. n) \ T
<1>1. ASSUME Missing # {} PROVE FALSE
  <2>1. PICK m \in Missing : \A y \in Missing : m <= y
    <3>1. Missing \subseteq Nat
      OBVIOUS
    <3> HIDE DEF Missing
    <3>2. QED BY <1>1, <3>1, LeastNatural
  <2>2. m \in 1 .. n /\ m - 1 \in 0 .. n
    OBVIOUS
  <2>3. m - 1 \in T
    BY <2>1, <2>2
  <2>4. QED BY <2>2, <2>3
<1>2. QED BY <1>1

(* A set of numbers up to n that is not empty has a greatest element. *)
LEMMA MaxIsGreatest ==
    ASSUME NEW n \in Nat, NEW s \in SUBSET (1 .. n), s # {}
    PROVE  Max(s) \in s /\ \A x \in s : Max(s) >= x
<1> DEFINE T == {k \in Nat : \A x \in s : k >= x}
<1>1. n \in T
  OBVIOUS
<1>2. PICK m \in T : \A y \in T : m <= y
  <2>1. T \subseteq Nat /\ T # {}
    BY <1>1
  <2> HIDE DEF T
  <2>2. QED BY <2>1, LeastNatural
<1>3. m \in s
  <2> SUFFICES ASSUME m \notin s PROVE FALSE
    OBVIOUS
  <2>1. PICK x \in s : TRUE
    OBVIOUS
  <2>2. m - 1 \in T
    BY <1>2, <2>1
  <2>3. QED BY <1>2, <2>2
<1>4. QED BY <1>2, <1>3 DEF Max

(* The greatest element of a set is the one that no other exceeds. *)
LEMMA MaxIsThat ==
    ASSUME NEW n \in Nat, NEW s \in SUBSET (1 .. n), NEW x \in s, \A y \in s : x >= y
    PROVE  Max(s) = x
<1>1. Max(s) \in s /\ Max(s) >= x
  BY MaxIsGreatest
<1>2. x >= Max(s) /\ Max(s) \in 1 .. n /\ x \in 1 .. n
  BY <1>1
<1>3. QED BY <1>1, <1>2

(* The last of the first k numbers, and those before. *)
LEMMA FirstNumbers ==
    ASSUME NEW n \in Nat, NEW k \in 1 .. n
    PROVE  /\ 1 .. k \in SUBSET (1 .. n) /\ 1 .. k # {}
           /\ Max(1 .. k) = k
           /\ (1 .. k) \ {Max(1 .. k)} = 1 .. (k - 1)
<1>1. 1 .. k \in SUBSET (1 .. n) /\ k \in 1 .. k /\ \A y \in 1 .. k : k >= y
  OBVIOUS
<1>2. Max(1 .. k) = k
  BY <1>1, MaxIsThat
<1>3. QED BY <1>1, <1>2

(***************************************************************************)
(* A fold over the finite set S takes its elements in the order in which C *)
(* chooses them, and takes F[x][v] from the value v with the element x.    *)
(***************************************************************************)
Chooses(S, C) == \A s \in SUBSET S : s # {} => C[s] \in s

(* The steps of F keep to V, g solves the recursion of the fold, and it obeys
   that recursion as long as it is in V. *)
SetFoldStays(V, S, F) == \A x \in S, v \in V : F[x][v] \in V

SetFoldSolves(V, base, S, C, F, g) ==
    /\ g = [s \in SUBSET S |-> IF s = {} THEN base ELSE F[C[s]][g[s \ {C[s]}]]]
    /\ \A s \in SUBSET S : g[s] \in V

SetFoldObeys(V, base, S, C, F, it) ==
    /\ it[{}] = base
    /\ \A s \in SUBSET S :
          (s # {} /\ it[s \ {C[s]}] \in V) => it[s] = F[C[s]][it[s \ {C[s]}]]

(* A set without the element that is chosen of it. *)
LEMMA OneLess ==
    ASSUME NEW S, IsFiniteSet(S), NEW s \in SUBSET S, s # {}, NEW C, Chooses(S, C)
    PROVE  /\ C[s] \in s /\ C[s] \in S /\ s \ {C[s]} \in SUBSET S
           /\ Cardinality(s) \in Nat /\ Cardinality(s) <= Cardinality(S)
           /\ Cardinality(s \ {C[s]}) = Cardinality(s) - 1
           /\ Cardinality(s) > 0
<1>1. C[s] \in s
  BY DEF Chooses
<1>2. IsFiniteSet(s) /\ Cardinality(s) \in Nat /\ Cardinality(s) <= Cardinality(S)
  BY FS_Subset, FS_CardinalityType
<1>3. Cardinality(s \ {C[s]}) = Cardinality(s) - 1
  BY <1>1, <1>2, FS_RemoveElement
<1>4. Cardinality(s) # 0
  BY <1>2, FS_EmptySet
<1>5. QED BY <1>1, <1>2, <1>3, <1>4

(* That recursion has a solution: one for the sets of up to k - 1 elements is
   extended by a step. *)
LEMMA SetFoldIsDefined ==
    ASSUME NEW V, NEW base \in V, NEW S, IsFiniteSet(S), NEW C, Chooses(S, C),
           NEW F, SetFoldStays(V, S, F)
    PROVE  \E g : SetFoldSolves(V, base, S, C, F, g)
<1> DEFINE n == Cardinality(S)
           next(s, g) == IF s = {} THEN base ELSE F[C[s]][g[s \ {C[s]}]]
           Solves(g, m) == \A s \in SUBSET S : Cardinality(s) <= m => g[s] = next(s, g)
           Solved(m) == \E g \in [SUBSET S -> V] : Solves(g, m)
           T == {m \in 0 .. n : Solved(m)}
<1>n. n \in Nat
  BY FS_CardinalityType
<1>1. 0 \in T
  <2> DEFINE g == [s \in SUBSET S |-> base]
  <2>1. g \in [SUBSET S -> V]
    OBVIOUS
  <2>2. ASSUME NEW s \in SUBSET S, Cardinality(s) <= 0 PROVE g[s] = next(s, g)
    <3>1. IsFiniteSet(s) /\ Cardinality(s) \in Nat
      BY FS_Subset, FS_CardinalityType
    <3>3. Cardinality(s) = 0
      <4> HIDE DEF n
      <4>1. QED BY <2>2, <3>1
    <3>4. s = {}
      BY <3>1, <3>3, FS_EmptySet
    <3>5. QED BY <3>4
  <2> HIDE DEF g
  <2>3. Solved(0)
    BY <2>1, <2>2
  <2> HIDE DEF Solved, n
  <2>4. QED BY <1>n, <2>3
<1>2. ASSUME NEW k \in 1 .. n, k - 1 \in T PROVE k \in T
  <2>1. PICK g \in [SUBSET S -> V] : Solves(g, k - 1)
    BY <1>2
  <2> DEFINE h == [s \in SUBSET S |-> next(s, g)]
  <2>2. \A s \in SUBSET S : s # {} => C[s] \in S /\ s \ {C[s]} \in SUBSET S
    BY OneLess
  <2>3. h \in [SUBSET S -> V]
    <3>1. ASSUME NEW s \in SUBSET S PROVE next(s, g) \in V
      BY <2>1, <2>2 DEF SetFoldStays
    <3> HIDE DEF next
    <3>2. QED BY <3>1
  <2>4. ASSUME NEW s \in SUBSET S, Cardinality(s) <= k PROVE h[s] = next(s, h)
    <3>1. CASE s = {}
      BY <3>1
    <3>2. CASE s # {}
      <4> DEFINE t == s \ {C[s]}
      <4>1. t \in SUBSET S /\ Cardinality(t) = Cardinality(s) - 1 /\ Cardinality(s) \in Nat
        BY <3>2, OneLess
      <4>2. Cardinality(t) <= k - 1
        <5> HIDE DEF t, n
        <5>1. k \in Int
          BY <1>n
        <5>2. QED BY <2>4, <4>1, <5>1
      <4>3. g[t] = next(t, g)
        BY <2>1, <4>1, <4>2
      <4>4. h[t] = g[t]
        BY <4>1, <4>3
      <4>5. QED BY <3>2, <4>4
    <3>3. QED BY <3>1, <3>2
  <2> HIDE DEF h, next
  <2>5. Solved(k)
    BY <2>3, <2>4
  <2> HIDE DEF Solved, n
  <2>6. QED BY <1>n, <2>5
<1>3. 0 .. n \subseteq T
  <2> HIDE DEF T, n
  <2>1. QED BY <1>n, <1>1, <1>2, HandedOn
<1>4. Solved(n)
  <2> HIDE DEF Solved, n
  <2>1. QED BY <1>n, <1>3
<1>5. PICK g \in [SUBSET S -> V] : Solves(g, n)
  BY <1>4
<1>6. \A s \in SUBSET S : Cardinality(s) <= n
  BY FS_Subset
<1>7. g = [s \in SUBSET S |-> next(s, g)]
  <2> HIDE DEF next, n
  <2>1. QED BY <1>5, <1>6
<1>8. QED BY <1>5, <1>7 DEF SetFoldSolves

(* Whatever solves that recursion stays in V. *)
LEMMA SetFoldStaysIn ==
    ASSUME NEW V, NEW base \in V, NEW S, IsFiniteSet(S), NEW C, Chooses(S, C),
           NEW F, SetFoldStays(V, S, F), NEW it, SetFoldObeys(V, base, S, C, F, it)
    PROVE  it[S] \in V
<1> DEFINE n == Cardinality(S)
           In(m) == \A s \in SUBSET S : Cardinality(s) = m => it[s] \in V
           T == {m \in 0 .. n : In(m)}
<1>n. n \in Nat
  BY FS_CardinalityType
<1>1. 0 \in T
  <2>1. \A s \in SUBSET S : Cardinality(s) = 0 => s = {}
    BY FS_Subset, FS_EmptySet
  <2>2. In(0)
    BY <2>1 DEF SetFoldObeys
  <2> HIDE DEF In, n
  <2>3. QED BY <1>n, <2>2
<1>2. ASSUME NEW k \in 1 .. n, k - 1 \in T PROVE k \in T
  <2>1. ASSUME NEW s \in SUBSET S, Cardinality(s) = k PROVE it[s] \in V
    <3>1. s # {}
      <4>1. Cardinality({}) = 0
        BY FS_EmptySet
      <4> HIDE DEF n
      <4>2. QED BY <1>n, <2>1, <4>1
    <3>2. C[s] \in S /\ s \ {C[s]} \in SUBSET S /\ Cardinality(s \ {C[s]}) = k - 1
      BY <2>1, <3>1, OneLess
    <3>3. it[s \ {C[s]}] \in V
      BY <1>2, <3>2
    <3>4. QED BY <3>1, <3>2, <3>3 DEF SetFoldObeys, SetFoldStays
  <2>2. In(k)
    BY <2>1
  <2> HIDE DEF In, n
  <2>3. QED BY <1>n, <2>2
<1>3. 0 .. n \subseteq T
  <2> HIDE DEF T, n
  <2>1. QED BY <1>n, <1>1, <1>2, HandedOn
<1>4. In(n)
  <2> HIDE DEF In, n
  <2>1. QED BY <1>n, <1>3
<1>5. QED BY <1>4

(* The same of a fold over 1 .. n, from 1 on: h are the values it goes through. *)
FoldStays(V, n, F) == \A i \in 1 .. n, v \in V : F[i][v] \in V

FoldSolves(V, base, n, F, g) ==
    /\ g = [s \in SUBSET (1 .. n) |-> IF s = {} THEN base ELSE F[Max(s)][g[s \ {Max(s)}]]]
    /\ \A s \in SUBSET (1 .. n) : g[s] \in V

FoldObeys(V, base, n, F, it) ==
    /\ it[{}] = base
    /\ \A s \in SUBSET (1 .. n) :
          (s # {} /\ it[s \ {Max(s)}] \in V) => it[s] = F[Max(s)][it[s \ {Max(s)}]]

FoldRuns(V, base, n, F, h) ==
    /\ \A k \in 0 .. n : h[k] \in V
    /\ h[0] = base
    /\ \A k \in 1 .. n : h[k] = F[k][h[k - 1]]

(* A fold over n elements has a solution. *)
LEMMA FoldIsDefined ==
    ASSUME NEW V, NEW base \in V, NEW n \in Nat, NEW F, FoldStays(V, n, F)
    PROVE  \E g : FoldSolves(V, base, n, F, g)
<1> DEFINE S == 1 .. n
           C == [s \in SUBSET S |-> Max(s)]
<1>1. \A s \in SUBSET S : s # {} => Max(s) \in s
  BY MaxIsGreatest
<1>2. IsFiniteSet(S) /\ Chooses(S, C)
  BY <1>1, FS_Interval DEF Chooses
<1>3. SetFoldStays(V, S, F)
  BY DEF FoldStays, SetFoldStays
<1>4. \A s \in SUBSET S : C[s] = Max(s)
  OBVIOUS
<1> HIDE DEF S, C
<1>5. PICK g : SetFoldSolves(V, base, S, C, F, g)
  BY <1>2, <1>3, SetFoldIsDefined
<1>6. FoldSolves(V, base, n, F, g)
  BY <1>4, <1>5 DEF S, SetFoldSolves, FoldSolves
<1>7. QED BY <1>6

(* Whatever solves that recursion goes through the values of the first
   elements, one after the other. *)
LEMMA FoldGoesThrough ==
    ASSUME NEW V, NEW base \in V, NEW n \in Nat, NEW F, NEW it, FoldStays(V, n, F),
           FoldObeys(V, base, n, F, it)
    PROVE  \E h : FoldRuns(V, base, n, F, h) /\ h[n] = it[1 .. n]
<1> USE DEF FoldStays, FoldObeys
<1> DEFINE T == {k \in 0 .. n : it[1 .. k] \in V}
           h == [k \in 0 .. n |-> it[1 .. k]]
<1>1. 0 \in T
  BY 1 .. 0 = {}
<1>2. ASSUME NEW k \in 1 .. n, it[1 .. (k - 1)] \in V
      PROVE  it[1 .. k] = F[k][it[1 .. (k - 1)]] /\ it[1 .. k] \in V
  <2>1. it[1 .. k] = F[k][it[1 .. (k - 1)]]
    BY <1>2, FirstNumbers
  <2>2. QED BY <1>2, <2>1
<1>3. ASSUME NEW k \in 1 .. n, k - 1 \in T PROVE k \in T
  <2>1. it[1 .. (k - 1)] \in V
    BY <1>3
  <2>2. it[1 .. k] \in V
    BY <1>2, <2>1
  <2>3. QED BY <2>2
<1>4. 0 .. n \subseteq T
  <2> HIDE DEF T
  <2>1. QED BY <1>1, <1>3, HandedOn
<1>5. \A k \in 0 .. n : h[k] \in V
  BY <1>4
<1>6. \A k \in 1 .. n : h[k] = F[k][h[k - 1]]
  BY <1>2, <1>4
<1>7. h[0] = base /\ h[n] = it[1 .. n]
  BY 1 .. 0 = {}
<1> HIDE DEF h
<1>8. QED BY <1>5, <1>6, <1>7 DEF FoldRuns

(***************************************************************************)
(* The elements of a sequence that are in a set: h are the values the fold *)
(* goes through.                                                           *)
(***************************************************************************)
SelectionRuns(C, S, s, h) ==
    /\ \A k \in 0 .. Len(s) : h[k] \in Seq(C)
    /\ h[0] = <<>>
    /\ \A k \in 1 .. Len(s) : h[k] = KeepIn(h[k - 1], S, s[k])
    /\ ElementsIn(s, S) = h[Len(s)]

(* A selection goes through its sequence, one element after the other. *)
LEMMA SelectionGoesThrough ==
    ASSUME NEW C, NEW S, NEW seq \in Seq(C)
    PROVE  \E h : SelectionRuns(C, S, seq, h)
<1> DEFINE n == Len(seq)
           V == Seq(C)
           base == <<>>
           keep(kept, x) == KeepIn(kept, S, x)
           F == [i \in 1 .. n |-> [v \in V |-> keep(v, seq[i])]]
<1>0. base \in V /\ \A v \in V, c \in C : keep(v, c) \in V
  BY DEF KeepIn
<1>1. n \in Nat /\ DOMAIN seq = 1 .. n /\ \A i \in 1 .. n : seq[i] \in C
  OBVIOUS
<1> HIDE DEF keep, base, V
<1>2. FoldStays(V, n, F)
  BY <1>0, <1>1 DEF FoldStays
<1>3. \A i \in 1 .. n, v \in V : F[i][v] = keep(v, seq[i])
  OBVIOUS
<1> HIDE DEF n, F
<1>4. PICK g : FoldSolves(V, base, n, F, g)
  BY <1>0, <1>1, <1>2, FoldIsDefined
<1>5. g = [s \in SUBSET DOMAIN seq |->
             IF s = {} THEN base ELSE keep(g[s \ {Max(s)}], seq[Max(s)])]
  <2>1. ASSUME NEW s \in SUBSET (1 .. n), s # {}
        PROVE  F[Max(s)][g[s \ {Max(s)}]] = keep(g[s \ {Max(s)}], seq[Max(s)])
    <3>1. Max(s) \in s
      BY <1>1, <2>1, MaxIsGreatest
    <3>2. g[s \ {Max(s)}] \in V
      BY <1>4 DEF FoldSolves
    <3>3. QED BY <1>3, <3>1, <3>2
  <2>2. QED BY <1>1, <1>4, <2>1 DEF FoldSolves
<1>6. PICK it :
         /\ it = [s \in SUBSET DOMAIN seq |->
                    IF s = {} THEN base ELSE keep(it[s \ {Max(s)}], seq[Max(s)])]
         /\ ElementsIn(seq, S) = it[DOMAIN seq]
  BY <1>5 DEF ElementsIn, FoldLeft, MapThenFoldSet, base, keep
<1>7. it[{}] = base
  BY <1>6
<1>8. ASSUME NEW s \in SUBSET (1 .. n), s # {}, it[s \ {Max(s)}] \in V
      PROVE  it[s] = F[Max(s)][it[s \ {Max(s)}]]
  <2>1. Max(s) \in s
    BY <1>1, <1>8, MaxIsGreatest
  <2>2. it[s] = keep(it[s \ {Max(s)}], seq[Max(s)])
    BY <1>1, <1>6, <1>8
  <2>3. QED BY <1>3, <1>8, <2>1, <2>2
<1>9. FoldObeys(V, base, n, F, it)
  BY <1>7, <1>8 DEF FoldObeys
<1>10. PICK h : FoldRuns(V, base, n, F, h) /\ h[n] = it[1 .. n]
  BY <1>0, <1>1, <1>2, <1>9, FoldGoesThrough
<1>11. \A k \in 1 .. n : h[k] = KeepIn(h[k - 1], S, seq[k])
  <2>1. ASSUME NEW k \in 1 .. n PROVE h[k] = keep(h[k - 1], seq[k])
    <3>1. k - 1 \in 0 .. n /\ h[k - 1] \in V
      BY <1>1, <1>10 DEF FoldRuns
    <3>2. QED BY <1>3, <1>10, <3>1 DEF FoldRuns
  <2>2. QED BY <2>1 DEF keep
<1>12. h[0] = <<>> /\ ElementsIn(seq, S) = h[n] /\ \A k \in 0 .. n : h[k] \in V
  BY <1>1, <1>6, <1>10 DEF base, FoldRuns
<1>13. QED BY <1>11, <1>12 DEF n, V, SelectionRuns

(* If none is in the set, nothing is left, *)
LEMMA NoneSelected ==
    ASSUME NEW C, NEW S, NEW s \in Seq(C), \A i \in DOMAIN s : s[i] \notin S
    PROVE  ElementsIn(s, S) = <<>>
<1> DEFINE n == Len(s)
<1>1. n \in Nat /\ DOMAIN s = 1 .. n
  OBVIOUS
<1>2. PICK h : SelectionRuns(C, S, s, h)
  BY SelectionGoesThrough
<1> DEFINE T == {k \in 0 .. n : h[k] = <<>>}
<1>3. h[0] = <<>> /\ ElementsIn(s, S) = h[n] /\ \A k \in 1 .. n : h[k] = KeepIn(h[k - 1], S, s[k])
  BY <1>2 DEF SelectionRuns
<1> HIDE DEF n
<1>4. 0 \in T
  BY <1>1, <1>3
<1>5. ASSUME NEW k \in 1 .. n, k - 1 \in T PROVE k \in T
  BY <1>1, <1>3, <1>5 DEF KeepIn
<1>6. 0 .. n \subseteq T
  <2> HIDE DEF T
  <2>1. QED BY <1>1, <1>4, <1>5, HandedOn
<1>7. n \in T
  BY <1>1, <1>6
<1>8. QED BY <1>3, <1>7

(* if all are, everything, *)
LEMMA AllSelected ==
    ASSUME NEW C, NEW S, NEW s \in Seq(C), \A i \in DOMAIN s : s[i] \in S
    PROVE  ElementsIn(s, S) = s
<1> DEFINE n == Len(s)
<1>1. n \in Nat /\ DOMAIN s = 1 .. n /\ \A i \in 1 .. n : s[i] \in C
  OBVIOUS
<1>2. PICK h : SelectionRuns(C, S, s, h)
  BY SelectionGoesThrough
<1> DEFINE T == {k \in 0 .. n : Len(h[k]) = k /\ \A j \in 1 .. k : h[k][j] = s[j]}
<1>3. /\ h[0] = <<>> /\ ElementsIn(s, S) = h[n] /\ \A k \in 1 .. n : h[k] = KeepIn(h[k - 1], S, s[k])
      /\ \A k \in 0 .. n : h[k] \in Seq(C)
  BY <1>2 DEF SelectionRuns
<1>4. 0 \in T
  BY <1>1, <1>3
<1>5. ASSUME NEW k \in 1 .. n, k - 1 \in T PROVE k \in T
  <2> HIDE DEF n
  <2>1. /\ k \in Nat /\ k - 1 \in 0 .. n /\ Len(h[k - 1]) = k - 1 /\ h[k - 1] \in Seq(C)
        /\ \A j \in 1 .. (k - 1) : h[k - 1][j] = s[j]
    BY <1>1, <1>3, <1>5
  <2>2. h[k] = Append(h[k - 1], s[k]) /\ s[k] \in C
    BY <1>1, <1>3 DEF KeepIn
  <2>3. Len(h[k]) = k /\ \A j \in 1 .. k : h[k][j] = IF j = k THEN s[k] ELSE h[k - 1][j]
    BY <2>1, <2>2
  <2>4. \A j \in 1 .. k : h[k][j] = s[j]
    BY <2>1, <2>3
  <2>5. QED BY <1>1, <2>3, <2>4
<1>6. 0 .. n \subseteq T
  <2> HIDE DEF T, n
  <2>1. QED BY <1>1, <1>4, <1>5, HandedOn
<1>7. n \in T
  BY <1>1, <1>6
<1>8. h[n] \in Seq(C) /\ Len(h[n]) = n /\ \A j \in 1 .. n : h[n][j] = s[j]
  BY <1>1, <1>3, <1>7
<1>9. QED BY <1>1, <1>3, <1>8

(* and of one or two elements those that are. *)
LEMMA OneSelected ==
    ASSUME NEW S, NEW a
    PROVE  ElementsIn(<<a>>, S) = IF a \in S THEN <<a>> ELSE <<>>
<1> DEFINE s == <<a>>
           C == {a}
<1>1. s \in Seq(C) /\ DOMAIN s = {1} /\ s[1] = a
  OBVIOUS
<1> HIDE DEF s, C
<1>2. a \in S => ElementsIn(s, S) = s
  BY <1>1, AllSelected
<1>3. a \notin S => ElementsIn(s, S) = <<>>
  BY <1>1, NoneSelected
<1>4. QED BY <1>2, <1>3 DEF s

LEMMA TwoSelected ==
    ASSUME NEW S, NEW a, NEW b
    PROVE  ElementsIn(<<a, b>>, S) =
              IF a \in S THEN (IF b \in S THEN <<a, b>> ELSE <<a>>)
                         ELSE (IF b \in S THEN <<b>> ELSE <<>>)
<1> DEFINE s == <<a, b>>
           C == {a, b}
<1>1. s \in Seq(C) /\ Len(s) = 2 /\ s[1] = a /\ s[2] = b
  OBVIOUS
<1> HIDE DEF s, C
<1>2. PICK h : SelectionRuns(C, S, s, h)
  BY <1>1, SelectionGoesThrough
<1>3. /\ h[0] = <<>> /\ ElementsIn(s, S) = h[2]
      /\ \A k \in 1 .. 2 : h[k] = KeepIn(h[k - 1], S, s[k])
  BY <1>1, <1>2 DEF SelectionRuns
<1>4. h[1] = KeepIn(h[0], S, s[1]) /\ h[2] = KeepIn(h[1], S, s[2])
  <2>1. h[1] = KeepIn(h[1 - 1], S, s[1]) /\ h[2] = KeepIn(h[2 - 1], S, s[2])
    BY <1>3
  <2>2. QED BY <2>1
<1>5. QED BY <1>1, <1>3, <1>4 DEF KeepIn, s

=============================================================================
