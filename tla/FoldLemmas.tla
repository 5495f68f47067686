----------------------------- MODULE FoldLemmas -----------------------------
(***************************************************************************)
(* What the recursive functions of Folds, SequencesExt and Functions       *)
(* compute.  They are chosen by the equation that defines them, so each    *)
(* use needs that the equation has a solution: SetFoldExists for a fold    *)
(* over a set, ChainExists for a recursion along 1..n.  What an operator   *)
(* does to a value is given as a function, so that the lemmas need no      *)
(* operator for a parameter.                                               *)
(***************************************************************************)
EXTENDS Integers, FiniteSetsExt, Functions, FiniteSetTheorems, WellFoundedInduction, TLAPS

-----------------------------------------------------------------------------
(* Induction, on sets in place of predicates *)

\* Some number of a set is the least.
LEMMA LeastNatural ==
  ASSUME NEW T \in SUBSET Nat, T # {}
  PROVE  \E m \in T : \A n \in T : m <= n
<1>1. \E m \in T : \A n \in T : <<n, m>> \notin OpToRel(<, Nat)
  BY NatLessThanWellFounded, WFMin
<1>2. ASSUME NEW m \in T, NEW n \in T, <<n, m>> \notin OpToRel(<, Nat) PROVE m <= n
  <2>1. ~(n < m)
    BY <1>2 DEF OpToRel
  <2> QED
    BY <2>1
<1> QED
  BY <1>1, <1>2

\* A set with 0 and every successor has every number.
LEMMA NatSetInduction ==
  ASSUME NEW T, 0 \in T, \A n \in Nat : n \in T => n + 1 \in T
  PROVE  \A n \in Nat : n \in T
<1>. SUFFICES ASSUME Nat \ T # {} PROVE FALSE
  OBVIOUS
<1>1. PICK m \in Nat \ T : \A n \in Nat \ T : m <= n
  BY LeastNatural
<1>2. m - 1 \in Nat /\ m - 1 \notin Nat \ T
  BY <1>1
<1>3. m - 1 + 1 \in T
  BY <1>2
<1>. QED
  BY <1>1, <1>3

\* What holds of the empty set, and of a set when it holds without any one of
\* its elements, holds of every subset of a finite set.
LEMMA SubsetInduction ==
  ASSUME NEW S, IsFiniteSet(S), NEW T, {} \in T,
         \A s \in SUBSET S : s # {} /\ (\A x \in s : s \ {x} \in T) => s \in T
  PROVE  \A s \in SUBSET S : s \in T
<1>. DEFINE N == {n \in Nat : \A s \in SUBSET S : Cardinality(s) <= n => s \in T}
<1>0. \A s \in SUBSET S : IsFiniteSet(s) /\ Cardinality(s) \in Nat
  BY FS_Subset, FS_CardinalityType
<1>1. 0 \in N
  <2>1. \A s \in SUBSET S : Cardinality(s) <= 0 => s = {}
    BY <1>0, FS_EmptySet
  <2>. QED
    BY <2>1
<1>2. ASSUME NEW n \in Nat, n \in N PROVE n + 1 \in N
  <2>. SUFFICES ASSUME NEW s \in SUBSET S, Cardinality(s) <= n + 1 PROVE s \in T
    BY <1>2
  <2>1. CASE s = {}
    BY <2>1
  <2>2. CASE s # {}
    <3>1. ASSUME NEW x \in s PROVE s \ {x} \in T
      <4>1. s \ {x} \in SUBSET S /\ Cardinality(s \ {x}) = Cardinality(s) - 1
        BY <1>0, FS_RemoveElement
      <4>2. Cardinality(s \ {x}) <= n
        BY <4>1, <1>0
      <4>. QED
        BY <4>1, <4>2, <1>2
    <3>. QED
      BY <3>1, <2>2
  <2>. QED
    BY <2>1, <2>2
<1>. HIDE DEF N
<1>3. \A n \in Nat : n \in N
  BY <1>1, <1>2, NatSetInduction
<1>4. ASSUME NEW s \in SUBSET S PROVE s \in T
  <2>1. Cardinality(s) \in N /\ Cardinality(s) \in Nat
    BY <1>0, <1>3
  <2>. QED
    BY <2>1 DEF N
<1>. QED
  BY <1>4

-----------------------------------------------------------------------------
(* The equations have solutions *)

\* A fold over a set: pick takes the next element, and step[x][v] is what x
\* makes of the value v of the others.
Picks(S, pick) == \A s \in SUBSET S : s # {} => pick[s] \in s
Folded(S, base, step, pick, iter) ==
  \A s \in SUBSET S :
    iter[s] = IF s = {} THEN base ELSE step[pick[s]][iter[s \ {pick[s]}]]

LEMMA SetFoldExists ==
  ASSUME NEW S, IsFiniteSet(S), NEW V, NEW base \in V, NEW step \in [S -> [V -> V]],
         NEW pick, Picks(S, pick)
  PROVE  \E iter \in [SUBSET S -> V] : Folded(S, base, step, pick, iter)
<1>. DEFINE Small(n) == {s \in SUBSET S : Cardinality(s) <= n}
            Good(n, it) == \A s \in Small(n) :
              it[s] = IF s = {} THEN base ELSE step[pick[s]][it[s \ {pick[s]}]]
            N == {n \in Nat : \E it \in [Small(n) -> V] : Good(n, it)}
<1>0. /\ \A s \in SUBSET S : IsFiniteSet(s) /\ Cardinality(s) \in Nat
      /\ \A s \in SUBSET S : s # {} => pick[s] \in s
  BY FS_Subset, FS_CardinalityType DEF Picks
<1>1. \A n \in Nat : \A s \in Small(n + 1) :
        s # {} => pick[s] \in S /\ s \ {pick[s]} \in Small(n)
  <2>. SUFFICES ASSUME NEW n \in Nat, NEW s \in Small(n + 1), s # {}
                PROVE  pick[s] \in S /\ s \ {pick[s]} \in Small(n)
    OBVIOUS
  <2>1. s \in SUBSET S /\ pick[s] \in s /\ Cardinality(s) <= n + 1
    BY <1>0
  <2>2. Cardinality(s \ {pick[s]}) = Cardinality(s) - 1
    BY <2>1, <1>0, FS_RemoveElement
  <2>. QED
    BY <2>1, <2>2, <1>0
<1>2. 0 \in N
  <2>. DEFINE it == [s \in Small(0) |-> base]
  <2>1. \A s \in Small(0) : s = {}
    BY <1>0, FS_EmptySet
  <2>2. it \in [Small(0) -> V] /\ Good(0, it)
    BY <2>1
  <2>. QED
    BY <2>2
<1>3. ASSUME NEW n \in Nat, n \in N PROVE n + 1 \in N
  <2>1. PICK it \in [Small(n) -> V] : Good(n, it)
    BY <1>3
  <2>. DEFINE more == [s \in Small(n + 1) |->
                         IF s = {} THEN base ELSE step[pick[s]][it[s \ {pick[s]}]]]
  <2>2. more \in [Small(n + 1) -> V]
    BY <1>1
  <2>3. \A s \in Small(n) : s \in Small(n + 1) /\ more[s] = it[s]
    <3>. SUFFICES ASSUME NEW s \in Small(n) PROVE s \in Small(n + 1) /\ more[s] = it[s]
      OBVIOUS
    <3>1. s \in Small(n + 1)
      BY <1>0
    <3>2. it[s] = IF s = {} THEN base ELSE step[pick[s]][it[s \ {pick[s]}]]
      BY <2>1
    <3>. QED
      BY <3>1, <3>2
  <2>4. Good(n + 1, more)
    <3>. SUFFICES ASSUME NEW s \in Small(n + 1)
                  PROVE  more[s] = IF s = {} THEN base ELSE step[pick[s]][more[s \ {pick[s]}]]
      OBVIOUS
    <3>1. s # {} => s \ {pick[s]} \in Small(n)
      BY <1>1
    <3>. HIDE DEF Small
    <3>2. s # {} => more[s \ {pick[s]}] = it[s \ {pick[s]}]
      BY <3>1, <2>3
    <3>. QED
      BY <3>2
  <2>. HIDE DEF Good, Small, more
  <2>5. \E h \in [Small(n + 1) -> V] : Good(n + 1, h)
    BY <2>2, <2>4
  <2>. QED
    BY <2>5
<1>4. \A n \in Nat : n \in N
  <2>. HIDE DEF N
  <2>. QED
    BY <1>2, <1>3, NatSetInduction
<1>5. PICK it \in [Small(Cardinality(S)) -> V] : Good(Cardinality(S), it)
  BY <1>0, <1>4
<1>6. Small(Cardinality(S)) = SUBSET S
  BY FS_Subset
<1>. QED
  BY <1>5, <1>6 DEF Folded

\* A recursion along 0..n.
Along(n, base, step, h) == h[0] = base /\ \A i \in 1..n : h[i] = step[i][h[i - 1]]

LEMMA ChainExists ==
  ASSUME NEW n \in Nat, NEW V, NEW base \in V, NEW step \in [1..n -> [V -> V]]
  PROVE  \E h \in [0..n -> V] : Along(n, base, step, h)
<1>. DEFINE Good(m, h) == h[0] = base /\ \A i \in 1..m : h[i] = step[i][h[i - 1]]
            N == {m \in Nat : m <= n => \E h \in [0..m -> V] : Good(m, h)}
<1>1. 0 \in N
  <2>1. [i \in 0..0 |-> base] \in [0..0 -> V] /\ Good(0, [i \in 0..0 |-> base])
    OBVIOUS
  <2>. QED
    BY <2>1
<1>2. ASSUME NEW m \in Nat, m \in N PROVE m + 1 \in N
  <2>. SUFFICES ASSUME m + 1 <= n PROVE \E h \in [0..m + 1 -> V] : Good(m + 1, h)
    OBVIOUS
  <2>1. PICK h \in [0..m -> V] : Good(m, h)
    BY <1>2
  <2>. DEFINE more == [i \in 0..m + 1 |-> IF i = m + 1 THEN step[m + 1][h[m]] ELSE h[i]]
  <2>2. m + 1 \in 1..n /\ m \in 0..m /\ step[m + 1][h[m]] \in V
    BY <2>1
  <2>3. more \in [0..m + 1 -> V]
    BY <2>1, <2>2
  <2>4. Good(m + 1, more)
    BY <2>1, <2>2
  <2>. QED
    BY <2>3, <2>4
<1>3. \A m \in Nat : m \in N
  <2>. HIDE DEF N
  <2>. QED
    BY <1>1, <1>2, NatSetInduction
<1>. QED
  BY <1>3 DEF Along

-----------------------------------------------------------------------------
(* The sum of the values of a function on a set *)

Summed(f, S, iter) ==
  iter = [s \in SUBSET S |->
            IF s = {} THEN 0
            ELSE f[CHOOSE x \in s : TRUE] + iter[s \ {CHOOSE x \in s : TRUE}]]

SumIter(f, S) == CHOOSE iter : Summed(f, S, iter)

LEMMA SumUnfolds ==
  ASSUME NEW f, NEW S
  PROVE  SumFunctionOnSet(f, S) = SumIter(f, S)[S]
BY DEF SumFunctionOnSet, FoldFunctionOnSet, MapThenFoldSet, Summed, SumIter

LEMMA SumIterExists ==
  ASSUME NEW S, IsFiniteSet(S), NEW f, \A x \in S : f[x] \in Nat
  PROVE  /\ SumIter(f, S)[{}] = 0
         /\ \A s \in SUBSET S : s # {} =>
              LET x == CHOOSE x \in s : TRUE
              IN  x \in s /\ SumIter(f, S)[s] = f[x] + SumIter(f, S)[s \ {x}]
<1>. DEFINE pick == [s \in SUBSET S |-> CHOOSE x \in s : TRUE]
            step == [x \in S |-> [v \in Nat |-> f[x] + v]]
<1>1. Picks(S, pick)
  BY DEF Picks
<1>2. step \in [S -> [Nat -> Nat]] /\ 0 \in Nat
  OBVIOUS
<1>. HIDE DEF pick, step
<1>3. PICK iter \in [SUBSET S -> Nat] : Folded(S, 0, step, pick, iter)
  BY <1>1, <1>2, SetFoldExists
<1>4. \A s \in SUBSET S :
        s # {} => step[pick[s]][iter[s \ {pick[s]}]] = f[pick[s]] + iter[s \ {pick[s]}]
  BY <1>1 DEF step, Picks
<1>5. Summed(f, S, iter)
  <2>1. \A s \in SUBSET S :
          iter[s] = IF s = {} THEN 0
                    ELSE f[CHOOSE x \in s : TRUE] + iter[s \ {CHOOSE x \in s : TRUE}]
    BY <1>3, <1>4 DEF pick, Folded
  <2>. QED
    BY <2>1 DEF Summed
<1>6. Summed(f, S, SumIter(f, S))
  BY <1>5 DEF SumIter
<1>. QED
  BY <1>6 DEF Summed

\* The value does not depend on the set the recursion was started for.
LEMMA SumIterSame ==
  ASSUME NEW S, IsFiniteSet(S), NEW f, \A x \in S : f[x] \in Nat, NEW U \in SUBSET S
  PROVE  \A s \in SUBSET U : SumIter(f, U)[s] = SumIter(f, S)[s] /\ SumIter(f, S)[s] \in Nat
<1>. DEFINE T == {s \in SUBSET U : SumIter(f, U)[s] = SumIter(f, S)[s] /\ SumIter(f, S)[s] \in Nat}
<1>0. IsFiniteSet(U) /\ \A x \in U : f[x] \in Nat
  BY FS_Subset
<1>1. SumIter(f, S)[{}] = 0 /\ SumIter(f, U)[{}] = 0
  BY <1>0, SumIterExists
<1>2. {} \in T
  BY <1>1
<1>3. ASSUME NEW s \in SUBSET U, \A x \in s : s \ {x} \in T PROVE s # {} => s \in T
  <2>. SUFFICES ASSUME s # {} PROVE s \in T
    OBVIOUS
  <2>. DEFINE c == CHOOSE x \in s : TRUE
  <2>1. c \in s /\ SumIter(f, S)[s] = f[c] + SumIter(f, S)[s \ {c}]
    BY SumIterExists
  <2>2. SumIter(f, U)[s] = f[c] + SumIter(f, U)[s \ {c}]
    BY <1>0, SumIterExists
  <2>3. s \ {c} \in T /\ f[c] \in Nat
    BY <2>1, <1>3
  <2>. QED
    BY <2>1, <2>2, <2>3
<1>. HIDE DEF T
<1>4. \A s \in SUBSET U : s \in T
  BY <1>0, <1>2, <1>3, SubsetInduction
<1>. QED
  BY <1>4 DEF T

LEMMA SumEmpty ==
  ASSUME NEW f
  PROVE  SumFunctionOnSet(f, {}) = 0
<1>1. IsFiniteSet({})
  BY FS_EmptySet
<1>. QED
  BY <1>1, SumUnfolds, SumIterExists

LEMMA SumType ==
  ASSUME NEW S, IsFiniteSet(S), NEW f, \A x \in S : f[x] \in Nat
  PROVE  SumFunctionOnSet(f, S) \in Nat
BY SumUnfolds, SumIterSame

\* Any element may be added last.
LEMMA SumRemove ==
  ASSUME NEW S, IsFiniteSet(S), NEW f, \A x \in S : f[x] \in Nat, NEW y \in S
  PROVE  SumFunctionOnSet(f, S) = f[y] + SumFunctionOnSet(f, S \ {y})
<1>. DEFINE sum(s) == SumIter(f, S)[s]
            T == {s \in SUBSET S : \A x \in s : sum(s) = f[x] + sum(s \ {x})}
<1>1. \A s \in SUBSET S : SumFunctionOnSet(f, s) = sum(s) /\ sum(s) \in Nat
  <2>. SUFFICES ASSUME NEW s \in SUBSET S PROVE SumFunctionOnSet(f, s) = sum(s) /\ sum(s) \in Nat
    OBVIOUS
  <2>1. SumFunctionOnSet(f, s) = SumIter(f, s)[s]
    BY SumUnfolds
  <2>. QED
    BY <2>1, SumIterSame
<1>2. {} \in T
  OBVIOUS
<1>3. ASSUME NEW s \in SUBSET S, s # {}, \A x \in s : s \ {x} \in T PROVE s \in T
  <2>. DEFINE c == CHOOSE x \in s : TRUE
  <2>1. c \in s /\ sum(s) = f[c] + sum(s \ {c})
    BY <1>3, SumIterExists
  <2>. HIDE DEF c, sum
  <2>2. ASSUME NEW x \in s PROVE sum(s) = f[x] + sum(s \ {x})
    <3>1. CASE x = c
      BY <3>1, <2>1
    <3>2. CASE x # c
      <4>1. sum(s \ {c}) = f[x] + sum((s \ {c}) \ {x})
        BY <3>2, <1>3, <2>1
      <4>2. sum(s \ {x}) = f[c] + sum((s \ {x}) \ {c})
        BY <3>2, <1>3, <2>1
      <4>3. (s \ {c}) \ {x} = (s \ {x}) \ {c}
        OBVIOUS
      <4>4. /\ sum((s \ {c}) \ {x}) \in Nat /\ sum(s \ {x}) \in Nat /\ sum(s \ {c}) \in Nat
            /\ f[x] \in Nat /\ f[c] \in Nat
        BY <1>1, <2>1
      <4>. QED
        BY <4>1, <4>2, <4>3, <4>4, <2>1
    <3>. QED
      BY <3>1, <3>2
  <2>. QED
    BY <2>2
<1>. HIDE DEF T
<1>4. \A s \in SUBSET S : s \in T
  BY <1>2, <1>3, SubsetInduction
<1>5. sum(S) = f[y] + sum(S \ {y})
  BY <1>4 DEF T
<1>. QED
  BY <1>1, <1>5

\* A sum is bounded by the sum of values that are no smaller, and depends on
\* the values on the set only.
LEMMA SumMonotone ==
  ASSUME NEW S, IsFiniteSet(S), NEW f, NEW g,
         \A x \in S : f[x] \in Nat /\ g[x] \in Nat /\ f[x] <= g[x]
  PROVE  SumFunctionOnSet(f, S) <= SumFunctionOnSet(g, S)
<1>. DEFINE T == {s \in SUBSET S : SumFunctionOnSet(f, s) <= SumFunctionOnSet(g, s)}
<1>0. \A s \in SUBSET S : IsFiniteSet(s)
  BY FS_Subset
<1>1. {} \in T
  BY SumEmpty
<1>2. ASSUME NEW s \in SUBSET S, s # {}, \A x \in s : s \ {x} \in T PROVE s \in T
  <2>1. PICK x \in s : TRUE
    BY <1>2
  <2>2. /\ SumFunctionOnSet(f, s) = f[x] + SumFunctionOnSet(f, s \ {x})
        /\ SumFunctionOnSet(g, s) = g[x] + SumFunctionOnSet(g, s \ {x})
    BY <1>0, SumRemove
  <2>3. /\ SumFunctionOnSet(f, s \ {x}) \in Nat /\ SumFunctionOnSet(g, s \ {x}) \in Nat
        /\ SumFunctionOnSet(f, s \ {x}) <= SumFunctionOnSet(g, s \ {x})
    <3>1. SumFunctionOnSet(f, s \ {x}) <= SumFunctionOnSet(g, s \ {x})
      BY <1>2
    <3>. QED
      BY <3>1, <1>0, SumType
  <2>. QED
    BY <2>2, <2>3
<1>. HIDE DEF T
<1>3. \A s \in SUBSET S : s \in T
  BY <1>1, <1>2, SubsetInduction
<1>. QED
  BY <1>3 DEF T

LEMMA SumEqual ==
  ASSUME NEW S, IsFiniteSet(S), NEW f, NEW g, \A x \in S : f[x] \in Nat /\ f[x] = g[x]
  PROVE  SumFunctionOnSet(f, S) = SumFunctionOnSet(g, S)
<1>1. /\ SumFunctionOnSet(f, S) <= SumFunctionOnSet(g, S)
      /\ SumFunctionOnSet(g, S) <= SumFunctionOnSet(f, S)
  BY SumMonotone
<1>2. SumFunctionOnSet(f, S) \in Nat /\ SumFunctionOnSet(g, S) \in Nat
  BY SumType
<1>. QED
  BY <1>1, <1>2

=============================================================================
