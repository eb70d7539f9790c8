----------------------------- MODULE Induction -----------------------------
(***************************************************************************)
(* Induction over the naturals, and what follows from it, for the proof     *)
(* modules.  The statements quantify over sets and functions only: a set of *)
(* naturals that contains 0 and is closed under successor contains all of   *)
(* them, because otherwise the successor would map one of its finite parts  *)
(* into a smaller one.                                                      *)
(***************************************************************************)
EXTENDS Integers, FiniteSets, Functions, FiniteSetTheorems, TLAPS

\* A set that contains 0 and with every natural the next one contains them all.
LEMMA Induction ==
  ASSUME NEW D, 0 \in D, \A n \in Nat : n \in D => n + 1 \in D
  PROVE  Nat \subseteq D
<1> SUFFICES ASSUME NEW n \in Nat, n \notin D PROVE FALSE
  OBVIOUS
<1> DEFINE S == {i \in 0 .. n : i \in D}
           f == [i \in S |-> i + 1]
<1>1. IsFiniteSet(S)
  BY FS_Interval, FS_Subset, 0 \in Int, n \in Int, S \in SUBSET (0 .. n)
<1>2. 0 \in S
  OBVIOUS
<1>3. IsFiniteSet(S \ {0}) /\ Cardinality(S \ {0}) < Cardinality(S)
  <2> HIDE DEF S
  <2>1. Cardinality(S) \in Nat
    BY <1>1, FS_CardinalityType
  <2>2. IsFiniteSet(S \ {0}) /\ Cardinality(S \ {0}) = Cardinality(S) - 1
    BY <1>1, <1>2, FS_RemoveElement
  <2> QED
    BY <2>1, <2>2
<1>4. f \in [S -> S \ {0}]
  <2> SUFFICES ASSUME NEW i \in S PROVE i + 1 \in S \ {0}
    OBVIOUS
  <2>1. i \in Nat /\ i # n /\ i <= n /\ i \in D
    OBVIOUS
  <2> QED
    BY <2>1
<1>5. \E x, y \in S : x # y /\ f[x] = f[y]
  <2> HIDE DEF S, f
  <2> QED
    BY <1>1, <1>3, <1>4, FS_PigeonHole
<1>6. QED
  BY <1>5

\* A nonempty set of naturals with an upper bound has a greatest element.
LEMMA Greatest ==
  ASSUME NEW S \in SUBSET Nat, NEW m \in Nat, \A i \in S : i <= m, S # {}
  PROVE  \E g \in S : \A i \in S : i <= g
<1> DEFINE D == {n \in Nat : (\A i \in S : i <= n) => \E g \in S : \A i \in S : i <= g}
<1>1. 0 \in D
  <2> SUFFICES ASSUME \A i \in S : i <= 0 PROVE \E g \in S : \A i \in S : i <= g
    OBVIOUS
  <2>1. PICK g \in S : TRUE
    OBVIOUS
  <2>2. \A i \in S : i <= g
    BY <2>1
  <2> QED
    BY <2>2
<1>2. \A n \in Nat : n \in D => n + 1 \in D
  <2> SUFFICES ASSUME NEW n \in Nat, n \in D, \A i \in S : i <= n + 1
               PROVE  \E g \in S : \A i \in S : i <= g
    OBVIOUS
  <2>1. CASE n + 1 \in S
    BY <2>1
  <2>2. CASE n + 1 \notin S
    <3>1. \A i \in S : i <= n
      BY <2>2
    <3> QED
      BY <3>1
  <2> QED
    BY <2>1, <2>2
<1> HIDE DEF D
<1>3. m \in D
  BY <1>1, <1>2, Induction
<1>4. QED
  BY <1>3 DEF D

Recurs(f, first, step) == f[0] = first /\ \A n \in Nat : f[n + 1] = step[<<f[n], n>>]

\* A function on the naturals may be defined by its first value and a step.
LEMMA Recursion ==
  ASSUME NEW V, NEW first \in V, NEW step \in [V \X Nat -> V]
  PROVE  \E f \in [Nat -> V] : Recurs(f, first, step)
<1> DEFINE Upto(g, n) == /\ g \in [0 .. n -> V]
                         /\ g[0] = first
                         /\ \A i \in 0 .. n - 1 : g[i + 1] = step[<<g[i], i>>]
           D == {n \in Nat : \E g : Upto(g, n)}
           fn(n) == CHOOSE g : Upto(g, n)
           f == [n \in Nat |-> fn(n)[n]]
<1>1. \A n \in Nat : \E g : Upto(g, n)
  <2>1. 0 \in D
    <3>1. Upto([i \in 0 .. 0 |-> first], 0)
      OBVIOUS
    <3> QED
      BY <3>1
  <2>2. \A n \in Nat : n \in D => n + 1 \in D
    <3> SUFFICES ASSUME NEW n \in Nat, n \in D PROVE \E g : Upto(g, n + 1)
      OBVIOUS
    <3>1. PICK g : Upto(g, n)
      OBVIOUS
    <3> DEFINE h == [i \in 0 .. n + 1 |-> IF i = n + 1 THEN step[<<g[n], n>>] ELSE g[i]]
    <3>2. g[n] \in V
      BY <3>1
    <3>3. step[<<g[n], n>>] \in V
      BY <3>2
    <3>4. h \in [0 .. n + 1 -> V]
      BY <3>1, <3>3
    <3>5. h[0] = first
      BY <3>1
    <3>6. \A i \in 0 .. (n + 1) - 1 : h[i + 1] = step[<<h[i], i>>]
      <4> HIDE DEF h
      <4> SUFFICES ASSUME NEW i \in 0 .. n PROVE h[i + 1] = step[<<h[i], i>>]
        <5>1. (n + 1) - 1 = n
          OBVIOUS
        <5> QED
          BY <5>1
      <4> USE DEF h
      <4>1. h[i] = g[i] /\ i + 1 \in 0 .. n + 1
        OBVIOUS
      <4>2. CASE i = n
        BY <4>1, <4>2
      <4>3. CASE i # n
        <5>1. i \in 0 .. n - 1
          BY <4>3
        <5>2. h[i + 1] = g[i + 1]
          BY <5>1
        <5> QED
          BY <3>1, <4>1, <5>1, <5>2
      <4> QED
        BY <4>2, <4>3
    <3>7. Upto(h, n + 1)
      BY <3>4, <3>5, <3>6
    <3> QED
      BY <3>7
  <2> HIDE DEF D
  <2>3. Nat \subseteq D
    BY <2>1, <2>2, Induction
  <2> QED
    BY <2>3 DEF D
<1>2. ASSUME NEW n \in Nat, NEW g, NEW h, Upto(g, n), Upto(h, n + 1)
      PROVE  g[n] = h[n]
  <2> DEFINE E == {i \in Nat : i <= n => g[i] = h[i]}
  <2>1. 0 \in E
    BY <1>2
  <2>2. \A i \in Nat : i \in E => i + 1 \in E
    <3> SUFFICES ASSUME NEW i \in Nat, i \in E, i + 1 <= n PROVE g[i + 1] = h[i + 1]
      OBVIOUS
    <3>1. i \in 0 .. n - 1 /\ i \in 0 .. (n + 1) - 1 /\ g[i] = h[i]
      OBVIOUS
    <3> QED
      BY <1>2, <3>1
  <2> HIDE DEF E, Upto
  <2>3. n \in E
    BY <2>1, <2>2, Induction
  <2> QED
    BY <2>3 DEF E
<1> HIDE DEF Upto
<1>3. \A n \in Nat : Upto(fn(n), n)
  BY <1>1
<1>4. f \in [Nat -> V]
  <2> SUFFICES ASSUME NEW n \in Nat PROVE fn(n)[n] \in V
    OBVIOUS
  <2> QED
    BY <1>3 DEF Upto
<1>5. f[0] = first
  BY <1>3 DEF Upto
<1>6. ASSUME NEW n \in Nat PROVE f[n + 1] = step[<<f[n], n>>]
  <2>1. Upto(fn(n), n) /\ Upto(fn(n + 1), n + 1)
    BY <1>3
  <2>2. fn(n)[n] = fn(n + 1)[n]
    BY <1>2, <2>1
  <2>3. \A g : Upto(g, n + 1) => g[n + 1] = step[<<g[n], n>>]
    <3>1. n \in 0 .. (n + 1) - 1
      OBVIOUS
    <3> QED
      BY <3>1 DEF Upto
  <2>4. fn(n + 1)[n + 1] = step[<<fn(n + 1)[n], n>>]
    BY <2>1, <2>3
  <2> QED
    BY <2>2, <2>4
<1> HIDE DEF f
<1>7. Recurs(f, first, step)
  BY <1>5, <1>6 DEF Recurs
<1>8. QED
  BY <1>4, <1>7

-----------------------------------------------------------------------------
(***************************************************************************)
(* Sums.  SumFunctionOnSet of the community modules adds the values of a    *)
(* function over a finite set in an order that CHOOSE settles; the sum does *)
(* not depend on it.                                                        *)
(***************************************************************************)
pick(s) == CHOOSE x \in s : TRUE

Iterates(f, S, iter) ==
  iter = [s \in SUBSET S |-> IF s = {} THEN 0 ELSE f[pick(s)] + iter[s \ {pick(s)}]]

\* What a finite set has when it has it without any one of its elements, all of
\* its subsets have.
LEMMA SubsetInduction ==
  ASSUME NEW S, IsFiniteSet(S), NEW P,
         \A s \in SUBSET S : (\A x \in s : s \ {x} \in P) => s \in P
  PROVE  \A s \in SUBSET S : s \in P
<1> DEFINE D == {n \in Nat : \A s \in SUBSET S : Cardinality(s) = n => s \in P}
<1>1. \A s \in SUBSET S : IsFiniteSet(s) /\ Cardinality(s) \in Nat
  BY FS_Subset, FS_CardinalityType
<1>2. 0 \in D
  <2> SUFFICES ASSUME NEW s \in SUBSET S, Cardinality(s) = 0 PROVE s \in P
    OBVIOUS
  <2>1. s = {}
    BY <1>1, FS_EmptySet
  <2> QED
    BY <2>1
<1>3. \A n \in Nat : n \in D => n + 1 \in D
  <2> SUFFICES ASSUME NEW n \in Nat, n \in D, NEW s \in SUBSET S, Cardinality(s) = n + 1
               PROVE  s \in P
    OBVIOUS
  <2>1. ASSUME NEW x \in s PROVE s \ {x} \in P
    <3>1. Cardinality(s \ {x}) = Cardinality(s) - 1
      BY <1>1, FS_RemoveElement
    <3>2. s \ {x} \in SUBSET S /\ Cardinality(s \ {x}) = n
      BY <3>1
    <3> QED
      BY <3>2
  <2> QED
    BY <2>1
<1> HIDE DEF D
<1>4. Nat \subseteq D
  BY <1>2, <1>3, Induction
<1> QED
  BY <1>1, <1>4 DEF D

\* Over a finite set there is such an iteration.
LEMMA Iteration ==
  ASSUME NEW S, IsFiniteSet(S), NEW f, \A x \in S : f[x] \in Int
  PROVE  \E iter \in [SUBSET S -> Int] : Iterates(f, S, iter)
<1> DEFINE V == [SUBSET S -> Int]
           add(g) == [s \in SUBSET S |-> IF s = {} THEN 0 ELSE f[pick(s)] + g[s \ {pick(s)}]]
           step == [p \in V \X Nat |-> add(p[1])]
           first == [s \in SUBSET S |-> 0]
<1>0. \A s \in SUBSET S : s # {} => pick(s) \in s /\ pick(s) \in S
  BY DEF pick
<1>1. \A g \in V : add(g) \in V
  <2> SUFFICES ASSUME NEW g \in V, NEW s \in SUBSET S, s # {}
               PROVE  f[pick(s)] + g[s \ {pick(s)}] \in Int
    OBVIOUS
  <2>1. s \ {pick(s)} \in SUBSET S
    OBVIOUS
  <2>2. g[s \ {pick(s)}] \in Int /\ f[pick(s)] \in Int
    BY <1>0, <2>1
  <2> QED
    BY <2>2
<1>2. first \in V
  OBVIOUS
<1>3. step \in [V \X Nat -> V]
  <2> HIDE DEF V, add
  <2> QED
    BY <1>1
<1>4. PICK F \in [Nat -> V] : Recurs(F, first, step)
  <2> HIDE DEF V, step, first, add
  <2> QED
    BY <1>2, <1>3, Recursion
<1>5. \A n \in Nat : F[n] \in V /\ F[n + 1] = add(F[n])
  <2> HIDE DEF V, add, first
  <2> QED
    BY <1>4 DEF Recurs
<1> DEFINE iter == [s \in SUBSET S |-> F[Cardinality(s)][s]]
<1>6. \A s \in SUBSET S : IsFiniteSet(s) /\ Cardinality(s) \in Nat
  BY FS_Subset, FS_CardinalityType
<1>7. iter \in [SUBSET S -> Int]
  BY <1>5, <1>6
<1>8. ASSUME NEW s \in SUBSET S, s # {}
      PROVE  iter[s] = f[pick(s)] + iter[s \ {pick(s)}]
  <2> DEFINE r == s \ {pick(s)}
  <2>1. Cardinality(r) \in Nat /\ Cardinality(s) = Cardinality(r) + 1
    <3>1. Cardinality(r) = Cardinality(s) - 1
      BY <1>0, <1>6, <1>8, FS_RemoveElement
    <3>2. r \in SUBSET S
      OBVIOUS
    <3> HIDE DEF r
    <3> QED
      BY <1>6, <3>1, <3>2
  <2>2. F[Cardinality(s)] = add(F[Cardinality(r)])
    BY <1>5, <2>1
  <2>3. F[Cardinality(s)][s] = f[pick(s)] + F[Cardinality(r)][r]
    BY <1>8, <2>2
  <2> QED
    BY <2>3
<1>9. iter[{}] = 0
  BY <1>4, FS_EmptySet DEF Recurs
<1>10. \A s \in SUBSET S : iter[s] = IF s = {} THEN 0 ELSE f[pick(s)] + iter[s \ {pick(s)}]
  BY <1>8, <1>9
<1> HIDE DEF iter
<1>11. Iterates(f, S, iter)
  BY <1>7, <1>10 DEF Iterates
<1> QED
  BY <1>7, <1>11

\* There is only one, and on a smaller set it takes the same values.
LEMMA IterationUnique ==
  ASSUME NEW S, IsFiniteSet(S), NEW f, NEW T, NEW R, S \subseteq T, S \subseteq R,
         NEW a, NEW b, Iterates(f, T, a), Iterates(f, R, b)
  PROVE  \A s \in SUBSET S : a[s] = b[s]
<1> DEFINE P == {s \in SUBSET S : a[s] = b[s]}
           A(s) == IF s = {} THEN 0 ELSE f[pick(s)] + a[s \ {pick(s)}]
           B(s) == IF s = {} THEN 0 ELSE f[pick(s)] + b[s \ {pick(s)}]
<1>1. \A s \in SUBSET S : a[s] = A(s) /\ b[s] = B(s)
  <2>1. a = [s \in SUBSET T |-> A(s)] /\ b = [s \in SUBSET R |-> B(s)]
    BY DEF Iterates
  <2>2. \A s \in SUBSET S : s \in SUBSET T /\ s \in SUBSET R
    OBVIOUS
  <2> HIDE DEF A, B
  <2> QED
    BY <2>1, <2>2
<1>2. \A s \in SUBSET S : s # {} => pick(s) \in s
  BY DEF pick
<1>3. \A s \in SUBSET S : (\A x \in s : s \ {x} \in P) => s \in P
  <2> SUFFICES ASSUME NEW s \in SUBSET S, \A x \in s : s \ {x} \in P PROVE a[s] = b[s]
    OBVIOUS
  <2>1. CASE s = {}
    BY <1>1, <2>1
  <2>2. CASE s # {}
    <3>1. a[s \ {pick(s)}] = b[s \ {pick(s)}]
      BY <1>2, <2>2
    <3> QED
      BY <1>1, <3>1
  <2> QED
    BY <2>1, <2>2
<1> HIDE DEF P
<1>4. \A s \in SUBSET S : s \in P
  BY <1>3, SubsetInduction
<1> QED
  BY <1>4 DEF P

Adds(f, S, iter) ==
  iter \in [SUBSET S -> Int] /\ Iterates(f, S, iter)
  /\ \A s \in SUBSET S : SumFunctionOnSet(f, s) = iter[s]

\* The sum is the last value of an iteration over any order of the set.
LEMMA SumIs ==
  ASSUME NEW S, IsFiniteSet(S), NEW f, \A x \in S : f[x] \in Int
  PROVE  \E iter : Adds(f, S, iter)
<1>1. PICK one \in [SUBSET S -> Int] : Iterates(f, S, one)
  BY Iteration
<1>2. ASSUME NEW s \in SUBSET S PROVE SumFunctionOnSet(f, s) = one[s]
  <2> DEFINE sum == CHOOSE iter : Iterates(f, s, iter)
  <2>0. IsFiniteSet(s)
    BY FS_Subset
  <2>1. \E iter \in [SUBSET s -> Int] : Iterates(f, s, iter)
    BY <2>0, Iteration
  <2>2. Iterates(f, s, sum)
    BY <2>1
  <2>3. SumFunctionOnSet(f, s) = sum[s]
    BY DEF SumFunctionOnSet, FoldFunctionOnSet, MapThenFoldSet, Iterates, pick
  <2> HIDE DEF sum
  <2>4. \A r \in SUBSET s : sum[r] = one[r]
    BY <1>1, <2>0, <2>2, IterationUnique
  <2> QED
    BY <2>3, <2>4
<1>3. \A s \in SUBSET S : SumFunctionOnSet(f, s) = one[s]
  BY <1>2
<1>4. Adds(f, S, one)
  BY <1>1, <1>3 DEF Adds
<1> QED
  BY <1>4

\* A sum over a finite set is a number, nothing adds up to 0, and any element
\* may be added last.
LEMMA SumLaws ==
  ASSUME NEW S, IsFiniteSet(S), NEW f, \A x \in S : f[x] \in Int
  PROVE  /\ SumFunctionOnSet(f, S) \in Int
         /\ SumFunctionOnSet(f, {}) = 0
         /\ \A x \in S : /\ SumFunctionOnSet(f, S \ {x}) \in Int
                         /\ SumFunctionOnSet(f, S) = f[x] + SumFunctionOnSet(f, S \ {x})
<1>0. PICK iter : Adds(f, S, iter)
  BY SumIs
<1>1. /\ iter \in [SUBSET S -> Int] /\ Iterates(f, S, iter)
      /\ \A s \in SUBSET S : SumFunctionOnSet(f, s) = iter[s]
  BY <1>0 DEF Adds
<1> DEFINE P == {s \in SUBSET S : \A x \in s : iter[s] = f[x] + iter[s \ {x}]}
<1>2. \A s \in SUBSET S : s # {} => pick(s) \in s /\ iter[s] = f[pick(s)] + iter[s \ {pick(s)}]
  <2> DEFINE I(s) == IF s = {} THEN 0 ELSE f[pick(s)] + iter[s \ {pick(s)}]
  <2>1. iter = [s \in SUBSET S |-> I(s)]
    BY <1>1 DEF Iterates
  <2>2. \A s \in SUBSET S : iter[s] = I(s)
    <3> HIDE DEF I
    <3> QED
      BY <2>1
  <2> QED
    BY <2>2 DEF pick
<1>3. iter[{}] = 0
  <2> DEFINE I(s) == IF s = {} THEN 0 ELSE f[pick(s)] + iter[s \ {pick(s)}]
  <2>1. iter = [s \in SUBSET S |-> I(s)]
    BY <1>1 DEF Iterates
  <2>2. iter[{}] = I({})
    <3> HIDE DEF I
    <3> QED
      BY <2>1
  <2> QED
    BY <2>2
<1>4. \A s \in SUBSET S : (\A x \in s : s \ {x} \in P) => s \in P
  <2> SUFFICES ASSUME NEW s \in SUBSET S, \A x \in s : s \ {x} \in P, NEW x \in s
               PROVE  iter[s] = f[x] + iter[s \ {x}]
    OBVIOUS
  <2> DEFINE p == pick(s)
             both == (s \ {p}) \ {x}
  <2>1. p \in s /\ iter[s] = f[p] + iter[s \ {p}]
    BY <1>2
  <2>2. CASE x = p
    BY <2>1, <2>2
  <2>3. CASE x # p
    <3>1. iter[s \ {p}] = f[x] + iter[both]
      BY <2>1, <2>3
    <3>2. iter[s \ {x}] = f[p] + iter[(s \ {x}) \ {p}]
      BY <2>1, <2>3
    <3>3. (s \ {x}) \ {p} = both
      OBVIOUS
    <3>4. f[x] \in Int /\ f[p] \in Int /\ iter[both] \in Int
      <4>1. both \in SUBSET S
        OBVIOUS
      <4> QED
        BY <1>1, <2>1, <4>1
    <3>5. iter[s \ {x}] = f[p] + iter[both]
      BY <3>2, <3>3
    <3> HIDE DEF p, both
    <3> QED
      BY <2>1, <3>1, <3>5, <3>4
  <2> QED
    BY <2>2, <2>3
<1> HIDE DEF P
<1>5. \A s \in SUBSET S : s \in P
  BY <1>4, SubsetInduction
<1>6. \A x \in S : S \ {x} \in SUBSET S
  OBVIOUS
<1>7. \A x \in S : iter[S] = f[x] + iter[S \ {x}]
  BY <1>5 DEF P
<1> QED
  BY <1>1, <1>3, <1>6, <1>7

\* Functions that agree on a set have the same sum over it.
LEMMA SumAgrees ==
  ASSUME NEW S, IsFiniteSet(S), NEW f, \A x \in S : f[x] \in Int,
         NEW g, \A x \in S : g[x] = f[x]
  PROVE  SumFunctionOnSet(g, S) = SumFunctionOnSet(f, S)
<1> DEFINE P == {s \in SUBSET S : SumFunctionOnSet(g, s) = SumFunctionOnSet(f, s)}
<1>1. \A s \in SUBSET S : (\A x \in s : s \ {x} \in P) => s \in P
  <2> SUFFICES ASSUME NEW s \in SUBSET S, \A x \in s : s \ {x} \in P
               PROVE  SumFunctionOnSet(g, s) = SumFunctionOnSet(f, s)
    OBVIOUS
  <2>1. IsFiniteSet(s) /\ \A x \in s : f[x] \in Int /\ g[x] \in Int /\ g[x] = f[x]
    BY FS_Subset
  <2>2. CASE s = {}
    BY <2>1, <2>2, SumLaws
  <2>3. CASE s # {}
    <3>1. PICK x \in s : TRUE
      BY <2>3
    <3>2. SumFunctionOnSet(f, s) = f[x] + SumFunctionOnSet(f, s \ {x})
      BY <2>1, SumLaws
    <3>3. SumFunctionOnSet(g, s) = g[x] + SumFunctionOnSet(g, s \ {x})
      BY <2>1, SumLaws
    <3>4. SumFunctionOnSet(g, s \ {x}) = SumFunctionOnSet(f, s \ {x})
      OBVIOUS
    <3> QED
      BY <2>1, <3>2, <3>3, <3>4
  <2> QED
    BY <2>2, <2>3
<1> HIDE DEF P
<1>2. \A s \in SUBSET S : s \in P
  BY <1>1, SubsetInduction
<1> QED
  BY <1>2 DEF P

\* A change at one element changes the sum by as much.
LEMMA SumChanges ==
  ASSUME NEW S, IsFiniteSet(S), NEW f, \A x \in S : f[x] \in Int,
         NEW g, NEW e \in S, g[e] \in Int, \A x \in S : x # e => g[x] = f[x]
  PROVE  SumFunctionOnSet(g, S) = SumFunctionOnSet(f, S) - f[e] + g[e]
<1>1. SumFunctionOnSet(g, S \ {e}) = SumFunctionOnSet(f, S \ {e})
  <2>1. IsFiniteSet(S \ {e})
    BY FS_RemoveElement
  <2>2. \A x \in S \ {e} : f[x] \in Int /\ g[x] = f[x]
    OBVIOUS
  <2> QED
    BY <2>1, <2>2, SumAgrees
<1>2. \A x \in S : g[x] \in Int
  OBVIOUS
<1>3. SumFunctionOnSet(g, S) = g[e] + SumFunctionOnSet(g, S \ {e})
  BY <1>2, SumLaws
<1>4. /\ SumFunctionOnSet(f, S) = f[e] + SumFunctionOnSet(f, S \ {e})
      /\ SumFunctionOnSet(f, S \ {e}) \in Int /\ f[e] \in Int
  BY SumLaws
<1> QED
  BY <1>1, <1>3, <1>4

\* Zeros add up to 0.
LEMMA SumOfZeros ==
  ASSUME NEW S, IsFiniteSet(S), NEW f, \A x \in S : f[x] = 0
  PROVE  SumFunctionOnSet(f, S) = 0
<1> DEFINE P == {s \in SUBSET S : SumFunctionOnSet(f, s) = 0}
<1>1. \A s \in SUBSET S : (\A x \in s : s \ {x} \in P) => s \in P
  <2> SUFFICES ASSUME NEW s \in SUBSET S, \A x \in s : s \ {x} \in P
               PROVE  SumFunctionOnSet(f, s) = 0
    OBVIOUS
  <2>1. IsFiniteSet(s) /\ \A x \in s : f[x] \in Int
    BY FS_Subset
  <2>2. CASE s = {}
    BY <2>1, <2>2, SumLaws
  <2>3. CASE s # {}
    <3>1. PICK x \in s : TRUE
      BY <2>3
    <3>2. SumFunctionOnSet(f, s) = f[x] + SumFunctionOnSet(f, s \ {x})
      BY <2>1, SumLaws
    <3> QED
      BY <3>2
  <2> QED
    BY <2>2, <2>3
<1> HIDE DEF P
<1>2. \A s \in SUBSET S : s \in P
  BY <1>1, SubsetInduction
<1> QED
  BY <1>2 DEF P
=============================================================================
