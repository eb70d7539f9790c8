------------------------------ MODULE CsrProofs ------------------------------
(***************************************************************************)
(* The builder of the CSR baseline gives every edge a cell of its own, in   *)
(* the run of its source, and the pool all the edges or none: for any edge  *)
(* list, any number of threads, any size of a block and any interleaving of *)
(* the shared cursors.                                                      *)
(***************************************************************************)
EXTENDS Csr, Induction

-----------------------------------------------------------------------------
(***************************************************************************)
(* The inductive invariant.                                                 *)
(***************************************************************************)
Phases == {"count", "sums", "prefix", "copy", "built", "reopened"}

\* The edges with source u, among those of positions P.
From(P, u) == {x \in P : EdgeAt(x).u = u}

\* What a thread has dealt with in this loop, and the edge it deals with now.
Finished(t) == Len(share[t]) - Len(todo[t])
Current(t) == <<t, Finished(t) + 1>>
Done == {x \in Positions : x[2] <= Finished(x[1])}
Taken == Done \cup {Current(t) : t \in {s \in Threads : slot[s] # None}}

\* The first vertex of a block, or the end of the last one.
Bound(b) == IF b * block_size < num_nodes THEN b * block_size ELSE num_nodes

CsrTypeOK ==
  /\ share \in Shares
  /\ phase \in Phases
  /\ todo \in [Threads -> Seq(Edges)] /\ slot \in [Threads -> Int]
  /\ work \in SUBSET Blocks
  /\ degrees \in [Nodes -> Int]
  /\ local_sums \in [Blocks -> Int] /\ bulk_prefix \in [Blocks -> Int]
  /\ offsets \in [0 .. num_nodes -> Int]

\* A thread has the end of its share still to do.
Rests ==
  \A t \in Threads :
    /\ Len(todo[t]) <= Len(share[t])
    /\ \A k \in 1 .. Len(todo[t]) : todo[t][k] = share[t][Finished(t) + k]

Counting ==
  /\ Rests /\ \A t \in Threads : slot[t] = None
  /\ \A u \in Nodes : degrees[u] = Cardinality(From(Done, u))

Counted == \A u \in Nodes : degrees[u] = Cardinality(From(Positions, u))

Summed(B) == \A b \in B : local_sums[b] = Before(Bound(b + 1)) - Before(Bound(b))

Summing == Counted /\ Summed(Blocks \ work) /\ \A t \in Threads : slot[t] = None

Prefixing ==
  /\ Counted /\ Summed(Blocks) /\ \A t \in Threads : slot[t] = None
  /\ \A b \in Blocks : bulk_prefix[b] = Before(Bound(b))
  /\ \A b \in Blocks \ work : \A u \in BlockNodes(b) : offsets[u] = Before(u)

\* C[x] is the cell that edge x has got.
Cells(C) ==
  /\ DOMAIN C = Taken
  /\ \A x \in Taken : /\ C[x] \in Nat /\ Before(EdgeAt(x).u) <= C[x]
                      /\ C[x] < offsets[EdgeAt(x).u]
  /\ \A x, y \in Taken : C[x] = C[y] => x = y
  /\ \A t \in Threads : slot[t] # None => slot[t] = C[Current(t)]
  /\ \A x \in Done : neighs[C[x]] = EdgeAt(x).v
  /\ \A i \in DOMAIN neighs : (\A x \in Done : C[x] # i) => neighs[i] = None

Copying ==
  /\ Rests /\ \A t \in Threads : slot[t] # None => todo[t] # <<>>
  /\ index = [u \in 0 .. num_nodes |-> Before(u)]
  /\ DOMAIN neighs = 0 .. Cardinality(Positions) - 1
  /\ \A u \in Nodes : offsets[u] = Before(u) + Cardinality(From(Taken, u))
  /\ \E C : Cells(C)

CsrInv ==
  /\ CsrTypeOK
  /\ phase = "count" => Counting
  /\ phase = "sums" => Summing
  /\ phase = "prefix" => Prefixing
  /\ phase = "copy" => Copying
  /\ PoolWhole

-----------------------------------------------------------------------------
(***************************************************************************)
(* Counting the edges of the list.                                          *)
(***************************************************************************)
\* What a position of the list is.
LEMMA PositionsAre ==
  ASSUME share \in Shares
  PROVE  /\ share \in [Threads -> Seq(Edges)] /\ IsFiniteSet(Positions)
         /\ \A x \in Positions : /\ x[1] \in Threads /\ x[2] \in 1 .. Len(share[x[1]])
                                 /\ x = <<x[1], x[2]>> /\ EdgeAt(x) = share[x[1]][x[2]]
                                 /\ EdgeAt(x) \in Edges
                                 /\ EdgeAt(x).u \in Nodes /\ EdgeAt(x).v \in Nodes
         /\ \A t \in Threads : \A i \in 1 .. Len(share[t]) : <<t, i>> \in Positions
<1>1. share \in [Threads -> Seq(Edges)] /\ IsFiniteSet(Threads)
  BY CsrAssumption
<1>2. \A t \in Threads : DOMAIN share[t] = 1 .. Len(share[t]) /\ Len(share[t]) \in Nat
  BY <1>1
<1>3. IsFiniteSet(Positions)
  <2> DEFINE P == [s \in SUBSET Threads |-> UNION {{t} \X DOMAIN share[t] : t \in s}]
             F == {s \in SUBSET Threads : IsFiniteSet(P[s])}
  <2>1. \A s \in SUBSET Threads : (\A t \in s : s \ {t} \in F) => s \in F
    <3> SUFFICES ASSUME NEW s \in SUBSET Threads, \A t \in s : s \ {t} \in F
                 PROVE  IsFiniteSet(P[s])
      OBVIOUS
    <3>1. CASE s = {}
      <4>1. P[s] = {}
        BY <3>1
      <4> QED
        BY <4>1, FS_EmptySet
    <3>2. ASSUME NEW t \in s PROVE IsFiniteSet(P[s])
      <4>1. IsFiniteSet(P[s \ {t}])
        OBVIOUS
      <4>2. P[s] = P[s \ {t}] \cup ({t} \X DOMAIN share[t])
        <5>1. s \ {t} \in SUBSET Threads
          OBVIOUS
        <5>2. P[s] = UNION {{r} \X DOMAIN share[r] : r \in s}
          OBVIOUS
        <5>3. P[s \ {t}] = UNION {{r} \X DOMAIN share[r] : r \in s \ {t}}
          BY <5>1
        <5> QED
          BY <5>2, <5>3
      <4>3. IsFiniteSet({t} \X DOMAIN share[t])
        <5>1. IsFiniteSet(DOMAIN share[t])
          BY <1>2, FS_Interval, 1 \in Int, Len(share[t]) \in Int
        <5>2. [x \in {t} \X DOMAIN share[t] |-> x[2]] \in Injection({t} \X DOMAIN share[t], DOMAIN share[t])
          BY DEF Injection, IsInjective
        <5> QED
          BY <5>1, <5>2, FS_Injection
      <4> DEFINE A == P[s \ {t}]
                 C == {t} \X DOMAIN share[t]
      <4>4. IsFiniteSet(A) /\ IsFiniteSet(C) /\ P[s] = A \cup C
        BY <4>1, <4>2, <4>3
      <4> HIDE DEF A, C, P
      <4>5. IsFiniteSet(A \cup C)
        BY <4>4, FS_Union
      <4> QED
        BY <4>4, <4>5
    <3> QED
      BY <3>1, <3>2
  <2>2. Threads \in F
    <3> HIDE DEF F
    <3> QED
      BY <1>1, <2>1, SubsetInduction
  <2> QED
    BY <2>2 DEF Positions
<1>4. ASSUME NEW x \in Positions
      PROVE  /\ x[1] \in Threads /\ x[2] \in 1 .. Len(share[x[1]]) /\ x = <<x[1], x[2]>>
             /\ EdgeAt(x) = share[x[1]][x[2]] /\ EdgeAt(x) \in Edges
             /\ EdgeAt(x).u \in Nodes /\ EdgeAt(x).v \in Nodes
  <2>1. PICK t \in Threads : x \in {t} \X DOMAIN share[t]
    BY DEF Positions
  <2>2. x[1] = t /\ x[2] \in 1 .. Len(share[t]) /\ x = <<x[1], x[2]>>
    BY <1>2, <2>1
  <2>3. share[x[1]][x[2]] \in Edges
    BY <1>1, <2>2
  <2> QED
    BY <2>2, <2>3 DEF EdgeAt, Edges
<1>5. ASSUME NEW t \in Threads, NEW i \in 1 .. Len(share[t]) PROVE <<t, i>> \in Positions
  BY <1>2 DEF Positions
<1> QED
  BY <1>1, <1>3, <1>4, <1>5

\* A part of the edges of a vertex is no more than all of them.
LEMMA FromCounts ==
  ASSUME share \in Shares, NEW P \in SUBSET Positions, NEW u
  PROVE  /\ From(P, u) \subseteq From(Positions, u) /\ From(P, u) \subseteq P
         /\ IsFiniteSet(From(P, u)) /\ Cardinality(From(P, u)) \in Nat
         /\ Cardinality(From(P, u)) <= Cardinality(From(Positions, u))
         /\ Cardinality(From(Positions, u)) \in Nat
<1>1. From(P, u) \subseteq From(Positions, u) /\ From(P, u) \subseteq P
  BY DEF From
<1>2. IsFiniteSet(From(Positions, u))
  <2>1. From(Positions, u) \in SUBSET Positions
    BY DEF From
  <2> QED
    BY <2>1, PositionsAre, FS_Subset
<1> QED
  BY <1>1, <1>2, FS_Subset, FS_CardinalityType

\* One more edge of a part counts for its source.
LEMMA FromAdd ==
  ASSUME share \in Shares, NEW P \in SUBSET Positions, NEW x \in Positions, x \notin P
  PROVE  /\ Cardinality(From(P \cup {x}, EdgeAt(x).u)) = Cardinality(From(P, EdgeAt(x).u)) + 1
         /\ \A u : u # EdgeAt(x).u => From(P \cup {x}, u) = From(P, u)
<1>1. From(P \cup {x}, EdgeAt(x).u) = From(P, EdgeAt(x).u) \cup {x} /\ x \notin From(P, EdgeAt(x).u)
  BY DEF From
<1>2. IsFiniteSet(From(P, EdgeAt(x).u))
  BY FromCounts
<1>3. \A u : u # EdgeAt(x).u => From(P \cup {x}, u) = From(P, u)
  BY DEF From
<1> QED
  BY <1>1, <1>2, <1>3, FS_AddElement, ZenonT(30)

\* Before is the prefix sum of the degrees.
LEMMA BeforeNext ==
  ASSUME share \in Shares
  PROVE  /\ Before(0) = 0 /\ Before(num_nodes) = Cardinality(Positions)
         /\ \A u \in Nat : /\ Before(u) \in Nat
                           /\ Before(u + 1) = Before(u) + Cardinality(From(Positions, u))
<1> DEFINE L(u) == {x \in Positions : EdgeAt(x).u < u}
<1>1. /\ IsFiniteSet(Positions)
      /\ \A x \in Positions : EdgeAt(x).u \in 0 .. num_nodes - 1
  BY PositionsAre DEF Nodes
<1>2. num_nodes \in Nat
  BY CsrAssumption
<1>3. \A u : Before(u) = Cardinality(L(u)) /\ IsFiniteSet(L(u)) /\ Before(u) \in Nat
  <2> SUFFICES ASSUME NEW u
               PROVE  Before(u) = Cardinality(L(u)) /\ IsFiniteSet(L(u)) /\ Before(u) \in Nat
    OBVIOUS
  <2>1. L(u) \in SUBSET Positions
    OBVIOUS
  <2>2. IsFiniteSet(L(u))
    BY <1>1, <2>1, FS_Subset
  <2> QED
    BY <2>2, FS_CardinalityType DEF Before
<1>4. L(0) = {} /\ L(num_nodes) = Positions
  BY <1>1, <1>2
<1>5. ASSUME NEW u \in Nat PROVE Before(u + 1) = Before(u) + Cardinality(From(Positions, u))
  <2>1. L(u + 1) = L(u) \cup From(Positions, u) /\ L(u) \cap From(Positions, u) = {}
    BY <1>1 DEF From
  <2>2. IsFiniteSet(From(Positions, u)) /\ Cardinality(From(Positions, u)) \in Nat
    BY FromCounts
  <2>3. Cardinality(L(u) \cup From(Positions, u))
          = Cardinality(L(u)) + Cardinality(From(Positions, u)) - Cardinality({})
    <3> HIDE DEF L
    <3> QED
      BY <1>3, <2>1, <2>2, FS_Union
  <2>4. Cardinality({}) = 0
    BY FS_EmptySet
  <2>5. /\ Before(u + 1) = Cardinality(L(u + 1)) /\ Before(u) = Cardinality(L(u))
        /\ Before(u) \in Nat
    BY <1>3
  <2>6. Cardinality(L(u + 1)) = Cardinality(L(u) \cup From(Positions, u))
    BY <2>1
  <2> HIDE DEF L
  <2> QED
    BY ONLY <2>2, <2>3, <2>4, <2>5, <2>6
<1>6. Before(0) = 0 /\ Before(num_nodes) = Cardinality(Positions)
  BY <1>3, <1>4, FS_EmptySet
<1> QED
  BY <1>3, <1>5, <1>6

\* Runs of later vertices come later.
LEMMA BeforeGrows ==
  ASSUME share \in Shares, NEW j \in Nat, NEW k \in Nat, j <= k
  PROVE  Before(j) <= Before(k)
<1> DEFINE D == {n \in Nat : Before(j) <= Before(j + n)}
<1>1. 0 \in D
  BY BeforeNext
<1>2. \A n \in Nat : n \in D => n + 1 \in D
  <2> SUFFICES ASSUME NEW n \in Nat, Before(j) <= Before(j + n)
               PROVE  Before(j) <= Before(j + (n + 1))
    OBVIOUS
  <2>1. j + n \in Nat /\ j + (n + 1) = (j + n) + 1
    OBVIOUS
  <2>2. /\ Before(j) \in Nat /\ Before(j + n) \in Nat
        /\ Before((j + n) + 1) = Before(j + n) + Cardinality(From(Positions, j + n))
    BY <2>1, BeforeNext
  <2>3. Cardinality(From(Positions, j + n)) \in Nat
    BY FromCounts
  <2> QED
    BY <2>1, <2>2, <2>3
<1>3. Nat \subseteq D
  <2> HIDE DEF D
  <2> QED
    BY <1>1, <1>2, Induction
<1>4. k - j \in Nat /\ j + (k - j) = k
  OBVIOUS
<1> QED
  BY <1>3, <1>4

-----------------------------------------------------------------------------
(***************************************************************************)
(* The prefix sum.                                                          *)
(***************************************************************************)
\* Each f[k], of k from a to m - 1, is what g grows by.
Differences(f, g, a, m) ==
  /\ \A k \in a .. m : g[k] \in Int
  /\ \A k \in a .. m - 1 : f[k] = g[k + 1] - g[k]

\* A sum of differences is a difference.
LEMMA SumTelescopes ==
  ASSUME NEW f, NEW g, NEW a \in Nat, NEW m \in Nat, a <= m, Differences(f, g, a, m),
         NEW S, S = a .. m - 1
  PROVE  SumFunctionOnSet(f, S) = g[m] - g[a]
<1> USE DEF Differences
<1> DEFINE R(n) == a .. a + n - 1
           D == {n \in Nat : a + n <= m => SumFunctionOnSet(f, R(n)) = g[a + n] - g[a]}
<1>0. ASSUME NEW n \in Nat, a + n <= m
      PROVE  IsFiniteSet(R(n)) /\ \A x \in R(n) : f[x] \in Int
  <2>1. a \in Int /\ a + n - 1 \in Int
    OBVIOUS
  <2>2. IsFiniteSet(R(n))
    BY <2>1, FS_Interval
  <2>3. ASSUME NEW x \in R(n) PROVE f[x] \in Int
    <3>1. x \in a .. m - 1 /\ x \in a .. m /\ x + 1 \in a .. m
      BY <1>0
    <3> QED
      BY <3>1
  <2> QED
    BY <2>2, <2>3
<1>1. 0 \in D
  <2>1. R(0) = {} /\ a + 0 = a /\ g[a] \in Int
    OBVIOUS
  <2>2. SumFunctionOnSet(f, {}) = 0
    BY SumOfZeros, FS_EmptySet
  <2> QED
    BY <2>1, <2>2
<1>2. \A n \in Nat : n \in D => n + 1 \in D
  <2> SUFFICES ASSUME NEW n \in Nat, n \in D, a + (n + 1) <= m
               PROVE  SumFunctionOnSet(f, R(n + 1)) = g[a + (n + 1)] - g[a]
    OBVIOUS
  <2>1. a + n <= m /\ n + 1 \in Nat
    OBVIOUS
  <2>2. SumFunctionOnSet(f, R(n)) = g[a + n] - g[a]
    BY <2>1
  <2>3. R(n + 1) \ {a + n} = R(n) /\ a + n \in R(n + 1)
    <3>1. \A x : x \in R(n + 1) <=> x \in Int /\ a <= x /\ x <= a + n
      OBVIOUS
    <3>2. \A x : x \in R(n) <=> x \in Int /\ a <= x /\ x <= a + n - 1
      OBVIOUS
    <3>3. a + n \in R(n + 1)
      OBVIOUS
    <3> HIDE DEF R
    <3> QED
      BY <3>1, <3>2, <3>3
  <2>4. IsFiniteSet(R(n + 1)) /\ \A x \in R(n + 1) : f[x] \in Int
    BY <1>0, <2>1
  <2>5. SumFunctionOnSet(f, R(n + 1)) = f[a + n] + SumFunctionOnSet(f, R(n))
    <3> HIDE DEF R
    <3> QED
      BY ONLY <2>3, <2>4, SumLaws
  <2>6. f[a + n] = g[(a + n) + 1] - g[a + n] /\ (a + n) + 1 = a + (n + 1)
    <3>1. a + n \in a .. m - 1
      BY <2>1
    <3> QED
      BY <3>1
  <2>7. g[a + n] \in Int /\ g[a] \in Int /\ g[a + (n + 1)] \in Int
    OBVIOUS
  <2> HIDE DEF R
  <2> QED
    BY <2>2, <2>5, <2>6, <2>7
<1>3. Nat \subseteq D
  <2> HIDE DEF D
  <2> QED
    BY <1>1, <1>2, Induction
<1>4. m - a \in Nat /\ a + (m - a) = m /\ R(m - a) = S
  OBVIOUS
<1>5. m - a \in D
  BY <1>3, <1>4
<1> QED
  BY <1>4, <1>5

\* A smaller number of blocks leaves room for one more.
LEMMA BlocksFit ==
  ASSUME NEW s \in Nat, NEW b \in Nat, NEW q \in Nat, b < q
  PROVE  b * s \in Nat /\ (b + 1) * s = b * s + s /\ b * s + s <= q * s
<1> DEFINE d == q - (b + 1)
<1>1. d \in Nat /\ q = (b + 1) + d
  OBVIOUS
<1> HIDE DEF d
<1>2. d * s \in Nat /\ b * s \in Nat /\ (b + 1) * s = b * s + s
  BY <1>1
<1>3. ((b + 1) + d) * s = (b + 1) * s + d * s
  BY <1>1
<1> QED
  BY <1>1, <1>2, <1>3

\* The blocks cut the vertices into runs.
LEMMA BlocksAre ==
  /\ num_blocks \in Nat /\ Bound(0) = 0 /\ Bound(num_blocks) = num_nodes
  /\ \A b \in 0 .. num_blocks : Bound(b) \in 0 .. num_nodes
  /\ \A b \in Blocks :
       /\ b \in Nat /\ b + 1 \in 0 .. num_blocks /\ b \in 0 .. num_blocks
       /\ Bound(b) = b * block_size /\ Bound(b) <= Bound(b + 1)
       /\ BlockNodes(b) = Bound(b) .. Bound(b + 1) - 1 /\ BlockNodes(b) \subseteq Nodes
  /\ \A u \in Nodes : \E b \in Blocks : u \in BlockNodes(b)
<1> DEFINE s == block_size
           n == num_nodes
           q == num_blocks
           r == (n + s - 1) % s
<1>1. s \in Nat /\ s > 0 /\ n \in Nat /\ n > 0
  BY CsrAssumption
<1>2. q \in Nat /\ r \in Nat /\ r < s /\ n + s - 1 = s * q + r
  <2>1. n + s - 1 \in Nat
    BY <1>1
  <2> QED
    BY <1>1, <2>1 DEF num_blocks
<1> HIDE DEF r
<1>3. s * q = q * s /\ q * s \in Nat
  BY <1>1, <1>2
<1>4. n <= q * s
  BY <1>1, <1>2, <1>3
<1>5. ASSUME NEW b \in Nat, b < q
      PROVE  b * s \in Nat /\ b * s < n /\ (b + 1) * s = b * s + s
  <2>1. b * s \in Nat /\ (b + 1) * s = b * s + s /\ b * s + s <= q * s
    BY <1>1, <1>2, <1>5, BlocksFit
  <2> QED
    BY <1>1, <1>2, <1>3, <2>1
<1>6. Bound(0) = 0 /\ Bound(q) = n
  <2>1. 0 * s = 0 /\ ~(q * s < n)
    BY <1>1, <1>3, <1>4
  <2> QED
    BY <1>1, <2>1 DEF Bound
<1>7. \A b \in 0 .. q : Bound(b) \in 0 .. n
  <2> SUFFICES ASSUME NEW b \in 0 .. q PROVE Bound(b) \in 0 .. n
    OBVIOUS
  <2>1. b \in Nat /\ (b < q \/ b = q)
    BY <1>2
  <2>2. CASE b < q
    BY <1>1, <1>5, <2>1, <2>2 DEF Bound
  <2>3. CASE b = q
    BY <1>1, <1>6, <2>3
  <2> QED
    BY <2>1, <2>2, <2>3
<1>8. ASSUME NEW b \in Blocks
      PROVE  /\ b \in Nat /\ b + 1 \in 0 .. q /\ b \in 0 .. q /\ b < q
             /\ Bound(b) = b * s /\ Bound(b) <= Bound(b + 1)
             /\ BlockNodes(b) = Bound(b) .. Bound(b + 1) - 1 /\ BlockNodes(b) \subseteq Nodes
  <2>1. b \in Nat /\ b < q /\ b + 1 \in 0 .. q /\ b \in 0 .. q
    BY <1>2 DEF Blocks
  <2>2. b * s \in Nat /\ b * s < n /\ (b + 1) * s = b * s + s
    BY <1>5, <2>1
  <2>3. Bound(b) = b * s
    BY <2>2 DEF Bound
  <2>4. Bound(b + 1) = block_end(b)
    BY DEF Bound, block_end
  <2>5. Bound(b + 1) \in 0 .. n
    BY <1>7, <2>1
  <2>6. Bound(b) <= Bound(b + 1)
    BY <1>1, <2>2, <2>3 DEF Bound
  <2>7. BlockNodes(b) = Bound(b) .. Bound(b + 1) - 1
    BY <2>3, <2>4 DEF BlockNodes
  <2>8. BlockNodes(b) \subseteq Nodes
    BY <1>1, <2>2, <2>3, <2>5, <2>7 DEF Nodes
  <2> QED
    BY <2>1, <2>3, <2>6, <2>7, <2>8
<1>9. ASSUME NEW u \in Nodes PROVE \E b \in Blocks : u \in BlockNodes(b)
  <2> DEFINE b == u \div s
             c == u % s
  <2>1. u \in Nat /\ u < n
    BY <1>1 DEF Nodes
  <2>2. b \in Nat /\ c \in Nat /\ c < s /\ u = s * b + c
    BY <1>1, <2>1
  <2> HIDE DEF b, c
  <2>3. s * b = b * s
    BY <1>1, <2>2
  <2>4. b < q
    <3> SUFFICES ASSUME q <= b PROVE FALSE
      BY <1>2, <2>2
    <3>1. q * s <= b * s
      <4>1. CASE q = b
        BY <1>3, <4>1
      <4>2. CASE q < b
        <5>1. q * s + s <= b * s /\ q * s \in Nat
          BY <1>1, <1>2, <2>2, <4>2, BlocksFit
        <5>2. b * s \in Nat
          BY <1>1, <2>2
        <5> QED
          BY <1>1, <5>1, <5>2
      <4> QED
        BY <1>2, <2>2, <4>1, <4>2
    <3>2. b * s \in Nat
      BY <1>1, <2>2
    <3> QED
      BY <1>1, <1>3, <1>4, <2>1, <2>2, <2>3, <3>1, <3>2
  <2>5. b \in Blocks
    BY <1>2, <2>2, <2>4 DEF Blocks
  <2>6. Bound(b) = b * s /\ b * s \in Nat /\ (b + 1) * s = b * s + s /\ b * s < n
    BY <1>5, <1>8, <2>2, <2>4, <2>5
  <2>7. Bound(b) <= u /\ u < Bound(b + 1)
    BY <1>1, <2>1, <2>2, <2>3, <2>6 DEF Bound
  <2>8. BlockNodes(b) = Bound(b) .. Bound(b + 1) - 1 /\ Bound(b + 1) \in 0 .. n
    BY <1>7, <1>8, <2>5
  <2> QED
    BY <1>1, <2>1, <2>5, <2>6, <2>7, <2>8
<1> QED
  BY <1>2, <1>6, <1>7, <1>8, <1>9

\* What a thread adds up in a block.
LEMMA BlockSums ==
  ASSUME share \in Shares, Counted, NEW b \in Blocks
  PROVE  /\ SumFunctionOnSet(degrees, BlockNodes(b)) = Before(Bound(b + 1)) - Before(Bound(b))
         /\ \A u \in BlockNodes(b) :
              SumFunctionOnSet(degrees, b * block_size .. u - 1) = Before(u) - Before(Bound(b))
<1> DEFINE g == [k \in Nat |-> Before(k)]
           a == Bound(b)
<1>1. /\ a \in Nat /\ Bound(b + 1) \in Nat /\ a <= Bound(b + 1) /\ b * block_size = a
      /\ BlockNodes(b) = a .. Bound(b + 1) - 1 /\ Bound(b + 1) <= num_nodes /\ num_nodes \in Nat
  BY BlocksAre, CsrAssumption
<1> HIDE DEF a
<1>2. ASSUME NEW m \in Nat, a <= m, m <= num_nodes
      PROVE  SumFunctionOnSet(degrees, a .. m - 1) = Before(m) - Before(a)
  <2>1. \A k \in a .. m : g[k] \in Int
    BY <1>1, BeforeNext
  <2>2. \A k \in a .. m - 1 : degrees[k] = g[k + 1] - g[k]
    <3> SUFFICES ASSUME NEW k \in a .. m - 1 PROVE degrees[k] = g[k + 1] - g[k]
      OBVIOUS
    <3>1. k \in Nat /\ k + 1 \in Nat /\ k \in Nodes
      BY <1>1, <1>2 DEF Nodes
    <3>2. degrees[k] = Cardinality(From(Positions, k)) /\ g[k] = Before(k) /\ g[k + 1] = Before(k + 1)
      BY <3>1 DEF Counted
    <3>3. Before(k + 1) = Before(k) + Cardinality(From(Positions, k)) /\ Before(k) \in Nat
      BY <3>1, BeforeNext
    <3>4. Cardinality(From(Positions, k)) \in Nat
      BY FromCounts
    <3> QED
      BY <3>2, <3>3, <3>4
  <2>3. g[m] = Before(m) /\ g[a] = Before(a)
    BY <1>1
  <2> HIDE DEF g
  <2>4. SumFunctionOnSet(degrees, a .. m - 1) = g[m] - g[a]
    <3>1. PICK G, F, A, S : G = g /\ F = degrees /\ A = a /\ S = a .. m - 1
      OBVIOUS
    <3>2. A \in Nat /\ m \in Nat /\ A <= m /\ Differences(F, G, A, m) /\ S = A .. m - 1
      BY <1>1, <1>2, <2>1, <2>2, <3>1 DEF Differences
    <3>3. SumFunctionOnSet(F, S) = G[m] - G[A]
      BY ONLY <3>2, SumTelescopes
    <3> QED
      BY <3>1, <3>3
  <2> QED
    BY <2>3, <2>4
<1>3. SumFunctionOnSet(degrees, BlockNodes(b)) = Before(Bound(b + 1)) - Before(a)
  BY <1>1, <1>2
<1>4. ASSUME NEW u \in BlockNodes(b)
      PROVE  SumFunctionOnSet(degrees, b * block_size .. u - 1) = Before(u) - Before(a)
  <2>1. u \in Nat /\ a <= u /\ u <= num_nodes
    BY <1>1
  <2> QED
    BY <1>1, <1>2, <2>1
<1> QED
  BY <1>3, <1>4 DEF a

\* The sums of the blocks add up.
LEMMA BulkSums ==
  ASSUME share \in Shares, Summed(Blocks), NEW b \in 0 .. num_blocks
  PROVE  SumFunctionOnSet(local_sums, 0 .. b - 1) = Before(Bound(b))
<1> DEFINE g == [k \in 0 .. num_blocks |-> Before(Bound(k))]
<1>1. b \in Nat /\ 0 \in Nat /\ 0 <= b /\ num_blocks \in Nat /\ b <= num_blocks
  BY BlocksAre
<1>2. \A k \in 0 .. num_blocks : Before(Bound(k)) \in Nat /\ g[k] = Before(Bound(k))
  <2>1. \A k \in 0 .. num_blocks : Bound(k) \in Nat
    BY BlocksAre, CsrAssumption
  <2>2. \A u \in Nat : Before(u) \in Nat
    BY BeforeNext
  <2> QED
    BY <2>1, <2>2
<1>3. \A k \in 0 .. b : g[k] \in Int
  BY <1>1, <1>2
<1>4. \A k \in 0 .. b - 1 : local_sums[k] = g[k + 1] - g[k]
  <2> SUFFICES ASSUME NEW k \in 0 .. b - 1 PROVE local_sums[k] = g[k + 1] - g[k]
    OBVIOUS
  <2>1. k \in Blocks /\ k \in 0 .. num_blocks /\ k + 1 \in 0 .. num_blocks
    BY <1>1 DEF Blocks
  <2> HIDE DEF g
  <2> QED
    BY <1>2, <2>1 DEF Summed
<1>5. g[b] = Before(Bound(b)) /\ g[0] = 0
  <2>1. Bound(0) = 0 /\ Before(0) = 0
    BY BlocksAre, BeforeNext
  <2> QED
    BY <1>1, <1>2, <2>1
<1>6. Before(Bound(b)) \in Nat
  BY <1>2
<1> HIDE DEF g
<1>7. SumFunctionOnSet(local_sums, 0 .. b - 1) = g[b] - g[0]
  <2>1. PICK G, F, S : G = g /\ F = local_sums /\ S = 0 .. b - 1
    OBVIOUS
  <2>2. 0 \in Nat /\ b \in Nat /\ 0 <= b /\ Differences(F, G, 0, b) /\ S = 0 .. b - 1
    BY <1>1, <1>3, <1>4, <2>1 DEF Differences
  <2>3. SumFunctionOnSet(F, S) = G[b] - G[0]
    BY ONLY <2>2, SumTelescopes
  <2> QED
    BY <2>1, <2>3
<1> QED
  BY <1>5, <1>6, <1>7

-----------------------------------------------------------------------------
(***************************************************************************)
(* Frames, and the next edge of a thread.                                   *)
(***************************************************************************)
\* The list is the same after a step.
LEMMA SameList ==
  ASSUME share' = share
  PROVE  /\ Positions' = Positions
         /\ \A x : EdgeAt(x)' = EdgeAt(x)
         /\ \A u : Before(u)' = Before(u)
         /\ \A P, u : From(P, u)' = From(P, u)
BY DEF Positions, EdgeAt, Before, From

\* A step that leaves the pool alone leaves it whole.
LEMMA SamePool ==
  ASSUME share' = share, pool' = pool, PoolWhole
  PROVE  PoolWhole'
BY DEF PoolWhole, Positions, EdgeAt, EdgesOf, out_neigh

\* The sums are right as long as what they are made of is.
LEMMA SameCounts ==
  ASSUME share' = share, degrees' = degrees, Counted
  PROVE  Counted'
<1>1. \A u : From(Positions, u)' = From(Positions, u)
  BY SameList DEF From
<1> QED
  BY <1>1 DEF Counted

LEMMA SameSums ==
  ASSUME share' = share, local_sums' = local_sums, NEW B, Summed(B)
  PROVE  Summed(B)'
BY SameList DEF Summed, Bound

\* The parts of a sequence that is not empty.
LEMMA SequenceParts ==
  ASSUME NEW S, NEW s \in Seq(S), s # <<>>
  PROVE  /\ Len(s) \in Nat \ {0} /\ Head(s) = s[1] /\ Head(s) \in S
         /\ Tail(s) \in Seq(S) /\ Len(Tail(s)) = Len(s) - 1
         /\ \A k \in 1 .. Len(s) - 1 : Tail(s)[k] = s[k + 1]
OBVIOUS

\* The next edge of a thread is not done.
LEMMA NextEdge ==
  ASSUME CsrTypeOK, Rests, NEW t \in Threads, todo[t] # <<>>
  PROVE  /\ Current(t) \in Positions /\ Current(t) \notin Done
         /\ EdgeAt(Current(t)) = Head(todo[t])
         /\ Finished(t) \in Nat /\ Len(todo[t]) \in Nat \ {0}
<1>1. share[t] \in Seq(Edges) /\ todo[t] \in Seq(Edges)
  BY PositionsAre DEF CsrTypeOK
<1>2. Len(todo[t]) \in Nat \ {0} /\ Len(share[t]) \in Nat /\ Len(todo[t]) <= Len(share[t])
  <2>1. Len(todo[t]) \in Nat \ {0}
    BY <1>1, SequenceParts
  <2>2. Len(share[t]) \in Nat /\ Len(todo[t]) <= Len(share[t])
    BY <1>1 DEF Rests
  <2> QED
    BY <2>1, <2>2
<1>3. Finished(t) \in Nat /\ Finished(t) + 1 \in 1 .. Len(share[t])
  <2>1. PICK a, b : a = Len(share[t]) /\ b = Len(todo[t])
    OBVIOUS
  <2>2. a \in Nat /\ b \in Nat \ {0} /\ b <= a
    BY <1>2, <2>1, Zenon
  <2>3. a - b \in Nat /\ a - b + 1 \in 1 .. a
    BY ONLY <2>2
  <2> QED
    BY <2>1, <2>3, Zenon DEF Finished
<1>4. todo[t][1] = share[t][Finished(t) + 1] /\ Head(todo[t]) = todo[t][1]
  BY <1>1, <1>2, SequenceParts DEF Rests
<1>5. Current(t) \in Positions
  BY <1>3, PositionsAre DEF CsrTypeOK, Current
<1>6. EdgeAt(Current(t)) = Head(todo[t])
  BY <1>4 DEF EdgeAt, Current
<1>7. Current(t) \notin Done
  BY <1>3 DEF Done, Current
<1> QED
  BY <1>2, <1>3, <1>5, <1>6, <1>7

\* Dropping an edge makes it done.
LEMMA DropStep ==
  ASSUME CsrTypeOK, Rests, NEW t \in Threads, todo[t] # <<>>, Drop(t), share' = share
  PROVE  /\ todo' \in [Threads -> Seq(Edges)] /\ Rests'
         /\ Done' = Done \cup {Current(t)}
         /\ \A s \in Threads : s # t => Current(s)' = Current(s) /\ todo'[s] = todo[s]
<1>1. /\ todo \in [Threads -> Seq(Edges)] /\ todo[t] \in Seq(Edges) /\ share[t] \in Seq(Edges)
      /\ \A s \in Threads : Len(share[s]) \in Nat /\ Len(todo[s]) \in Nat
  BY PositionsAre DEF CsrTypeOK
<1>2. /\ Finished(t) \in Nat /\ Len(todo[t]) \in Nat \ {0}
      /\ Current(t) \in Positions /\ Current(t) \notin Done
  BY NextEdge
<1>3. todo' \in [Threads -> Seq(Edges)]
  BY <1>1 DEF Drop
<1>4. /\ todo'[t] = Tail(todo[t]) /\ Len(todo'[t]) = Len(todo[t]) - 1
      /\ \A k \in 1 .. Len(todo[t]) - 1 : todo'[t][k] = todo[t][k + 1]
      /\ \A s \in Threads : s # t => todo'[s] = todo[s]
  <2>1. todo'[t] = Tail(todo[t]) /\ \A s \in Threads : s # t => todo'[s] = todo[s]
    BY <1>1 DEF Drop
  <2>2. /\ Len(Tail(todo[t])) = Len(todo[t]) - 1
        /\ \A k \in 1 .. Len(todo[t]) - 1 : Tail(todo[t])[k] = todo[t][k + 1]
    BY <1>1, SequenceParts
  <2> QED
    BY <2>1, <2>2
<1>5. Finished(t)' = Finished(t) + 1 /\ \A s \in Threads : s # t => Finished(s)' = Finished(s)
  <2>1. Finished(t)' = Len(share[t]) - Len(todo'[t])
    BY DEF Finished
  <2>2. PICK a, b, c : a = Len(share[t]) /\ b = Len(todo[t]) /\ c = Len(todo'[t])
    OBVIOUS
  <2>3. a \in Nat /\ b \in Nat /\ c = b - 1
    BY <1>1, <1>4, <2>2, Zenon
  <2>4. a - c = a - b + 1
    BY ONLY <2>3
  <2>5. Finished(t)' = Finished(t) + 1
    BY <2>1, <2>2, <2>4, Zenon DEF Finished
  <2> QED
    BY <1>4, <2>5 DEF Finished
<1>6. Rests'
  <2> SUFFICES ASSUME NEW s \in Threads
               PROVE  /\ Len(todo'[s]) <= Len(share[s])
                      /\ \A k \in 1 .. Len(todo'[s]) : todo'[s][k] = share[s][Finished(s)' + k]
    BY DEF Rests
  <2>1. CASE s # t
    BY <1>4, <1>5, <2>1 DEF Rests
  <2>2. CASE s = t
    <3>1. Len(todo[t]) <= Len(share[t])
      BY DEF Rests
    <3>2. ASSUME NEW k \in 1 .. Len(todo'[t]) PROVE todo'[t][k] = share[t][Finished(t)' + k]
      <4>1. k \in Nat /\ k \in 1 .. Len(todo[t]) - 1 /\ k + 1 \in 1 .. Len(todo[t])
        BY <1>2, <1>4
      <4>2. todo'[t][k] = todo[t][k + 1] /\ todo[t][k + 1] = share[t][Finished(t) + (k + 1)]
        BY <1>4, <4>1 DEF Rests
      <4>3. Finished(t)' + k = Finished(t) + (k + 1)
        BY <1>2, <1>5, <4>1
      <4> QED
        BY <4>2, <4>3
    <3>3. Len(todo'[t]) <= Len(share[t])
      BY <1>1, <1>4, <3>1
    <3> QED
      BY <2>2, <3>2, <3>3
  <2> QED
    BY <2>1, <2>2
<1>7. Done' = Done \cup {Current(t)}
  <2>1. Positions' = Positions
    BY SameList
  <2>2. \A x \in Positions : x[1] \in Threads /\ x[2] \in Nat /\ x = <<x[1], x[2]>>
    BY PositionsAre DEF CsrTypeOK
  <2>3. ASSUME NEW x \in Positions
        PROVE  x[2] <= Finished(x[1])' <=> (x[2] <= Finished(x[1]) \/ x = Current(t))
    <3>1. CASE x[1] # t
      <4>1. Finished(x[1])' = Finished(x[1]) /\ x # Current(t)
        BY <1>5, <2>2, <3>1 DEF Current
      <4> QED
        BY <4>1
    <3>2. CASE x[1] = t
      <4>1. x = Current(t) <=> x[2] = Finished(t) + 1
        BY <2>2, <3>2 DEF Current
      <4>2. Finished(x[1])' = Finished(t) + 1 /\ x[2] \in Nat /\ Finished(x[1]) = Finished(t)
        BY <1>5, <2>2, <3>2
      <4> QED
        BY <1>2, <4>1, <4>2
    <3> QED
      BY <3>1, <3>2
  <2>4. Done' = {x \in Positions : x[2] <= Finished(x[1])'}
    BY <2>1 DEF Done
  <2> QED
    BY <1>2, <2>3, <2>4 DEF Done
<1>8. \A s \in Threads : s # t => Current(s)' = Current(s)
  BY <1>5 DEF Current
<1> QED
  BY <1>3, <1>4, <1>6, <1>7, <1>8

-----------------------------------------------------------------------------
(***************************************************************************)
(* The steps of the counting and of the prefix sum.                         *)
(***************************************************************************)
\* Nothing is counted at first, and the pool is empty.
LEMMA CsrStart == CsrInit => CsrInv
<1> SUFFICES ASSUME CsrInit PROVE CsrInv
  OBVIOUS
<1>1. share \in Shares /\ share \in [Threads -> Seq(Edges)] /\ todo = share
  BY CsrAssumption DEF CsrInit
<1>2. num_nodes \in Nat
  BY CsrAssumption
<1>3. CsrTypeOK
  BY <1>1, <1>2 DEF CsrInit, CsrTypeOK, Phases, None, Nodes
<1>4. ASSUME NEW t \in Threads PROVE Finished(t) = 0 /\ Len(todo[t]) <= Len(share[t])
  <2>1. Len(share[t]) \in Nat
    BY <1>1
  <2> QED
    BY <1>1, <2>1 DEF Finished
<1>5. Rests
  <2> SUFFICES ASSUME NEW t \in Threads, NEW k \in 1 .. Len(todo[t])
               PROVE  todo[t][k] = share[t][Finished(t) + k]
    BY <1>4 DEF Rests
  <2>1. Finished(t) + k = k
    BY <1>4
  <2> QED
    BY <1>1, <2>1
<1>6. Done = {}
  <2>1. \A x \in Positions : x[1] \in Threads /\ x[2] \in Nat \ {0}
    BY <1>1, PositionsAre
  <2>2. \A x \in Positions : ~(x[2] <= Finished(x[1]))
    BY <1>4, <2>1
  <2> QED
    BY <2>2 DEF Done
<1>7. Counting
  <2>1. \A u : From(Done, u) = {}
    BY <1>6 DEF From
  <2>2. \A u \in Nodes : degrees[u] = Cardinality(From(Done, u))
    BY <2>1, FS_EmptySet DEF CsrInit
  <2> QED
    BY <1>5, <2>2 DEF Counting, CsrInit
<1> QED
  BY <1>3, <1>7 DEF CsrInv, CsrInit, PoolWhole

\* A thread that has nothing left to do has done its share.
LEMMA AllDoneIsDone == ASSUME CsrTypeOK, AllDone PROVE Done = Positions
<1>1. ASSUME NEW x \in Positions PROVE x[2] <= Finished(x[1])
  <2>1. x[1] \in Threads /\ x[2] \in 1 .. Len(share[x[1]])
    BY PositionsAre DEF CsrTypeOK
  <2>2. todo[x[1]] = <<>> /\ Len(share[x[1]]) \in Nat
    BY <2>1, PositionsAre DEF AllDone, CsrTypeOK
  <2>3. Len(todo[x[1]]) = 0
    BY <2>2
  <2> QED
    BY <2>1, <2>2, <2>3 DEF Finished
<1> QED
  BY <1>1 DEF Done

LEMMA CountKeeps == ASSUME CsrInv, NEW t \in Threads, Count(t) PROVE CsrInv'
<1>1. /\ phase = "count" /\ phase' = "count" /\ todo[t] # <<>> /\ Drop(t) /\ share' = share
      /\ pool' = pool /\ slot' = slot
  BY DEF Count
<1>2. CsrTypeOK /\ Counting /\ Rests
  BY <1>1 DEF CsrInv, Counting
<1> DEFINE x == Current(t)
<1>3. /\ x \in Positions /\ x \notin Done /\ EdgeAt(x) = Head(todo[t])
      /\ EdgeAt(x).u \in Nodes
  BY <1>1, <1>2, NextEdge, PositionsAre DEF CsrTypeOK
<1>4. todo' \in [Threads -> Seq(Edges)] /\ Rests' /\ Done' = Done \cup {x}
  BY <1>1, <1>2, DropStep
<1>5. degrees' = [degrees EXCEPT ![EdgeAt(x).u] = @ + 1]
  BY <1>3, CsrAssumption DEF Count, Counts, transpose
<1> HIDE DEF x
<1>6. ASSUME NEW u \in Nodes PROVE degrees'[u] = Cardinality(From(Done, u)')
  <2>1. From(Done, u)' = From(Done \cup {x}, u)
    BY <1>1, <1>4, SameList DEF From
  <2>2. Done \in SUBSET Positions /\ share \in Shares /\ degrees \in [Nodes -> Int]
    BY <1>2 DEF Done, CsrTypeOK
  <2>3. /\ Cardinality(From(Done \cup {x}, EdgeAt(x).u)) = Cardinality(From(Done, EdgeAt(x).u)) + 1
        /\ \A w : w # EdgeAt(x).u => From(Done \cup {x}, w) = From(Done, w)
    BY <1>3, <2>2, FromAdd
  <2>4. degrees[u] = Cardinality(From(Done, u))
    BY <1>2 DEF Counting
  <2>5. degrees'[u] = IF u = EdgeAt(x).u THEN degrees[u] + 1 ELSE degrees[u]
    BY <1>3, <1>5, <2>2
  <2> QED
    BY <2>1, <2>3, <2>4, <2>5
<1>7. Counting'
  BY <1>1, <1>2, <1>4, <1>6 DEF Counting
<1>8. CsrTypeOK'
  <2>1. degrees' \in [Nodes -> Int]
    BY <1>2, <1>3, <1>5 DEF CsrTypeOK
  <2> QED
    BY <1>1, <1>2, <1>4, <2>1 DEF CsrTypeOK, Count
<1>9. PoolWhole'
  BY <1>1, SamePool DEF CsrInv
<1> QED
  BY <1>1, <1>7, <1>8, <1>9 DEF CsrInv

LEMMA EndCountKeeps == ASSUME CsrInv, EndCount PROVE CsrInv'
<1>1. /\ phase = "count" /\ phase' = "sums" /\ AllDone /\ work' = Blocks
      /\ UNCHANGED <<share, todo, slot, pool, degrees, local_sums, bulk_prefix, offsets>>
  BY DEF EndCount, arrays
<1>2. CsrTypeOK /\ Counting /\ Done = Positions
  BY <1>1, AllDoneIsDone DEF CsrInv
<1>3. Counted
  BY <1>2 DEF Counting, Counted
<1>4. Summing'
  <2>1. Counted'
    BY <1>1, <1>3, SameCounts
  <2>2. Summed(Blocks \ work)'
    BY <1>1 DEF Summed, Blocks, num_blocks
  <2> QED
    BY <1>1, <1>2, <2>1, <2>2 DEF Summing, Counting
<1>5. CsrTypeOK'
  BY <1>1, <1>2 DEF CsrTypeOK, Phases, Blocks, num_blocks
<1>6. PoolWhole'
  BY <1>1, SamePool DEF CsrInv
<1> QED
  BY <1>1, <1>4, <1>5, <1>6 DEF CsrInv

LEMMA SumBlockKeeps == ASSUME CsrInv, SumBlock PROVE CsrInv'
<1>1. /\ phase = "sums" /\ phase' = "sums"
      /\ UNCHANGED <<share, todo, slot, pool, degrees, bulk_prefix, offsets>>
  BY DEF SumBlock
<1>2. CsrTypeOK /\ Summing /\ share \in Shares
  BY <1>1 DEF CsrInv, CsrTypeOK
<1>3. PICK b \in work :
        /\ work' = work \ {b}
        /\ local_sums' = [local_sums EXCEPT ![b] = SumFunctionOnSet(degrees, BlockNodes(b))]
  BY DEF SumBlock
<1>4. b \in Blocks
  BY <1>2 DEF CsrTypeOK
<1>5. SumFunctionOnSet(degrees, BlockNodes(b)) = Before(Bound(b + 1)) - Before(Bound(b))
  BY <1>2, <1>4, BlockSums DEF Summing
<1>6. \A c \in Blocks : Before(Bound(c + 1)) - Before(Bound(c)) \in Int
  <2> SUFFICES ASSUME NEW c \in Blocks PROVE Before(Bound(c + 1)) - Before(Bound(c)) \in Int
    OBVIOUS
  <2>1. Bound(c + 1) \in Nat /\ Bound(c) \in Nat
    BY BlocksAre, CsrAssumption
  <2> QED
    BY <1>2, <2>1, BeforeNext
<1>7. local_sums' \in [Blocks -> Int]
  BY <1>2, <1>3, <1>4, <1>5, <1>6 DEF CsrTypeOK
<1>8. \A c \in Blocks \ work' : local_sums'[c] = Before(Bound(c + 1)) - Before(Bound(c))
  BY <1>2, <1>3, <1>4, <1>5 DEF CsrTypeOK, Summing, Summed
<1>9. Summing'
  <2>1. Counted'
    BY <1>1, <1>2, SameCounts DEF Summing
  <2>2. \A c : (Before(Bound(c + 1)) - Before(Bound(c)))' = Before(Bound(c + 1)) - Before(Bound(c))
    BY <1>1, SameList DEF Bound
  <2>3. Summed(Blocks \ work)'
    BY <1>8, <2>2 DEF Summed, Blocks, num_blocks
  <2> QED
    BY <1>1, <1>2, <2>1, <2>3 DEF Summing
<1>10. CsrTypeOK'
  BY <1>1, <1>2, <1>3, <1>7 DEF CsrTypeOK, Blocks, num_blocks
<1>11. PoolWhole'
  BY <1>1, SamePool DEF CsrInv
<1> QED
  BY <1>1, <1>9, <1>10, <1>11 DEF CsrInv

LEMMA ScanKeeps == ASSUME CsrInv, Scan PROVE CsrInv'
<1>1. /\ phase = "sums" /\ phase' = "prefix" /\ work = {} /\ work' = Blocks
      /\ bulk_prefix' = [b \in Blocks |-> SumFunctionOnSet(local_sums, 0 .. b - 1)]
      /\ UNCHANGED <<share, todo, slot, pool, degrees, local_sums, offsets>>
  BY DEF Scan
<1>2. CsrTypeOK /\ Summing /\ share \in Shares
  BY <1>1 DEF CsrInv, CsrTypeOK
<1>3. Counted /\ Summed(Blocks)
  BY <1>1, <1>2 DEF Summing
<1>4. ASSUME NEW b \in Blocks PROVE bulk_prefix'[b] = Before(Bound(b)) /\ Before(Bound(b)) \in Int
  <2>1. b \in 0 .. num_blocks /\ Bound(b) \in Nat
    BY BlocksAre, CsrAssumption
  <2>2. SumFunctionOnSet(local_sums, 0 .. b - 1) = Before(Bound(b))
    BY <1>2, <1>3, <2>1, BulkSums
  <2> QED
    BY <1>1, <1>2, <2>1, <2>2, BeforeNext
<1>5. bulk_prefix' \in [Blocks -> Int]
  BY <1>1, <1>4
<1>6. Prefixing'
  <2>1. Counted' /\ Summed(Blocks)'
    BY <1>1, <1>3, SameCounts, SameSums
  <2>2. \A b : Before(Bound(b))' = Before(Bound(b))
    BY <1>1, SameList DEF Bound
  <2>3. (\A b \in Blocks : bulk_prefix[b] = Before(Bound(b)))'
    BY <1>4, <2>2 DEF Blocks, num_blocks
  <2> QED
    BY <1>1, <1>2, <2>1, <2>3 DEF Prefixing, Summing, Blocks, num_blocks
<1>7. CsrTypeOK'
  BY <1>1, <1>2, <1>5 DEF CsrTypeOK, Phases, Blocks, num_blocks
<1>8. PoolWhole'
  BY <1>1, SamePool DEF CsrInv
<1> QED
  BY <1>1, <1>6, <1>7, <1>8 DEF CsrInv

LEMMA PrefixBlockKeeps == ASSUME CsrInv, PrefixBlock PROVE CsrInv'
<1>1. /\ phase = "prefix" /\ phase' = "prefix"
      /\ UNCHANGED <<share, todo, slot, pool, degrees, local_sums, bulk_prefix>>
  BY DEF PrefixBlock
<1>2. CsrTypeOK /\ Prefixing /\ share \in Shares
  BY <1>1 DEF CsrInv, CsrTypeOK
<1>3. PICK b \in work :
        /\ work' = work \ {b}
        /\ offsets' = [u \in DOMAIN offsets |->
                         IF u \in BlockNodes(b)
                         THEN bulk_prefix[b] + SumFunctionOnSet(degrees, b * block_size .. u - 1)
                         ELSE offsets[u]]
  BY DEF PrefixBlock
<1>4. /\ b \in Blocks /\ DOMAIN offsets = 0 .. num_nodes /\ num_nodes \in Nat
      /\ BlockNodes(b) \subseteq Nodes /\ bulk_prefix[b] = Before(Bound(b)) /\ Bound(b) \in Nat
  BY <1>2, BlocksAre, CsrAssumption DEF CsrTypeOK, Prefixing
<1>5. ASSUME NEW u \in BlockNodes(b) PROVE offsets'[u] = Before(u) /\ Before(u) \in Int
  <2>1. SumFunctionOnSet(degrees, b * block_size .. u - 1) = Before(u) - Before(Bound(b))
    BY <1>2, <1>4, BlockSums DEF Prefixing
  <2>2. u \in Nat /\ u \in DOMAIN offsets
    BY <1>4 DEF Nodes
  <2>3. Before(u) \in Nat /\ Before(Bound(b)) \in Nat
    BY <1>2, <1>4, <2>2, BeforeNext
  <2>4. offsets'[u] = bulk_prefix[b] + SumFunctionOnSet(degrees, b * block_size .. u - 1)
    BY <1>3, <2>2
  <2> QED
    BY <1>4, <2>1, <2>3, <2>4
<1>6. \A u \in 0 .. num_nodes : u \notin BlockNodes(b) => offsets'[u] = offsets[u]
  BY <1>3, <1>4
<1>7. offsets' \in [0 .. num_nodes -> Int]
  <2>1. \A u \in 0 .. num_nodes : offsets'[u] \in Int
    BY <1>2, <1>5, <1>6 DEF CsrTypeOK
  <2>2. offsets' = [u \in 0 .. num_nodes |-> offsets'[u]]
    BY <1>3, <1>4
  <2> QED
    BY <2>1, <2>2
<1>8. ASSUME NEW c \in Blocks \ work', NEW u \in BlockNodes(c) PROVE offsets'[u] = Before(u)
  <2>1. CASE u \in BlockNodes(b)
    BY <1>5, <2>1
  <2>2. CASE u \notin BlockNodes(b)
    <3>1. c \in Blocks \ work
      BY <1>3, <2>2
    <3>2. u \in 0 .. num_nodes
      BY <1>4, <3>1, BlocksAre DEF Nodes
    <3> QED
      BY <1>2, <1>6, <2>2, <3>1, <3>2 DEF Prefixing
  <2> QED
    BY <2>1, <2>2
<1>9. Prefixing'
  <2>1. Counted' /\ Summed(Blocks)'
    BY <1>1, <1>2, SameCounts, SameSums DEF Prefixing
  <2>2. \A c : Before(Bound(c))' = Before(Bound(c))
    BY <1>1, SameList DEF Bound
  <2>3. \A u : Before(u)' = Before(u)
    BY <1>1, SameList
  <2>4. (\A c \in Blocks : bulk_prefix[c] = Before(Bound(c)))'
    BY <1>1, <1>2, <2>2 DEF Prefixing, Blocks, num_blocks
  <2>5. (\A c \in Blocks \ work : \A u \in BlockNodes(c) : offsets[u] = Before(u))'
    BY <1>8, <2>3 DEF Blocks, num_blocks, BlockNodes, block_end
  <2> QED
    BY <1>1, <1>2, <2>1, <2>4, <2>5 DEF Prefixing
<1>10. CsrTypeOK'
  BY <1>1, <1>2, <1>3, <1>7 DEF CsrTypeOK, Blocks, num_blocks
<1>11. PoolWhole'
  BY <1>1, SamePool DEF CsrInv
<1> QED
  BY <1>1, <1>9, <1>10, <1>11 DEF CsrInv

LEMMA EndPrefixKeeps == ASSUME CsrInv, EndPrefix PROVE CsrInv'
<1> DEFINE total == SumFunctionOnSet(local_sums, Blocks)
<1>1. /\ phase = "prefix" /\ phase' = "copy" /\ work = {} /\ todo' = share
      /\ offsets' = [offsets EXCEPT ![num_nodes] = total]
      /\ index' = offsets' /\ neighs' = [i \in 0 .. total - 1 |-> None]
      /\ UNCHANGED <<share, slot, work, degrees, local_sums, bulk_prefix, pool>>
  BY DEF EndPrefix
<1>2. CsrTypeOK /\ Prefixing /\ share \in Shares
  BY <1>1 DEF CsrInv, CsrTypeOK
<1>3. num_nodes \in Nat /\ num_blocks \in Nat /\ share \in [Threads -> Seq(Edges)]
  BY <1>2, CsrAssumption, BlocksAre
<1>4. total = Before(num_nodes) /\ total = Cardinality(Positions) /\ total \in Nat
  <2>1. num_blocks \in 0 .. num_blocks /\ Bound(num_blocks) = num_nodes
    BY <1>3, BlocksAre
  <2>2. SumFunctionOnSet(local_sums, 0 .. num_blocks - 1) = Before(Bound(num_blocks))
    BY <1>2, <2>1, BulkSums DEF Prefixing
  <2> QED
    BY <1>2, <1>3, <2>1, <2>2, BeforeNext DEF Blocks
<1> HIDE DEF total
<1>5. ASSUME NEW u \in 0 .. num_nodes PROVE offsets'[u] = Before(u) /\ Before(u) \in Int
  <2>1. CASE u = num_nodes
    <3>1. offsets \in [0 .. num_nodes -> Int]
      BY <1>2 DEF CsrTypeOK
    <3>2. offsets'[u] = total
      <4>1. num_nodes \in DOMAIN offsets /\ offsets' = [offsets EXCEPT ![num_nodes] = total]
        BY <1>1, <1>3, <3>1
      <4>2. offsets'[num_nodes] = total
        BY ONLY <4>1, Zenon
      <4> QED
        BY <2>1, <4>2
    <3>3. Before(u) = Before(num_nodes)
      BY <2>1, Zenon
    <3>4. offsets'[u] = Before(u) /\ Before(u) \in Nat
      BY <1>4, <3>2, <3>3, Zenon
    <3> QED
      BY <3>4
  <2>2. CASE u # num_nodes
    <3>1. u \in Nodes /\ u \in Nat
      BY <1>3, <2>2 DEF Nodes
    <3>2. PICK b \in Blocks : u \in BlockNodes(b)
      BY <3>1, BlocksAre
    <3>3. offsets[u] = Before(u)
      BY <1>1, <1>2, <3>2 DEF Prefixing
    <3>4. offsets'[u] = offsets[u]
      BY <1>1, <1>2, <2>2 DEF CsrTypeOK
    <3> QED
      BY <1>2, <3>1, <3>3, <3>4, BeforeNext
  <2> QED
    BY <2>1, <2>2
<1>6. DOMAIN offsets' = 0 .. num_nodes /\ offsets' = [u \in 0 .. num_nodes |-> Before(u)]
  <2>1. offsets' = [u \in 0 .. num_nodes |-> offsets'[u]]
    BY <1>1, <1>2 DEF CsrTypeOK
  <2> QED
    BY <1>5, <2>1
<1>7. /\ Rests' /\ Done' = {} /\ Taken' = {}
  <2>1. ASSUME NEW t \in Threads PROVE Finished(t)' = 0 /\ Len(share[t]) \in Nat
    BY <1>1, <1>3 DEF Finished
  <2>2. Rests'
    <3> SUFFICES ASSUME NEW t \in Threads
                 PROVE  /\ Len(todo'[t]) <= Len(share'[t])
                        /\ \A k \in 1 .. Len(todo'[t]) : todo'[t][k] = share'[t][Finished(t)' + k]
      BY DEF Rests
    <3>1. \A k \in 1 .. Len(share[t]) : Finished(t)' + k = k
      BY <2>1
    <3> QED
      BY <1>1, <2>1, <3>1
  <2>3. Done' = {}
    <3>1. \A x \in Positions : x[1] \in Threads /\ x[2] \in Nat \ {0}
      BY <1>2, PositionsAre
    <3>2. Done' = {x \in Positions : x[2] <= Finished(x[1])'}
      BY <1>1, SameList DEF Done
    <3> QED
      BY <2>1, <3>1, <3>2
  <2>4. \A t \in Threads : slot'[t] = None
    BY <1>1, <1>2 DEF Prefixing
  <2> QED
    BY <2>2, <2>3, <2>4 DEF Taken
<1>8. Copying'
  <2>1. \A t \in Threads : slot'[t] = None
    BY <1>1, <1>2 DEF Prefixing
  <2>2. \A u \in Nodes : offsets'[u] = Before(u) + Cardinality(From({}, u)')
    <3> SUFFICES ASSUME NEW u \in Nodes PROVE offsets'[u] = Before(u) + Cardinality(From({}, u)')
      OBVIOUS
    <3>1. From({}, u)' = {} /\ Cardinality({}) = 0
      BY FS_EmptySet DEF From
    <3>2. u \in 0 .. num_nodes
      BY <1>3 DEF Nodes
    <3> QED
      BY <1>5, <3>1, <3>2
  <2>3. (\A u \in Nodes : offsets[u] = Before(u) + Cardinality(From(Taken, u)))'
    <3>1. \A u : Before(u)' = Before(u) /\ From(Taken, u)' = From({}, u)'
      BY <1>1, <1>7, SameList DEF From
    <3> QED
      BY <2>2, <3>1 DEF Nodes
  <2>4. Cells(<<>>)'
    <3>1. DOMAIN <<>> = {} /\ DOMAIN neighs' = 0 .. total - 1
      BY <1>1
    <3>2. \A i \in 0 .. total - 1 : neighs'[i] = None
      BY <1>1
    <3> QED
      BY <1>7, <2>1, <3>1, <3>2 DEF Cells
  <2>5. index' = [u \in 0 .. num_nodes |-> Before(u)'] /\ DOMAIN neighs' = 0 .. Cardinality(Positions') - 1
    BY <1>1, <1>4, <1>6, SameList
  <2> QED
    BY <1>7, <2>1, <2>3, <2>4, <2>5 DEF Copying
<1>9. CsrTypeOK'
  <2>1. offsets' \in [0 .. num_nodes -> Int]
    BY <1>5, <1>6
  <2> QED
    BY <1>1, <1>2, <1>3, <2>1 DEF CsrTypeOK, Phases, Blocks, num_blocks
<1>10. PoolWhole'
  BY <1>1, SamePool DEF CsrInv
<1> QED
  BY <1>1, <1>8, <1>9, <1>10 DEF CsrInv

-----------------------------------------------------------------------------
(***************************************************************************)
(* The steps of the copying.                                                *)
(***************************************************************************)
\* The cursor of a vertex is in the run of the vertex, or at its end; it is not
\* at the end while an edge of the vertex has no cell.
LEMMA Cursor ==
  ASSUME CsrTypeOK, Copying, NEW u \in Nodes
  PROVE  /\ offsets[u] \in Nat /\ Before(u) \in Nat /\ Before(u + 1) \in Nat
         /\ Before(u) <= offsets[u] /\ offsets[u] <= Before(u + 1)
         /\ Before(u + 1) <= Cardinality(Positions)
         /\ \A x \in Positions \ Taken : EdgeAt(x).u = u => offsets[u] < Before(u + 1)
<1>1. /\ share \in Shares /\ u \in Nat /\ u + 1 \in Nat /\ num_nodes \in Nat /\ u + 1 <= num_nodes
      /\ offsets[u] = Before(u) + Cardinality(From(Taken, u))
  BY CsrAssumption DEF CsrTypeOK, Copying, Nodes
<1>2. Taken \in SUBSET Positions
  <2>1. \A t \in Threads : slot[t] # None => Current(t) \in Positions
    BY NextEdge DEF Copying
  <2> QED
    BY <2>1 DEF Taken, Done
<1>3. /\ Cardinality(From(Taken, u)) \in Nat /\ Cardinality(From(Positions, u)) \in Nat
      /\ Cardinality(From(Taken, u)) <= Cardinality(From(Positions, u))
  BY <1>1, <1>2, FromCounts
<1>4. Before(u) \in Nat /\ Before(u + 1) = Before(u) + Cardinality(From(Positions, u))
  BY <1>1, BeforeNext
<1>5. Before(u + 1) <= Cardinality(Positions)
  BY <1>1, BeforeGrows, BeforeNext
<1>6. ASSUME NEW x \in Positions \ Taken, EdgeAt(x).u = u PROVE offsets[u] < Before(u + 1)
  <2>1. Taken \cup {x} \in SUBSET Positions
    BY <1>2
  <2>2. Cardinality(From(Taken \cup {x}, u)) = Cardinality(From(Taken, u)) + 1
    BY <1>1, <1>2, <1>6, FromAdd
  <2>3. Cardinality(From(Taken \cup {x}, u)) <= Cardinality(From(Positions, u))
    BY <1>1, <2>1, FromCounts
  <2> QED
    BY <1>1, <1>3, <1>4, <2>2, <2>3
<1> QED
  BY <1>1, <1>3, <1>4, <1>5, <1>6

\* What the cells C of the edges are.
LEMMA CellsAre ==
  ASSUME CsrTypeOK, Copying, NEW C, Cells(C)
  PROVE  /\ Taken \in SUBSET Positions /\ Done \in SUBSET Taken
         /\ \A x \in Taken :
              /\ EdgeAt(x).u \in Nodes /\ EdgeAt(x).v \in Nodes
              /\ C[x] \in Nat /\ C[x] < Cardinality(Positions)
              /\ Before(EdgeAt(x).u) <= C[x] /\ C[x] < Before(EdgeAt(x).u + 1)
              /\ \A u \in Nodes : Before(u) <= C[x] /\ C[x] < Before(u + 1) => EdgeAt(x).u = u
<1>1. Taken \in SUBSET Positions /\ Done \in SUBSET Taken
  <2>1. \A t \in Threads : slot[t] # None => Current(t) \in Positions
    BY NextEdge DEF Copying
  <2> QED
    BY <2>1 DEF Taken, Done
<1>2. SUFFICES ASSUME NEW x \in Taken
      PROVE  /\ EdgeAt(x).u \in Nodes /\ EdgeAt(x).v \in Nodes
             /\ C[x] \in Nat /\ C[x] < Cardinality(Positions)
             /\ Before(EdgeAt(x).u) <= C[x] /\ C[x] < Before(EdgeAt(x).u + 1)
             /\ \A u \in Nodes : Before(u) <= C[x] /\ C[x] < Before(u + 1) => EdgeAt(x).u = u
  BY <1>1
<1>3. share \in Shares /\ EdgeAt(x).u \in Nodes /\ EdgeAt(x).v \in Nodes
  BY <1>1, PositionsAre DEF CsrTypeOK
<1>4. PICK w \in Nodes : w = EdgeAt(x).u
  BY <1>3
<1>5. C[x] \in Nat /\ Before(w) <= C[x] /\ C[x] < offsets[w]
  BY <1>4 DEF Cells
<1>6. /\ offsets[w] \in Nat /\ Before(w) \in Nat /\ Before(w + 1) \in Nat
      /\ offsets[w] <= Before(w + 1) /\ Before(w + 1) <= Cardinality(Positions)
  BY Cursor
<1>7. Cardinality(Positions) \in Nat
  BY <1>3, PositionsAre, FS_CardinalityType
<1>8. C[x] < Before(w + 1) /\ C[x] < Cardinality(Positions)
  BY <1>5, <1>6, <1>7
<1>9. ASSUME NEW u \in Nodes, Before(u) <= C[x], C[x] < Before(u + 1) PROVE w = u
  <2>1. u \in Nat /\ w \in Nat /\ u + 1 \in Nat /\ w + 1 \in Nat
    BY CsrAssumption DEF Nodes
  <2>2. Before(u) \in Nat /\ Before(u + 1) \in Nat
    BY Cursor
  <2>3. CASE u < w
    <3>1. u + 1 <= w
      BY <2>1, <2>3
    <3>2. Before(u + 1) <= Before(w)
      BY <1>3, <2>1, <3>1, BeforeGrows
    <3> QED
      BY <1>5, <1>6, <1>9, <2>2, <3>2
  <2>4. CASE w < u
    <3>1. w + 1 <= u
      BY <2>1, <2>4
    <3>2. Before(w + 1) <= Before(u)
      BY <1>3, <2>1, <3>1, BeforeGrows
    <3> QED
      BY <1>5, <1>6, <1>8, <1>9, <2>2, <3>2
  <2> QED
    BY <2>1, <2>3, <2>4
<1> QED
  BY <1>3, <1>4, <1>5, <1>8, <1>9

\* D[x] is the cell of edge x after a step.
CellsAfter(D) ==
  /\ DOMAIN D = Taken'
  /\ \A x \in Taken' : /\ D[x] \in Nat /\ Before(EdgeAt(x).u) <= D[x]
                       /\ D[x] < offsets'[EdgeAt(x).u]
  /\ \A x, y \in Taken' : D[x] = D[y] => x = y
  /\ \A t \in Threads : slot'[t] # None => slot'[t] = D[Current(t)']
  /\ \A x \in Done' : neighs'[D[x]] = EdgeAt(x).v
  /\ \A i \in DOMAIN neighs' : (\A x \in Done' : D[x] # i) => neighs'[i] = None

\* A step that keeps the list keeps its runs.
LEMMA CellsNext == ASSUME share' = share, NEW D, CellsAfter(D) PROVE Cells(D)'
<1>1. \A x : Before(EdgeAt(x).u)' = Before(EdgeAt(x).u)
  BY DEF Before, EdgeAt, Positions
<1>2. \A x : EdgeAt(x)' = EdgeAt(x)
  BY SameList
<1> QED
  BY <1>1, <1>2 DEF Cells, CellsAfter

LEMMA ReserveKeeps == ASSUME CsrInv, NEW t \in Threads, Reserve(t) PROVE CsrInv'
<1> DEFINE x == Current(t)
<1>1. /\ phase = "copy" /\ phase' = "copy" /\ todo[t] # <<>> /\ slot[t] = None
      /\ slot' = [slot EXCEPT ![t] = offsets[Head(todo[t]).u]]
      /\ offsets' = [offsets EXCEPT ![Head(todo[t]).u] = @ + 1]
      /\ UNCHANGED <<share, todo, work, degrees, local_sums, bulk_prefix, index, neighs, pool>>
  BY DEF Reserve
<1>2. CsrTypeOK /\ Copying /\ Rests /\ share \in Shares
  BY <1>1 DEF CsrInv, Copying, CsrTypeOK
<1>3. PICK C : Cells(C)
  BY <1>2 DEF Copying
<1>4. /\ x \in Positions /\ x \notin Done /\ EdgeAt(x) = Head(todo[t]) /\ x[1] = t
  BY <1>1, <1>2, NextEdge DEF Current
<1>5. x \notin Taken
  BY <1>1, <1>4 DEF Taken, Current
<1>6. PICK u \in Nodes : u = EdgeAt(x).u /\ u = Head(todo[t]).u
  BY <1>2, <1>4, PositionsAre
<1>7. /\ Done' = Done /\ \A s : Current(s)' = Current(s)
  BY <1>1, SameList DEF Done, Finished, Current
<1>8. offsets[u] \in Nat /\ offsets[u] # None
  BY <1>2, Cursor DEF None
<1>9. /\ slot \in [Threads -> Int] /\ slot'[t] = offsets[u]
      /\ \A s \in Threads : s # t => slot'[s] = slot[s]
  BY <1>1, <1>2, <1>6 DEF CsrTypeOK
<1>10. Taken' = Taken \cup {x}
  BY <1>1, <1>7, <1>8, <1>9 DEF Taken
<1>11. /\ Before(u) \in Nat /\ Before(u) <= offsets[u] /\ offsets[u] < Before(u + 1)
  BY <1>2, <1>4, <1>5, <1>6, Cursor
<1>12. /\ Taken \in SUBSET Positions
       /\ \A y \in Taken : C[y] # offsets[u]
  <2>1. Taken \in SUBSET Positions
    BY <1>2, <1>3, CellsAre
  <2>2. ASSUME NEW y \in Taken, C[y] = offsets[u] PROVE FALSE
    <3>1. EdgeAt(y).u = u
      BY <1>2, <1>3, <1>11, <2>2, CellsAre
    <3>2. C[y] < offsets[EdgeAt(y).u] /\ C[y] \in Nat
      BY <1>3 DEF Cells
    <3> QED
      BY <1>8, <2>2, <3>1, <3>2
  <2> QED
    BY <2>1, <2>2
<1>13. /\ offsets' \in [0 .. num_nodes -> Int] /\ offsets'[u] = offsets[u] + 1
       /\ \A w \in Nodes : w # u => offsets'[w] = offsets[w]
  <2>1. offsets \in [0 .. num_nodes -> Int] /\ u \in 0 .. num_nodes /\ Nodes \subseteq 0 .. num_nodes
    BY <1>2, CsrAssumption DEF CsrTypeOK, Nodes
  <2>2. offsets' = [offsets EXCEPT ![u] = @ + 1]
    BY <1>1, <1>6
  <2> QED
    BY <1>8, <2>1, <2>2
<1>14. /\ \A y : EdgeAt(y)' = EdgeAt(y)
       /\ \A w : Before(w)' = Before(w)
  BY <1>1, SameList
<1> HIDE DEF x
<1>15. PICK D : DOMAIN D = Taken' /\ D[x] = offsets[u] /\ \A y \in Taken : D[y] = C[y]
  <2> DEFINE F == [y \in Taken' |-> IF y = x THEN offsets[u] ELSE C[y]]
  <2>1. DOMAIN F = Taken' /\ F[x] = offsets[u] /\ \A y \in Taken : F[y] = C[y]
    BY <1>5, <1>10
  <2> HIDE DEF F
  <2> QED
    BY <2>1
<1>16. ASSUME NEW y \in Taken'
       PROVE  /\ D[y] \in Nat /\ Before(EdgeAt(y).u) <= D[y]
              /\ D[y] < offsets'[EdgeAt(y).u]
  <2>1. CASE y = x
    <3>1. Before(EdgeAt(y).u) = Before(u) /\ offsets'[EdgeAt(y).u] = offsets[u] + 1
      BY <1>6, <1>13, <2>1
    <3>2. D[y] = offsets[u]
      BY <1>15, <2>1
    <3> QED
      BY <1>8, <1>11, <3>1, <3>2
  <2>2. CASE y \in Taken
    <3>1. PICK w \in Nodes : w = EdgeAt(y).u
      BY <1>2, <1>3, <2>2, CellsAre
    <3>2. C[y] \in Nat /\ Before(w) <= C[y] /\ C[y] < offsets[w]
      BY <1>3, <2>2, <3>1 DEF Cells
    <3>3. offsets[w] \in Nat
      BY <1>2, Cursor
    <3>4. C[y] < offsets'[w]
      BY <1>13, <3>2, <3>3
    <3> QED
      BY <1>15, <2>2, <3>1, <3>2, <3>4
  <2> QED
    BY <1>10, <2>1, <2>2
<1>17. \A y, z \in Taken' : D[y] = D[z] => y = z
  <2>1. \A y, z \in Taken : C[y] = C[z] => y = z
    BY <1>3 DEF Cells
  <2> QED
    BY <1>10, <1>12, <1>15, <2>1
<1>18. \A s \in Threads : slot'[s] # None => slot'[s] = D[Current(s)']
  <2> SUFFICES ASSUME NEW s \in Threads, slot'[s] # None PROVE slot'[s] = D[Current(s)']
    OBVIOUS
  <2>1. CASE s = t
    BY <1>7, <1>9, <1>15, <2>1 DEF x
  <2>2. CASE s # t
    <3>1. slot'[s] = slot[s] /\ slot[s] # None
      BY <1>9, <2>2
    <3>2. Current(s) \in Taken /\ slot[s] = C[Current(s)]
      BY <1>3, <3>1 DEF Taken, Cells
    <3> QED
      BY <1>7, <1>15, <3>1, <3>2
  <2> QED
    BY <2>1, <2>2
<1>19. \A y \in Done : y \in Taken /\ D[y] = C[y]
  BY <1>15 DEF Taken
<1>20. Cells(D)'
  <2>1. DOMAIN D = Taken' /\ neighs' = neighs
    BY <1>1, <1>15
  <2>2. \A y \in Done : neighs[D[y]] = EdgeAt(y).v
    BY <1>3, <1>19 DEF Cells
  <2>3. \A i \in DOMAIN neighs : (\A y \in Done : D[y] # i) => neighs[i] = None
    BY <1>3, <1>19 DEF Cells
  <2> QED
    <3>1. CellsAfter(D)
      BY <1>7, <1>16, <1>17, <1>18, <2>1, <2>2, <2>3 DEF CellsAfter
    <3> QED
      BY <1>1, <3>1, CellsNext
<1>21. \A w \in Nodes : offsets'[w] = Before(w)' + Cardinality(From(Taken, w)')
  <2> SUFFICES ASSUME NEW w \in Nodes
               PROVE  offsets'[w] = Before(w)' + Cardinality(From(Taken, w)')
    OBVIOUS
  <2>1. From(Taken, w)' = From(Taken \cup {x}, w)
    BY <1>10, <1>14 DEF From
  <2>2. /\ Cardinality(From(Taken \cup {x}, u)) = Cardinality(From(Taken, u)) + 1
        /\ w # u => From(Taken \cup {x}, w) = From(Taken, w)
    BY <1>2, <1>4, <1>5, <1>6, <1>12, FromAdd
  <2>3. offsets[w] = Before(w) + Cardinality(From(Taken, w)) /\ Before(w) \in Nat
    BY <1>2, Cursor DEF Copying
  <2>4. Cardinality(From(Taken, w)) \in Nat
    BY <1>2, <1>12, FromCounts
  <2> QED
    BY <1>13, <1>14, <2>1, <2>2, <2>3, <2>4
<1>22. Copying'
  <2>1. Rests'
    BY <1>1, <1>2 DEF Rests, Finished
  <2>2. \A s \in Threads : slot'[s] # None => todo'[s] # <<>>
    BY <1>1, <1>2, <1>9 DEF Copying
  <2>3. index' = [w \in 0 .. num_nodes |-> Before(w)'] /\ DOMAIN neighs' = 0 .. Cardinality(Positions') - 1
    BY <1>1, <1>2, <1>14, SameList DEF Copying
  <2> QED
    BY <1>20, <1>21, <2>1, <2>2, <2>3 DEF Copying, Nodes
<1>23. CsrTypeOK'
  <2>1. slot' \in [Threads -> Int]
    BY <1>1, <1>6, <1>8, <1>9
  <2> QED
    BY <1>1, <1>2, <1>13, <2>1 DEF CsrTypeOK, Blocks, num_blocks
<1>24. PoolWhole'
  BY <1>1, SamePool DEF CsrInv
<1> QED
  BY <1>1, <1>22, <1>23, <1>24 DEF CsrInv

LEMMA WriteKeeps == ASSUME CsrInv, NEW t \in Threads, Write(t) PROVE CsrInv'
<1> DEFINE x == Current(t)
<1>1. /\ phase = "copy" /\ phase' = "copy" /\ slot[t] # None /\ Drop(t)
      /\ neighs' = [neighs EXCEPT ![slot[t]] = Head(todo[t]).v]
      /\ slot' = [slot EXCEPT ![t] = None]
      /\ UNCHANGED <<share, work, degrees, local_sums, bulk_prefix, offsets, index, pool>>
  BY DEF Write
<1>2. CsrTypeOK /\ Copying /\ Rests /\ share \in Shares /\ todo[t] # <<>>
  BY <1>1 DEF CsrInv, Copying, CsrTypeOK
<1>3. PICK C : Cells(C)
  BY <1>2 DEF Copying
<1>4. /\ x \in Positions /\ x \notin Done /\ EdgeAt(x) = Head(todo[t]) /\ x[1] = t
  BY <1>2, NextEdge DEF Current
<1>5. x \in Taken /\ slot[t] = C[x]
  BY <1>1, <1>3 DEF Taken, Cells
<1>6. /\ todo' \in [Threads -> Seq(Edges)] /\ Rests' /\ Done' = Done \cup {x}
      /\ \A s \in Threads : s # t => Current(s)' = Current(s) /\ todo'[s] = todo[s]
  BY <1>1, <1>2, DropStep
<1>7. /\ slot \in [Threads -> Int] /\ slot' \in [Threads -> Int] /\ slot'[t] = None
      /\ \A s \in Threads : s # t => slot'[s] = slot[s]
  BY <1>1, <1>2 DEF CsrTypeOK, None
<1>8. Taken' = Taken
  <2>1. Taken' = Done' \cup {Current(s)' : s \in {r \in Threads : slot'[r] # None}}
    BY DEF Taken
  <2>2. {Current(s)' : s \in {r \in Threads : slot'[r] # None}} \cup {x}
          = {Current(s) : s \in {r \in Threads : slot[r] # None}}
    BY <1>1, <1>6, <1>7, ZenonT(60)
  <2> QED
    BY <1>6, <2>1, <2>2 DEF Taken
<1> HIDE DEF x
<1>9. /\ \A y \in Taken : /\ C[y] \in Nat /\ Before(EdgeAt(y).u) <= C[y]
                          /\ C[y] < offsets[EdgeAt(y).u]
      /\ \A y, z \in Taken : C[y] = C[z] => y = z
      /\ \A s \in Threads : slot[s] # None => slot[s] = C[Current(s)]
      /\ DOMAIN C = Taken
  BY <1>3 DEF Cells
<1>10. DOMAIN neighs = 0 .. Cardinality(Positions) - 1 /\ C[x] \in DOMAIN neighs
  <2>1. C[x] \in Nat /\ C[x] < Cardinality(Positions) /\ DOMAIN neighs = 0 .. Cardinality(Positions) - 1
    BY <1>2, <1>3, <1>5, CellsAre DEF Copying
  <2>2. Cardinality(Positions) \in Nat
    BY <1>2, PositionsAre, FS_CardinalityType
  <2> QED
    BY <2>1, <2>2
<1>11. /\ DOMAIN neighs' = DOMAIN neighs /\ neighs'[C[x]] = EdgeAt(x).v
       /\ \A i \in DOMAIN neighs : i # C[x] => neighs'[i] = neighs[i]
  BY <1>1, <1>4, <1>5, <1>10
<1>12. Done \in SUBSET Taken /\ \A y \in Taken : C[y] \in DOMAIN neighs
  <2>1. \A y \in Taken : C[y] \in Nat /\ C[y] < Cardinality(Positions)
    BY <1>2, <1>3, CellsAre
  <2>2. Cardinality(Positions) \in Nat
    BY <1>2, PositionsAre, FS_CardinalityType
  <2> QED
    BY <1>10, <2>1, <2>2 DEF Taken
<1>13. \A y \in Done' : neighs'[C[y]] = EdgeAt(y).v
  <2> SUFFICES ASSUME NEW y \in Done' PROVE neighs'[C[y]] = EdgeAt(y).v
    OBVIOUS
  <2>1. CASE y = x
    BY <1>11, <2>1
  <2>2. CASE y # x
    <3>1. y \in Done /\ y \in Taken
      BY <1>6, <1>12, <2>2
    <3>2. C[y] # C[x] /\ C[y] \in DOMAIN neighs
      BY <1>5, <1>9, <1>12, <2>2, <3>1
    <3>3. neighs[C[y]] = EdgeAt(y).v
      BY <1>3, <3>1 DEF Cells
    <3> QED
      BY <1>11, <3>2, <3>3
  <2> QED
    BY <2>1, <2>2
<1>14. \A i \in DOMAIN neighs' : (\A y \in Done' : C[y] # i) => neighs'[i] = None
  <2> SUFFICES ASSUME NEW i \in DOMAIN neighs', \A y \in Done' : C[y] # i PROVE neighs'[i] = None
    OBVIOUS
  <2>1. i # C[x] /\ \A y \in Done : C[y] # i
    BY <1>6
  <2>2. neighs[i] = None
    BY <1>3, <1>11, <2>1 DEF Cells
  <2> QED
    BY <1>11, <2>1, <2>2
<1>15. \A s \in Threads : slot'[s] # None => slot'[s] = C[Current(s)']
  BY <1>6, <1>7, <1>9
<1>16. Cells(C)'
  <2>1. CellsAfter(C)
    BY <1>1, <1>8, <1>9, <1>13, <1>14, <1>15 DEF CellsAfter
  <2> QED
    BY <1>1, <2>1, CellsNext
<1>17. Copying'
  <2>1. \A s \in Threads : slot'[s] # None => todo'[s] # <<>>
    BY <1>2, <1>6, <1>7 DEF Copying
  <2>2. /\ index' = [w \in 0 .. num_nodes |-> Before(w)']
        /\ DOMAIN neighs' = 0 .. Cardinality(Positions') - 1
    BY <1>1, <1>2, <1>11, SameList DEF Copying
  <2>3. (\A w \in Nodes : offsets[w] = Before(w) + Cardinality(From(Taken, w)))'
    <3>1. \A w : Before(w)' = Before(w) /\ From(Taken, w)' = From(Taken, w)
      BY <1>1, <1>8, SameList DEF From
    <3> QED
      BY <1>1, <1>2, <3>1 DEF Copying, Nodes
  <2> QED
    BY <1>6, <1>16, <2>1, <2>2, <2>3 DEF Copying
<1>18. CsrTypeOK'
  BY <1>1, <1>2, <1>6, <1>7 DEF CsrTypeOK, Blocks, num_blocks
<1>19. PoolWhole'
  BY <1>1, SamePool DEF CsrInv
<1> QED
  BY <1>1, <1>17, <1>18, <1>19 DEF CsrInv

\* When all the edges have cells, the cells of the run of u that hold v are
\* those of the edges from u to v.
LEMMA RunsHoldEdges ==
  ASSUME CsrTypeOK, Copying, Done = Positions, NEW u \in Nodes, NEW v \in Nodes
  PROVE  Cardinality({i \in DOMAIN neighs : Before(u) <= i /\ i < Before(u + 1) /\ neighs[i] = v})
           = EdgesOf(u, v)
<1> DEFINE X == {x \in Positions : EdgeAt(x) = [u |-> u, v |-> v]}
           I == {i \in DOMAIN neighs : Before(u) <= i /\ i < Before(u + 1) /\ neighs[i] = v}
<1>1. PICK C : Cells(C)
  BY DEF Copying
<1>2. Taken = Positions /\ share \in Shares
  BY <1>1, CellsAre DEF CsrTypeOK
<1>3. IsFiniteSet(X)
  <2>1. X \in SUBSET Positions
    OBVIOUS
  <2> QED
    BY <1>2, <2>1, PositionsAre, FS_Subset
<1>4. DOMAIN neighs = 0 .. Cardinality(Positions) - 1 /\ Cardinality(Positions) \in Nat
  BY <1>2, PositionsAre, FS_CardinalityType DEF Copying
<1>5. ASSUME NEW x \in Positions PROVE C[x] \in DOMAIN neighs /\ neighs[C[x]] = EdgeAt(x).v
  <2>1. C[x] \in Nat /\ C[x] < Cardinality(Positions)
    BY <1>1, <1>2, CellsAre
  <2>2. neighs[C[x]] = EdgeAt(x).v
    BY <1>1 DEF Cells
  <2> QED
    BY <1>4, <2>1, <2>2
<1>6. ASSUME NEW x \in X PROVE C[x] \in I
  <2>1. x \in Positions /\ EdgeAt(x).u = u /\ EdgeAt(x).v = v
    OBVIOUS
  <2>2. Before(EdgeAt(x).u) <= C[x] /\ C[x] < Before(EdgeAt(x).u + 1)
    BY <1>1, <1>2, <2>1, CellsAre
  <2> QED
    BY <1>5, <2>1, <2>2
<1>7. ASSUME NEW i \in I PROVE \E x \in X : C[x] = i
  <2>1. i \in DOMAIN neighs /\ Before(u) <= i /\ i < Before(u + 1) /\ neighs[i] = v
    OBVIOUS
  <2>2. neighs[i] # None
    BY <2>1, CsrAssumption DEF Nodes, None
  <2>3. PICK x \in Positions : C[x] = i
    BY <1>1, <2>1, <2>2 DEF Cells
  <2>4. EdgeAt(x).u = u
    BY <1>1, <1>2, <2>1, <2>3, CellsAre
  <2>5. EdgeAt(x).v = v
    BY <1>5, <2>1, <2>3
  <2>6. EdgeAt(x) \in [u : Nodes, v : Nodes]
    BY <1>2, PositionsAre DEF Edges
  <2>7. EdgeAt(x) = [u |-> u, v |-> v]
    BY <2>4, <2>5, <2>6
  <2> QED
    BY <2>3, <2>7
<1>8. \A x, y \in X : C[x] = C[y] => x = y
  BY <1>1, <1>2 DEF Cells
<1> DEFINE f == [x \in X |-> C[x]]
<1> HIDE DEF X, I
<1>9. f \in Bijection(X, I)
  <2>1. f \in Injection(X, I)
    BY <1>6, <1>8 DEF Injection, IsInjective
  <2>2. f \in Surjection(X, I)
    BY <1>6, <1>7 DEF Surjection
  <2> QED
    BY <2>1, <2>2 DEF Bijection
<1>10. Cardinality(X) = Cardinality(I)
  <2> HIDE DEF f
  <2> QED
    BY <1>3, <1>9, FS_Bijection DEF ExistsBijection
<1> QED
  BY <1>10 DEF X, I, EdgesOf

LEMMA CommitKeeps == ASSUME CsrInv, Commit PROVE CsrInv'
<1>1. /\ phase = "copy" /\ phase' = "built" /\ AllDone
      /\ pool' = [num_nodes |-> num_nodes, num_edges |-> index[num_nodes] - index[0],
                  index |-> index, neighs |-> neighs]
      /\ UNCHANGED <<share, todo, slot, work, degrees, local_sums, bulk_prefix, offsets>>
  BY DEF Commit, arrays
<1>2. CsrTypeOK /\ Copying /\ Done = Positions /\ share \in Shares
  BY <1>1, AllDoneIsDone DEF CsrInv, CsrTypeOK
<1>3. index = [u \in 0 .. num_nodes |-> Before(u)] /\ num_nodes \in Nat
  BY <1>2, CsrAssumption DEF Copying
<1>4. pool'.num_edges = Cardinality(Positions)
  <2>1. /\ index[num_nodes] = Cardinality(Positions) /\ index[0] = 0
        /\ Cardinality(Positions) \in Nat
    BY <1>2, <1>3, BeforeNext, PositionsAre, FS_CardinalityType
  <2> QED
    BY <1>1, <2>1
<1>5. ASSUME NEW u \in Nodes, NEW v \in Nodes
      PROVE  Cardinality({i \in out_neigh(u)' : pool'.neighs[i] = v}) = EdgesOf(u, v)
  <2>1. u \in 0 .. num_nodes /\ u + 1 \in 0 .. num_nodes
    BY <1>3 DEF Nodes
  <2>2. index[u] = Before(u) /\ index[u + 1] = Before(u + 1)
    BY <1>3, <2>1
  <2>3. pool'.index = index /\ pool'.neighs = neighs
    BY <1>1
  <2>4. {i \in out_neigh(u)' : pool'.neighs[i] = v}
          = {i \in DOMAIN neighs : Before(u) <= i /\ i < Before(u + 1) /\ neighs[i] = v}
    BY <2>2, <2>3 DEF out_neigh
  <2> QED
    BY <1>2, <2>4, RunsHoldEdges
<1>6. PoolWhole'
  <2>1. Positions' = Positions /\ \A u, v : EdgesOf(u, v)' = EdgesOf(u, v)
    BY <1>1, SameList DEF EdgesOf
  <2> QED
    BY <1>4, <1>5, <2>1 DEF PoolWhole, Nodes
<1>7. CsrTypeOK'
  BY <1>1, <1>2 DEF CsrTypeOK, Phases, Blocks, num_blocks
<1> QED
  BY <1>1, <1>6, <1>7 DEF CsrInv

LEMMA ReopenKeeps == ASSUME CsrInv, Reopen PROVE CsrInv'
<1>1. /\ phase' = "reopened" /\ work' = {}
      /\ todo' = [t \in Threads |-> <<>>] /\ slot' = [t \in Threads |-> None]
      /\ UNCHANGED <<share, pool, degrees, local_sums, bulk_prefix, offsets>>
  BY DEF Reopen, arrays
<1>2. CsrTypeOK'
  <2>1. <<>> \in Seq(Edges) /\ None \in Int
    BY DEF None
  <2> QED
    BY <1>1, <2>1 DEF CsrInv, CsrTypeOK, Phases, Blocks, num_blocks
<1>3. PoolWhole'
  BY <1>1, SamePool DEF CsrInv
<1> QED
  BY <1>1, <1>2, <1>3 DEF CsrInv

LEMMA SameStateKeeps == ASSUME CsrInv, UNCHANGED csrVars PROVE CsrInv'
<1>1. UNCHANGED <<share, phase, todo, slot, work, degrees, local_sums, bulk_prefix, offsets, index,
                  neighs, pool>>
  BY DEF csrVars, arrays
<1>2. CsrTypeOK'
  BY <1>1 DEF CsrInv, CsrTypeOK, Blocks, num_blocks
<1>3. /\ Rests => Rests'
      /\ \A s : Current(s)' = Current(s)
      /\ Done' = Done /\ Taken' = Taken /\ \A P, u : From(P, u)' = From(P, u)
      /\ \A u : Before(u)' = Before(u)
  BY <1>1, SameList DEF Rests, Current, Finished, Done, Taken
<1>4. /\ \A u : From(Done, u)' = From(Done, u)
      /\ \A u : From(Taken, u)' = From(Taken, u)
  BY <1>1, <1>3, SameList DEF From
<1>5. Counting => Counting'
  BY <1>1, <1>3, <1>4 DEF Counting, Nodes
<1>6. (Counted => Counted') /\ (Summed(Blocks) => Summed(Blocks)')
      /\ (Summed(Blocks \ work) => Summed(Blocks \ work)')
  <2>1. Blocks' = Blocks /\ work' = work
    BY <1>1 DEF Blocks, num_blocks
  <2> QED
    BY <1>1, <1>3, <2>1, SameCounts DEF Summed, Bound
<1>7. Summing => Summing'
  BY <1>1, <1>6 DEF Summing
<1>8. Prefixing => Prefixing'
  BY <1>1, <1>3, <1>6 DEF Prefixing, Bound, Blocks, num_blocks, BlockNodes, block_end
<1>9. Copying => Copying'
  <2> SUFFICES ASSUME Copying PROVE Copying'
    OBVIOUS
  <2>1. PICK C : Cells(C)
    BY DEF Copying
  <2>2. CellsAfter(C)
    BY <1>1, <1>3, <2>1 DEF Cells, CellsAfter
  <2>3. Cells(C)'
    BY <1>1, <2>2, CellsNext
  <2> QED
    BY <1>1, <1>3, <1>4, <2>3, SameList DEF Copying, Nodes
<1>10. PoolWhole'
  BY <1>1, SamePool DEF CsrInv
<1> QED
  BY <1>1, <1>2, <1>5, <1>7, <1>8, <1>9, <1>10 DEF CsrInv

-----------------------------------------------------------------------------
(***************************************************************************)
(* The theorems.                                                            *)
(***************************************************************************)
\* Every step keeps the invariant.
LEMMA CsrInductive == CsrInv /\ [CsrNext]_csrVars => CsrInv'
<1> SUFFICES ASSUME CsrInv, [CsrNext]_csrVars PROVE CsrInv'
  OBVIOUS
<1>1. ASSUME NEW t \in Threads, Thread(t) PROVE CsrInv'
  BY <1>1, CountKeeps, ReserveKeeps, WriteKeeps DEF Thread
<1>2. ASSUME Team PROVE CsrInv'
  BY <1>2, EndCountKeeps, SumBlockKeeps, ScanKeeps, PrefixBlockKeeps, EndPrefixKeeps,
     CommitKeeps DEF Team
<1>3. ASSUME Ended PROVE CsrInv'
  BY <1>3, SameStateKeeps DEF Ended
<1> QED
  BY <1>1, <1>2, <1>3, ReopenKeeps, SameStateKeeps DEF CsrNext

\* The degrees, the prefix sums, the cursors, the cells and the pool have, at
\* every step of CountDegrees, ParallelPrefixSum and MakeCSR, the contents that
\* the invariant describes.
THEOREM CsrInvariant == CsrSpec => []CsrInv
<1>1. CsrInit => CsrInv
  BY CsrStart
<1>2. CsrInv /\ [CsrNext]_csrVars => CsrInv'
  BY CsrInductive
<1> QED
  BY <1>1, <1>2, PTL DEF CsrSpec

\* The invariant of the copying says that cells are apart.
LEMMA CellsFollow == CsrInv => CellsApart
<1> SUFFICES ASSUME CsrInv, phase = "copy", NEW t \in Threads, slot[t] # None
             PROVE  /\ slot[t] \in Before(Head(todo[t]).u) .. Before(Head(todo[t]).u + 1) - 1
                    /\ neighs[slot[t]] = None
                    /\ \A other \in Threads \ {t} : slot[other] # slot[t]
  BY DEF CellsApart
<1> DEFINE x == Current(t)
<1>1. CsrTypeOK /\ Copying /\ Rests /\ todo[t] # <<>> /\ share \in Shares
  BY DEF CsrInv, Copying, CsrTypeOK
<1>2. PICK C : Cells(C)
  BY <1>1 DEF Copying
<1>3. x \in Positions /\ x \notin Done /\ EdgeAt(x) = Head(todo[t]) /\ x[1] = t
  BY <1>1, NextEdge DEF Current
<1>4. x \in Taken /\ slot[t] = C[x]
  BY <1>2 DEF Taken, Cells
<1> HIDE DEF x
<1>5. PICK u \in Nodes : u = Head(todo[t]).u /\ u = EdgeAt(x).u
  BY <1>1, <1>3, PositionsAre
<1>6. /\ C[x] \in Nat /\ C[x] < Cardinality(Positions) /\ Cardinality(Positions) \in Nat
      /\ Before(u) <= C[x] /\ C[x] < Before(u + 1)
  BY <1>1, <1>2, <1>4, <1>5, CellsAre, PositionsAre, FS_CardinalityType
<1>7. slot[t] \in Before(u) .. Before(u + 1) - 1
  <2>1. Before(u) \in Nat /\ Before(u + 1) \in Nat
    BY <1>1, Cursor
  <2> QED
    BY <1>4, <1>6, <2>1
<1>8. neighs[slot[t]] = None
  <2>1. C[x] \in DOMAIN neighs
    BY <1>1, <1>6 DEF Copying
  <2>2. \A y \in Done : C[y] # C[x]
    BY <1>2, <1>3, <1>4 DEF Cells, Taken
  <2> QED
    BY <1>2, <1>4, <2>1, <2>2 DEF Cells
<1>9. ASSUME NEW s \in Threads \ {t}, slot[s] = slot[t] PROVE FALSE
  <2>1. Current(s) \in Taken /\ slot[s] = C[Current(s)] /\ Current(s)[1] = s
    BY <1>2, <1>9 DEF Taken, Cells, Current
  <2> QED
    BY <1>2, <1>3, <1>4, <1>9, <2>1 DEF Cells
<1> QED
  BY <1>5, <1>7, <1>8, <1>9

\* fetch_and_add gives a thread a cell of the run of its source that is empty
\* and nobody else's.
THEOREM ReservationsAreApart == CsrSpec => []CellsApart
BY CsrInvariant, CellsFollow, PTL

\* The transaction of MakeCSR leaves the pool empty, or with each edge of the
\* list as often as the list has it.
THEOREM PoolIsWhole == CsrSpec => []PoolWhole
<1>1. CsrInv => PoolWhole
  BY DEF CsrInv
<1> QED
  BY <1>1, CsrInvariant, PTL
=============================================================================
