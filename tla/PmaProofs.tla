----------------------------- MODULE PmaProofs -----------------------------
(***************************************************************************)
(* What the operations of Pma keep, for every base graph: the shape of the  *)
(* graph, the exact counts, the order of the vertices in the edge array and *)
(* the edges of each vertex.  Dgap and Persistence are proved about with    *)
(* these lemmas.                                                            *)
(***************************************************************************)
EXTENDS Pma, Induction

(***************************************************************************)
(* The shape of the PMA tree (compute_capacity).  The solver knows a power  *)
(* of two only when the exponent is a literal, hence a case for each bit.   *)
(***************************************************************************)

\* The powers of two util.h computes are positive.
LEMMA PowerPositive == ASSUME NEW b \in 0 .. 30 PROVE 2 ^ b \in Nat \ {0}
<1>1. CASE b = 0 BY <1>1, SMT
<1>2. CASE b = 1 BY <1>2, SMT
<1>3. CASE b = 2 BY <1>3, SMT
<1>4. CASE b = 3 BY <1>4, SMT
<1>5. CASE b = 4 BY <1>5, SMT
<1>6. CASE b = 5 BY <1>6, SMT
<1>7. CASE b = 6 BY <1>7, SMT
<1>8. CASE b = 7 BY <1>8, SMT
<1>9. CASE b = 8 BY <1>9, SMT
<1>10. CASE b = 9 BY <1>10, SMT
<1>11. CASE b = 10 BY <1>11, SMT
<1>12. CASE b = 11 BY <1>12, SMT
<1>13. CASE b = 12 BY <1>13, SMT
<1>14. CASE b = 13 BY <1>14, SMT
<1>15. CASE b = 14 BY <1>15, SMT
<1>16. CASE b = 15 BY <1>16, SMT
<1>17. CASE b = 16 BY <1>17, SMT
<1>18. CASE b = 17 BY <1>18, SMT
<1>19. CASE b = 18 BY <1>19, SMT
<1>20. CASE b = 19 BY <1>20, SMT
<1>21. CASE b = 20 BY <1>21, SMT
<1>22. CASE b = 21 BY <1>22, SMT
<1>23. CASE b = 22 BY <1>23, SMT
<1>24. CASE b = 23 BY <1>24, SMT
<1>25. CASE b = 24 BY <1>25, SMT
<1>26. CASE b = 25 BY <1>26, SMT
<1>27. CASE b = 26 BY <1>27, SMT
<1>28. CASE b = 27 BY <1>28, SMT
<1>29. CASE b = 28 BY <1>29, SMT
<1>30. CASE b = 29 BY <1>30, SMT
<1>31. CASE b = 30 BY <1>31, SMT
<1> QED
  BY <1>1, <1>2, <1>3, <1>4, <1>5, <1>6, <1>7, <1>8, <1>9, <1>10, <1>11, <1>12, <1>13, <1>14, <1>15, <1>16,
     <1>17, <1>18, <1>19, <1>20, <1>21, <1>22, <1>23, <1>24, <1>25, <1>26, <1>27, <1>28, <1>29, <1>30, <1>31, SMT

\* last_bit_set counts at most 31 bits; it counts bit 0 of a positive number.
LEMMA LastBitSet ==
  ASSUME NEW x \in Nat
  PROVE  last_bit_set(x) \in 0 .. 31 /\ (x > 0 => last_bit_set(x) > 0)
<1> DEFINE all == 0 .. 30
           bits == {b \in all : 2 ^ b <= x}
<1>1. IsFiniteSet(all) /\ Cardinality(all) = 31
  <2>1. 0 \in Int /\ 30 \in Int
    OBVIOUS
  <2>2. IsFiniteSet(0 .. 30) /\ Cardinality(0 .. 30) = IF 0 > 30 THEN 0 ELSE 30 - 0 + 1
    BY <2>1, FS_Interval
  <2> QED
    BY <2>2
<1>2. x > 0 => 0 \in bits
  BY SMT
<1>3. bits \in SUBSET all
  OBVIOUS
<1> HIDE DEF all
<1>4. IsFiniteSet(bits) /\ Cardinality(bits) <= 31
  BY <1>1, <1>3, FS_Subset
<1> HIDE DEF bits
<1>5. Cardinality(bits) \in Nat /\ (x > 0 => Cardinality(bits) # 0)
  BY <1>2, <1>4, FS_EmptySet, FS_CardinalityType
<1>6. QED
  BY <1>4, <1>5 DEF last_bit_set, bits, all

\* ceil_div of positive numbers is positive.
LEMMA CeilDiv == ASSUME NEW x \in Nat \ {0}, NEW y \in Nat \ {0} PROVE ceil_div(x, y) \in Nat \ {0}
BY DEF ceil_div

\* There is at least one leaf, with at least one vertex.
LEMMA TreeShape ==
  /\ leaf_count \in Nat \ {0} /\ segment_size \in Nat \ {0} /\ num_vertices \in Nat \ {0}
  /\ initial_capacity \in Nat \ {0}
<1>1. n_vertices \in Nat \ {0} /\ n_vertices - 1 \in Nat \ {0}
  BY PmaAssumption
<1>2. ceil_log2(n_vertices) \in Nat \ {0}
  BY <1>1, LastBitSet DEF ceil_log2
<1>3. leaf_count \in Nat \ {0}
  <2>1. ceil_div(n_vertices, ceil_log2(n_vertices)) \in Nat \ {0}
    BY <1>1, <1>2, CeilDiv
  <2>2. floor_log2(ceil_div(n_vertices, ceil_log2(n_vertices))) \in 0 .. 30
    BY <2>1, LastBitSet DEF floor_log2
  <2> QED
    BY <2>2, PowerPositive DEF leaf_count, hyperfloor
<1>4. segment_size \in Nat \ {0}
  BY <1>1, <1>3, CeilDiv DEF segment_size
<1>5. num_vertices \in Nat \ {0}
  BY <1>3, <1>4 DEF num_vertices
<1>6. Len(edge_list) \in Nat
  BY PmaAssumption
<1>7. initial_capacity \in Nat \ {0}
  BY <1>5, <1>6 DEF initial_capacity, max_sparseness
<1>8. QED
  BY <1>3, <1>4, <1>5, <1>7

-----------------------------------------------------------------------------
(***************************************************************************)
(* The shape of a graph.                                                    *)
(***************************************************************************)
IsSequence(x) == \E S : x \in Seq(S)

\* A graph has the fields of CSRGraph, and a log for each leaf.
GraphShape(g) ==
  /\ g = [vertices_ |-> g.vertices_, edges_ |-> g.edges_, log_ |-> g.log_,
          elem_capacity |-> g.elem_capacity, num_edges_ |-> g.num_edges_,
          segment_edges_actual |-> g.segment_edges_actual,
          segment_edges_total |-> g.segment_edges_total]
  /\ g.log_ = [s \in Leaves |-> g.log_[s]]

LogsAreSequences(g) == \A s \in Leaves : IsSequence(g.log_[s])

\* Graph h has the shape and the capacity of g.
Keeps(g, h) ==
  /\ GraphShape(h) /\ h.elem_capacity = g.elem_capacity
  /\ LogsAreSequences(g) => LogsAreSequences(h)

\* The empty list of a log is a sequence.
LEMMA EmptyIsSequence == IsSequence(<<>>)
<1>1. <<>> \in Seq({})
  OBVIOUS
<1>2. QED
  BY <1>1 DEF IsSequence

\* Appending gives a sequence.
LEMMA AppendIsSequence == ASSUME NEW s, IsSequence(s), NEW e PROVE IsSequence(Append(s, e))
<1>1. PICK S : s \in Seq(S)
  BY DEF IsSequence
<1>2. s \in Seq(S \cup {e})
  BY <1>1
<1>3. Append(s, e) \in Seq(S \cup {e})
  BY <1>2
<1>4. QED
  BY <1>3 DEF IsSequence

\* release_log empties logs and does nothing else.
LEMMA ReleaseKeeps ==
  ASSUME NEW g, GraphShape(g), NEW left, NEW right PROVE Keeps(g, release_log(g, left, right))
BY EmptyIsSequence DEF release_log, GraphShape, Keeps, LogsAreSequences

\* A recount changes the totals only.
LEMMA RecountKeeps ==
  ASSUME NEW g, GraphShape(g), NEW left, NEW right
  PROVE  /\ Keeps(g, recount_segment_total(g, left, right))
         /\ recount_segment_total(g, left, right).log_ = g.log_
         /\ recount_segment_total(g, left, right).edges_ = g.edges_
BY DEF recount_segment_total, GraphShape, Keeps, LogsAreSequences

\* So does an insertion that finds room in place or in the log, except for one
\* cell or one entry.
LEMMA PlaceKeeps ==
  ASSUME NEW g, GraphShape(g), NEW src, NEW dst PROVE Keeps(g, PlaceEdge(g, src, dst))
<1> DEFINE loc == g.vertices_[src].index + g.vertices_[src].degree
           s == SegmentOf(src)
           e == [u |-> src, v |-> dst, prev_offset |-> g.vertices_[src].offset]
           h == insert_into_log(g, s, src, dst)
<1>1. Keeps(g, [g EXCEPT !.edges_[loc] = dst])
  BY DEF GraphShape, Keeps, LogsAreSequences
<1>2. Keeps(g, h)
  <2>1. GraphShape(h) /\ h.elem_capacity = g.elem_capacity
    <3> DEFINE L == [g.log_ EXCEPT ![s] = Append(@, e)]
               V == [g.vertices_ EXCEPT ![src].offset = Len(g.log_[s])]
    <3>1. h = [g EXCEPT !.log_ = L, !.vertices_ = V]
      BY DEF insert_into_log, GraphShape
    <3>2. L = [t \in Leaves |-> L[t]]
      BY DEF GraphShape
    <3> HIDE DEF L, V, h
    <3> QED
      BY <3>1, <3>2 DEF GraphShape
  <2>2. \A t \in Leaves : h.log_[t] = IF t = s THEN Append(g.log_[t], e) ELSE g.log_[t]
    BY DEF GraphShape, insert_into_log
  <2>3. LogsAreSequences(g) => LogsAreSequences(h)
    BY <2>2, AppendIsSequence DEF LogsAreSequences
  <2> QED
    BY <2>1, <2>3 DEF Keeps
<1>3. QED
  BY <1>1, <1>2 DEF PlaceEdge

\* An insertion keeps the shape of the graph in memory.
LEMMA InsertionKeeps ==
  ASSUME NEW g, GraphShape(g), NEW src, NEW dst, ~LogIsFull(g, src)
  PROVE  Keeps(g, do_insertion(g, src, dst))
<1> DEFINE h == PlaceEdge(g, src, dst)
<1>1. Keeps(g, h)
  BY PlaceKeeps
<1>2. do_insertion(g, src, dst) =
        [h EXCEPT !.vertices_[src].degree = @ + 1,
                  !.segment_edges_actual[SegmentOf(src)] = @ + 1,
                  !.num_edges_ = @ + 1]
  BY DEF do_insertion
<1> HIDE DEF h
<1>3. QED
  BY <1>1, <1>2 DEF Keeps, GraphShape, LogsAreSequences

\* Nor do the moves of a rebalance change more than cells and entries.
LEMMA MovesKeep ==
  ASSUME NEW g, GraphShape(g), NEW E, NEW V
  PROVE  Keeps(g, [g EXCEPT !.edges_ = E, !.vertices_ = V])
<1> DEFINE h == [g EXCEPT !.edges_ = E, !.vertices_ = V]
<1>0. h = [g EXCEPT !.edges_ = E, !.vertices_ = V]
  OBVIOUS
<1> HIDE DEF h
<1>1. GraphShape(h) /\ h.log_ = g.log_ /\ h.elem_capacity = g.elem_capacity
  BY <1>0 DEF GraphShape
<1>2. Keeps(g, h)
  BY <1>1 DEF Keeps, GraphShape, LogsAreSequences
<1>3. QED
  BY <1>0, <1>2

\* resize_V1 doubles the array.
LEMMA ResizeShape ==
  ASSUME NEW g, GraphShape(g)
  PROVE  /\ GraphShape(resize_V1(g)) /\ resize_V1(g).elem_capacity = 2 * g.elem_capacity
         /\ LogsAreSequences(g) => LogsAreSequences(resize_V1(g))
<1> DEFINE h == Grown(g)
<1>1. GraphShape(h) /\ h.elem_capacity = 2 * g.elem_capacity /\ h.log_ = g.log_
  <2>1. PICK E, V : h = [g EXCEPT !.elem_capacity = 2 * @, !.edges_ = E, !.vertices_ = V]
    BY Zenon DEF Grown
  <2> HIDE DEF h
  <2> QED
    BY <2>1 DEF GraphShape
<1> HIDE DEF h
<1>2. LogsAreSequences(g) => LogsAreSequences(h)
  BY <1>1 DEF LogsAreSequences
<1>3. resize_V1(g) = release_log(recount_segment_total(h, 0, leaf_count), 0, leaf_count)
  BY DEF resize_V1, h
<1>4. QED
  BY <1>1, <1>2, <1>3, RecountKeeps, ReleaseKeeps DEF Keeps

\* The base graph has the capacity compute_capacity has computed.
LEMMA BaseShape ==
  /\ GraphShape(BaseGraph) /\ BaseGraph.elem_capacity = initial_capacity
  /\ LogsAreSequences(BaseGraph)
<1>1. GraphShape(Packed) /\ Packed.elem_capacity = initial_capacity /\ LogsAreSequences(Packed)
  BY EmptyIsSequence DEF Packed, GraphShape, LogsAreSequences
<1>2. PICK E, V : BaseGraph =
        recount_segment_total([Packed EXCEPT !.edges_ = E, !.vertices_ = V], 0, leaf_count)
  BY Zenon DEF BaseGraph, spread_weighted
<1> DEFINE moved == [Packed EXCEPT !.edges_ = E, !.vertices_ = V]
<1>3. Keeps(Packed, moved)
  BY <1>1, MovesKeep
<1> HIDE DEF moved
<1>4. Keeps(moved, recount_segment_total(moved, 0, leaf_count))
  BY <1>3, RecountKeeps DEF Keeps
<1>5. BaseGraph = recount_segment_total(moved, 0, leaf_count)
  BY <1>2 DEF moved
<1>6. QED
  BY <1>1, <1>3, <1>4, <1>5 DEF Keeps

-----------------------------------------------------------------------------
(***************************************************************************)
(* Dividing the vertices among the leaves.                                  *)
(***************************************************************************)

\* What a quotient is.
LEMMA Quotient ==
  ASSUME NEW k \in Nat \ {0}, NEW v \in Nat
  PROVE  /\ v \div k \in Nat
         /\ (v \div k) * k <= v /\ v < (v \div k) * k + k
OBVIOUS

\* There is only one.
LEMMA QuotientIs ==
  ASSUME NEW k \in Nat \ {0}, NEW v \in Nat, NEW q \in Nat, q * k <= v, v < q * k + k
  PROVE  v \div k = q
<1>1. PICK r \in Nat : r = v \div k /\ r * k <= v /\ v < r * k + k
  BY Quotient
<1>2. r * k \in Nat /\ q * k \in Nat
  OBVIOUS
<1>3. r <= q
  <2> SUFFICES ASSUME q + 1 <= r PROVE FALSE
    OBVIOUS
  <2>1. (q + 1) * k <= r * k
    OBVIOUS
  <2>2. (q + 1) * k = q * k + k
    OBVIOUS
  <2> QED
    BY <1>1, <1>2, <2>1, <2>2
<1>4. q <= r
  <2> SUFFICES ASSUME r + 1 <= q PROVE FALSE
    OBVIOUS
  <2>1. (r + 1) * k <= q * k
    OBVIOUS
  <2>2. (r + 1) * k = r * k + k
    OBVIOUS
  <2> QED
    BY <1>1, <1>2, <2>1, <2>2
<1> QED
  BY <1>1, <1>3, <1>4

\* Multiples are ordered as their factors, and a step apart.
LEMMA Multiples ==
  ASSUME NEW k \in Nat \ {0}, NEW p \in Nat, NEW q \in Nat
  PROVE  /\ p * k \in Nat /\ (p + 1) * k = p * k + k
         /\ p <= q => p * k <= q * k
         /\ p < q => p * k + k <= q * k
<1>1. p * k \in Nat /\ q * k \in Nat /\ (p + 1) * k = p * k + k
  OBVIOUS
<1>2. p <= q => p * k <= q * k
  OBVIOUS
<1>3. p + 1 <= q => (p + 1) * k <= q * k
  OBVIOUS
<1> QED
  BY <1>1, <1>2, <1>3

\* The first vertex of leaf s; that of leaf leaf_count is num_vertices.
first(s) == s * segment_size

\* The first vertices of the leaves are vertices, in order.
LEMMA Firsts ==
  /\ first(0) = 0 /\ first(leaf_count) = num_vertices
  /\ \A s \in 0 .. leaf_count :
       /\ first(s) \in 0 .. num_vertices
       /\ first(s) \div segment_size = s /\ SegmentOf(first(s)) = s
       /\ s # leaf_count => /\ first(s) \in Vertices
                            /\ s + 1 \in 0 .. leaf_count
                            /\ first(s + 1) = first(s) + segment_size
                            /\ (s + 1) * segment_size - 1 \in Vertices
       /\ \A r \in 0 .. leaf_count : s < r => first(s) < first(r)
<1> DEFINE k == segment_size
           n == leaf_count
<1>0. k \in Nat \ {0} /\ n \in Nat \ {0} /\ num_vertices = n * k
  BY TreeShape DEF num_vertices
<1>v. Vertices = 0 .. (n * k) - 1
  BY <1>0 DEF Vertices
<1> HIDE DEF k, n
<1>1. ASSUME NEW s \in 0 .. n
      PROVE  /\ s * k \in 0 .. n * k
             /\ (s * k) \div k = s
             /\ s # n => /\ s * k \in 0 .. (n * k) - 1
                         /\ s + 1 \in 0 .. n
                         /\ (s + 1) * k = s * k + k
                         /\ (s + 1) * k - 1 \in 0 .. (n * k) - 1
             /\ \A r \in 0 .. n : s < r => s * k < r * k
  <2>1. s \in Nat /\ n \in Nat /\ s <= n
    BY <1>0
  <2>2. s * k \in Nat /\ n * k \in Nat /\ s * k <= n * k
    BY <1>0, <2>1, Multiples
  <2>3. (s * k) \div k = s
    BY <1>0, <2>1, <2>2, QuotientIs
  <2>4. s # n => s * k + k <= n * k
    BY <1>0, <2>1, Multiples
  <2>5. (s + 1) * k = s * k + k
    BY <1>0, <2>1, Multiples
  <2>6. ASSUME NEW r \in 0 .. n, s < r PROVE s * k < r * k
    <3>1. r * k \in Nat /\ s * k + k <= r * k
      BY <1>0, <2>1, <2>6, Multiples
    <3> QED
      BY <1>0, <2>2, <3>1
  <2> QED
    BY <1>0, <2>1, <2>2, <2>3, <2>4, <2>5, <2>6
<1>2. 0 * k = 0
  BY <1>0
<1> QED
  BY <1>0, <1>v, <1>1, <1>2 DEF first, SegmentOf, k, n

\* The vertices of leaf s are those from first(s) to before first(s + 1).
LEMMA LeafOfVertex ==
  ASSUME NEW v \in Vertices
  PROVE  /\ SegmentOf(v) \in Leaves
         /\ \A s \in Leaves : SegmentOf(v) = s <=> first(s) <= v /\ v < first(s + 1)
<1> DEFINE k == segment_size
           n == leaf_count
<1>0. k \in Nat \ {0} /\ n \in Nat \ {0} /\ v \in 0 .. (n * k) - 1
  BY TreeShape DEF num_vertices, Vertices
<1> HIDE DEF k, n
<1>1. PICK q \in Nat : q = v \div k /\ q * k <= v /\ v < q * k + k
  <2>1. n * k \in Nat
    BY <1>0
  <2> QED
    BY <1>0, <2>1, Quotient
<1>2. q < n
  <2> SUFFICES ASSUME n <= q PROVE FALSE
    BY <1>0
  <2>1. n * k <= q * k /\ n * k \in Nat /\ q * k \in Nat
    BY <1>0, Multiples
  <2> QED
    BY <1>0, <1>1, <2>1
<1>3. ASSUME NEW s \in 0 .. n - 1
      PROVE  q = s <=> s * k <= v /\ v < (s + 1) * k
  <2>1. s \in Nat /\ (s + 1) * k = s * k + k /\ s * k \in Nat
    BY <1>0, Multiples
  <2>2. v \in Nat
    <3>1. n * k \in Nat
      BY <1>0
    <3> QED
      BY <1>0, <3>1
  <2>3. s * k <= v /\ v < s * k + k => v \div k = s
    BY <1>0, <2>1, <2>2, QuotientIs
  <2> QED
    BY <1>1, <2>1, <2>3
<1>4. q \in 0 .. n - 1
  BY <1>0, <1>2
<1>5. SegmentOf(v) = q
  BY <1>1 DEF SegmentOf, k
<1> QED
  BY <1>3, <1>4, <1>5 DEF Leaves, n, k, first

-----------------------------------------------------------------------------
(***************************************************************************)
(* calculate_positions.                                                     *)
(***************************************************************************)
Entry == [index : Int, degree : Nat \ {0}, offset : Int]

\* The gap calculate_positions leaves after vertex i.
GapAfter(g, i, step) == (step * (g.vertices_[i].degree + 1)) \div precision_pos

\* The positions are numbers, the first vertex keeps its own, and each of the
\* others starts a gap after the one before.
LEMMA PositionsAre ==
  ASSUME NEW g, g.vertices_ \in [Vertices -> Entry],
         NEW a \in Nat, NEW b \in Nat, a < b, b <= num_vertices,
         NEW gaps \in Int, NEW total \in Nat
  PROVE  LET N == calculate_positions(g, a, b, gaps, total)
             step == PositionStep(a, b, gaps, total)
         IN /\ step \in Int
            /\ N \in [a .. b - 1 -> Int]
            /\ N[a] = g.vertices_[a].index
            /\ \A i \in a .. b - 2 :
                 /\ GapAfter(g, i, step) \in Int
                 /\ N[i + 1] = N[i] + g.vertices_[i].degree + GapAfter(g, i, step)
<1> DEFINE step == PositionStep(a, b, gaps, total)
           I == a .. b - 1
           move(i) == g.vertices_[i].degree + GapAfter(g, i, step)
           first0 == g.vertices_[a].index
           at(f) == [i \in I |-> IF i = a THEN g.vertices_[i].index
                                 ELSE f[i - 1] + g.vertices_[i - 1].degree
                                        + ((step * (g.vertices_[i - 1].degree + 1)) \div precision_pos)]
           rule == [p \in Int \X Nat |-> IF a + p[2] \in I THEN p[1] + move(a + p[2]) ELSE 0]
<1>0. I \subseteq Vertices /\ a \in I
  BY TreeShape DEF Vertices
<1>1. step \in Int
  <2>1. precision_pos \in Nat \ {0}
    BY PmaAssumption
  <2>2. total + b - a \in Nat \ {0}
    OBVIOUS
  <2>3. gaps * precision_pos \in Int
    BY <2>1
  <2> QED
    BY <2>2, <2>3 DEF PositionStep
<1> HIDE DEF step
<1>2. \A i \in I : g.vertices_[i].index \in Int /\ g.vertices_[i].degree \in Nat \ {0}
  BY <1>0 DEF Entry
<1>3. \A i \in I : GapAfter(g, i, step) \in Int
  <2> SUFFICES ASSUME NEW i \in I PROVE GapAfter(g, i, step) \in Int
    OBVIOUS
  <2>1. step * (g.vertices_[i].degree + 1) \in Int
    BY <1>1, <1>2
  <2> HIDE DEF I
  <2> QED
    BY <2>1, PmaAssumption DEF GapAfter
<1>4. \A i \in I : move(i) \in Int
  BY <1>2, <1>3
<1>5. rule \in [Int \X Nat -> Int]
  <2> HIDE DEF move, I
  <2> QED
    BY <1>4
<1>6. first0 \in Int
  BY <1>0, <1>2
<1> HIDE DEF rule, first0
<1>7. PICK F \in [Nat -> Int] : Recurs(F, first0, rule)
  BY <1>5, <1>6, Recursion
<1>8. F[0] = first0 /\ \A n \in Nat : F[n + 1] = rule[<<F[n], n>>]
  BY <1>7 DEF Recurs
<1>9. \A n \in Nat : a + n \in I => F[n + 1] = F[n] + move(a + n)
  <2> HIDE DEF move, I
  <2> SUFFICES ASSUME NEW n \in Nat, a + n \in I PROVE F[n + 1] = F[n] + move(a + n)
    OBVIOUS
  <2>1. rule[<<F[n], n>>] = F[n] + move(a + n)
    <3>1. F[n] \in Int /\ <<F[n], n>> \in Int \X Nat /\ <<F[n], n>>[1] = F[n] /\ <<F[n], n>>[2] = n
      OBVIOUS
    <3> QED
      BY <3>1 DEF rule
  <2> QED
    BY <1>8, <2>1
<1> DEFINE f == [i \in I |-> F[i - a]]
<1>10. f = at(f)
  <2> SUFFICES ASSUME NEW i \in I PROVE f[i] = at(f)[i]
    OBVIOUS
  <2>1. CASE i = a
    <3>1. f[a] = F[0]
      BY <1>0
    <3> HIDE DEF f
    <3> QED
      BY <1>0, <1>8, <2>1, <3>1 DEF first0
  <2>2. CASE i # a
    <3>1. i - 1 \in I /\ i - 1 - a \in Nat /\ a + (i - 1 - a) = i - 1 /\ (i - 1 - a) + 1 = i - a
      BY <2>2
    <3>2. F[i - a] = F[i - 1 - a] + move(i - 1)
      <4> HIDE DEF move, I
      <4> QED
        BY <1>9, <3>1
    <3>3. f[i] = f[i - 1] + move(i - 1)
      BY <3>1, <3>2
    <3>4. f[i - 1] \in Int
      BY <3>1
    <3>5. at(f)[i] = f[i - 1] + g.vertices_[i - 1].degree + GapAfter(g, i - 1, step)
      BY <2>2 DEF GapAfter
    <3> HIDE DEF f, at
    <3>6. g.vertices_[i - 1].degree \in Int /\ GapAfter(g, i - 1, step) \in Int
      BY <1>2, <1>3, <3>1
    <3> QED
      BY <3>3, <3>4, <3>5, <3>6
  <2> QED
    BY <2>1, <2>2
<1> DEFINE N == calculate_positions(g, a, b, gaps, total)
<1>11. N = CHOOSE x : x = at(x)
  BY DEF calculate_positions, step
<1> HIDE DEF f, N
<1>12. N = at(N)
  <2> HIDE DEF at
  <2> QED
    BY <1>10, <1>11
<1>13. N[a] = g.vertices_[a].index
  BY <1>0, <1>12
<1>14. \A i \in a .. b - 2 : N[i + 1] = N[i] + g.vertices_[i].degree + GapAfter(g, i, step)
  <2> SUFFICES ASSUME NEW i \in a .. b - 2
               PROVE  N[i + 1] = N[i] + g.vertices_[i].degree + GapAfter(g, i, step)
    OBVIOUS
  <2>1. i + 1 \in I /\ i + 1 # a /\ (i + 1) - 1 = i
    OBVIOUS
  <2>2. at(N)[i + 1] = N[i] + g.vertices_[i].degree + GapAfter(g, i, step)
    BY <2>1 DEF GapAfter
  <2> HIDE DEF at
  <2> QED
    BY <1>12, <2>2
<1>15. N \in [I -> Int]
  <2> DEFINE D == {n \in Nat : a + n \in I => N[a + n] \in Int}
  <2>1. 0 \in D
    BY <1>0, <1>2, <1>13
  <2>2. \A n \in Nat : n \in D => n + 1 \in D
    <3> SUFFICES ASSUME NEW n \in Nat, n \in D, a + (n + 1) \in I PROVE N[a + (n + 1)] \in Int
      OBVIOUS
    <3>1. a + n \in a .. b - 2 /\ a + n \in I /\ a + (n + 1) = (a + n) + 1
      OBVIOUS
    <3>2. N[a + n] \in Int
      BY <3>1
    <3>3. N[a + (n + 1)] = N[a + n] + g.vertices_[a + n].degree + GapAfter(g, a + n, step)
      BY <1>14, <3>1
    <3> QED
      BY <1>2, <1>3, <3>1, <3>2, <3>3
  <2> HIDE DEF D
  <2>3. Nat \subseteq D
    BY <2>1, <2>2, Induction
  <2>4. ASSUME NEW i \in I PROVE N[i] \in Int
    <3>1. i - a \in Nat /\ a + (i - a) = i
      OBVIOUS
    <3> QED
      BY <2>3, <3>1 DEF D
  <2> QED
    BY <1>12, <2>4
<1>16. \A i \in a .. b - 2 : GapAfter(g, i, step) \in Int
  <2>1. \A i \in a .. b - 2 : i \in I
    OBVIOUS
  <2> HIDE DEF I
  <2> QED
    BY <1>3, <2>1
<1> QED
  BY <1>1, <1>13, <1>14, <1>15, <1>16 DEF N, step

\* Two bounds on scaled numbers add up.
LEMMA ScaledSum ==
  ASSUME NEW p \in Nat, NEW s \in Nat, NEW w \in Int, NEW m \in Int, NEW q \in Int, NEW d \in Int,
         w * p <= s * m, q * p <= s * d
  PROVE  (w + q) * p <= s * (m + d)
<1>1. (w + q) * p = w * p + q * p
  OBVIOUS
<1>2. s * (m + d) = s * m + s * d
  OBVIOUS
<1>3. w * p \in Int /\ q * p \in Int /\ s * m \in Int /\ s * d \in Int
  OBVIOUS
<1> QED
  BY <1>1, <1>2, <1>3

\* What is scaled down and up again has not grown.
LEMMA ScaledDown ==
  ASSUME NEW p \in Nat \ {0}, NEW w \in Int, NEW s \in Nat, NEW m \in Int, NEW n \in Nat \ {0},
         NEW gaps \in Nat, w * p <= s * m, m <= n, s = (gaps * p) \div n
  PROVE  w <= gaps
<1>1. gaps * p \in Nat
  OBVIOUS
<1>2. s * n <= gaps * p
  BY <1>1, Quotient
<1>3. s * m <= s * n
  OBVIOUS
<1>4. s * m \in Int /\ s * n \in Int /\ w * p \in Int
  OBVIOUS
<1>5. w * p <= gaps * p
  BY <1>1, <1>2, <1>3, <1>4
<1> SUFFICES ASSUME gaps + 1 <= w PROVE FALSE
  OBVIOUS
<1>6. (gaps + 1) * p <= w * p
  OBVIOUS
<1>7. (gaps + 1) * p = gaps * p + p
  OBVIOUS
<1> QED
  BY <1>1, <1>4, <1>5, <1>6, <1>7

\* S[i] is the number of cells the vertices from a to before i need.
CellsBefore(g, a, b, S) ==
  /\ S \in [a .. b -> Nat] /\ S[a] = 0
  /\ \A i \in a .. b - 1 : S[i + 1] = S[i] + g.vertices_[i].degree

\* If the window has gaps, calculate_positions leaves each vertex room for its
\* edges and the last one ends inside the window: the truncated steps add up to
\* no more than the gaps.
LEMMA PositionsFit ==
  ASSUME NEW g, g.vertices_ \in [Vertices -> Entry],
         NEW a \in Nat, NEW b \in Nat, a < b, b <= num_vertices,
         NEW gaps \in Nat, NEW total \in Nat,
         NEW S, CellsBefore(g, a, b, S), S[b] = total
  PROVE  LET N == calculate_positions(g, a, b, gaps, total)
         IN /\ \A i \in a .. b - 2 : N[i] + g.vertices_[i].degree <= N[i + 1]
            /\ N[b - 1] + g.vertices_[b - 1].degree <= g.vertices_[a].index + total + gaps
<1> DEFINE N == calculate_positions(g, a, b, gaps, total)
           step == PositionStep(a, b, gaps, total)
           d(i) == g.vertices_[i].degree
           gap(i) == GapAfter(g, i, step)
           base == g.vertices_[a].index
           n == total + b - a
<1>1. /\ step \in Int
      /\ N \in [a .. b - 1 -> Int]
      /\ N[a] = base
      /\ \A i \in a .. b - 2 : gap(i) \in Int /\ N[i + 1] = N[i] + d(i) + gap(i)
  <2>1. gaps \in Int
    OBVIOUS
  <2>2. /\ step \in Int
        /\ N \in [a .. b - 1 -> Int]
        /\ N[a] = g.vertices_[a].index
        /\ \A i \in a .. b - 2 :
             /\ GapAfter(g, i, step) \in Int
             /\ N[i + 1] = N[i] + g.vertices_[i].degree + GapAfter(g, i, step)
    BY <2>1, PositionsAre, SMTT(30)
  <2> QED
    BY <2>2
<1>2. /\ precision_pos \in Nat \ {0} /\ n \in Nat \ {0} /\ base \in Int
      /\ \A i \in a .. b - 1 : d(i) \in Nat \ {0}
  <2>1. a .. b - 1 \subseteq Vertices /\ a \in Vertices
    BY TreeShape DEF Vertices
  <2> QED
    BY <2>1, PmaAssumption DEF Entry
<1>3. step \in Nat /\ step = (gaps * precision_pos) \div n
  <2>1. gaps * precision_pos \in Nat
    BY <1>2
  <2>2. step = (gaps * precision_pos) \div n
    BY DEF PositionStep
  <2> HIDE DEF n, step
  <2> QED
    BY <1>2, <2>1, <2>2, Quotient
<1>4. \A i \in a .. b - 2 : gap(i) \in Nat /\ gap(i) * precision_pos <= step * (d(i) + 1)
  <2> SUFFICES ASSUME NEW i \in a .. b - 2
               PROVE  gap(i) \in Nat /\ gap(i) * precision_pos <= step * (d(i) + 1)
    OBVIOUS
  <2>1. i \in a .. b - 1
    OBVIOUS
  <2>4. d(i) + 1 \in Nat
    BY <1>2, <2>1
  <2>2. step * (d(i) + 1) \in Nat
    <3> HIDE DEF d, step
    <3> QED
      BY <1>3, <2>4
  <2>3. gap(i) = (step * (d(i) + 1)) \div precision_pos
    BY DEF GapAfter
  <2> HIDE DEF gap, step, d
  <2> QED
    BY <1>2, <2>2, <2>3, Quotient
<1>s. /\ \A i \in a .. b : S[i] \in Nat
      /\ S[a] = 0
      /\ \A i \in a .. b - 1 : S[i + 1] = S[i] + d(i)
  BY DEF CellsBefore
<1> HIDE DEF N, step, gap, d, base, n
<1>5. \A i \in a .. b - 2 : N[i] + d(i) <= N[i + 1]
  <2> SUFFICES ASSUME NEW i \in a .. b - 2 PROVE N[i] + d(i) <= N[i + 1]
    OBVIOUS
  <2>1. i \in a .. b - 1
    OBVIOUS
  <2>2. N[i] \in Int /\ d(i) \in Nat /\ gap(i) \in Nat /\ N[i + 1] = N[i] + d(i) + gap(i)
    BY <1>1, <1>2, <1>4, <2>1
  <2> QED
    BY <2>2
<1> DEFINE w(i) == N[i] - base - S[i]
           D == {k \in Nat : a + k < b =>
                   w(a + k) * precision_pos <= step * (S[a + k] + k)}
<1>6. 0 \in D
  <2>1. w(a) = 0
    BY <1>1, <1>2, <1>s
  <2>2. a + 0 = a /\ S[a] + 0 = 0
    BY <1>s
  <2> HIDE DEF w
  <2>3. w(a) * precision_pos = 0 /\ step * 0 = 0
    BY <1>2, <1>3, <2>1
  <2> QED
    BY <2>2, <2>3
<1>7. \A k \in Nat : k \in D => k + 1 \in D
  <2> SUFFICES ASSUME NEW k \in Nat, k \in D, a + (k + 1) < b
               PROVE  w(a + (k + 1)) * precision_pos <= step * (S[a + (k + 1)] + (k + 1))
    OBVIOUS
  <2> DEFINE i == a + k
  <2>1. i \in a .. b - 2 /\ i \in a .. b - 1 /\ i + 1 \in a .. b - 1 /\ i \in a .. b /\ i + 1 \in a .. b
        /\ a + (k + 1) = i + 1 /\ a + k < b
    OBVIOUS
  <2>2. w(i) * precision_pos <= step * (S[i] + k)
    BY <2>1
  <2> HIDE DEF i, D
  <2>3. S[i + 1] = S[i] + d(i) /\ S[i] \in Nat /\ d(i) \in Nat
    BY <1>2, <1>s, <2>1
  <2>4. N[i + 1] = N[i] + d(i) + gap(i) /\ N[i] \in Int /\ gap(i) \in Nat
    BY <1>1, <1>4, <2>1
  <2>5. w(i) \in Int /\ w(i + 1) = w(i) + gap(i)
    BY <1>2, <2>3, <2>4
  <2>6. gap(i) * precision_pos <= step * (d(i) + 1)
    BY <1>4, <2>1
  <2> HIDE DEF w
  <2>7. (w(i) + gap(i)) * precision_pos <= step * ((S[i] + k) + (d(i) + 1))
    <3>1. precision_pos \in Nat /\ S[i] + k \in Int /\ d(i) + 1 \in Int /\ gap(i) \in Int
      BY <1>2, <2>3, <2>4
    <3> QED
      BY <1>3, <2>2, <2>5, <2>6, <3>1, ScaledSum
  <2>8. (S[i] + k) + (d(i) + 1) = S[i + 1] + (k + 1)
    BY <2>3
  <2> QED
    BY <2>1, <2>5, <2>7, <2>8
<1> HIDE DEF D
<1>8. Nat \subseteq D
  BY <1>6, <1>7, Induction
<1>9. w(b - 1) <= gaps
  <2> DEFINE k == b - 1 - a
  <2>1. k \in Nat /\ a + k = b - 1 /\ a + k < b /\ b - 1 \in a .. b - 1 /\ b - 1 \in a .. b
    OBVIOUS
  <2>2. w(b - 1) * precision_pos <= step * (S[b - 1] + k)
    BY <1>8, <2>1 DEF D
  <2>3. S[b] = S[b - 1] + d(b - 1) /\ S[b - 1] \in Nat /\ d(b - 1) \in Nat
    <3>1. (b - 1) + 1 = b
      OBVIOUS
    <3> QED
      BY <1>2, <1>s, <2>1, <3>1
  <2>4. S[b - 1] + k <= n /\ S[b - 1] + k \in Int
    BY <2>1, <2>3 DEF n
  <2>5. w(b - 1) \in Int
    BY <1>1, <1>2, <2>1, <2>3
  <2> HIDE DEF w, k
  <2> QED
    BY <1>2, <1>3, <2>2, <2>4, <2>5, ScaledDown
<1>10. N[b - 1] + d(b - 1) <= base + total + gaps
  <2>1. b - 1 \in a .. b - 1 /\ b - 1 \in a .. b /\ (b - 1) + 1 = b
    OBVIOUS
  <2>2. S[b] = S[b - 1] + d(b - 1) /\ S[b - 1] \in Nat /\ d(b - 1) \in Nat /\ N[b - 1] \in Int
    BY <1>1, <1>2, <1>s, <2>1
  <2>3. base \in Int /\ w(b - 1) = N[b - 1] - base - S[b - 1] /\ w(b - 1) <= gaps /\ S[b] = total
    BY <1>2, <1>9
  <2> HIDE DEF w
  <2> QED
    BY <2>2, <2>3
<1> QED
  BY <1>5, <1>10 DEF N, d, base

-----------------------------------------------------------------------------
(***************************************************************************)
(* The counts: sums over consecutive vertices and leaves.                   *)
(***************************************************************************)

\* The sum over an interval is the one without the last element, plus that; the
\* sum over an empty one is 0.
LEMMA SumNext ==
  ASSUME NEW a \in Int, NEW b \in Int, NEW f, \A x \in a .. b : f[x] \in Int
  PROVE  /\ SumOver(f, a .. b) \in Int
         /\ b < a => SumOver(f, a .. b) = 0
         /\ a <= b => SumOver(f, a .. b) = SumOver(f, a .. b - 1) + f[b]
<1>1. IsFiniteSet(a .. b)
  BY FS_Interval
<1>2. /\ SumFunctionOnSet(f, a .. b) \in Int
      /\ SumFunctionOnSet(f, {}) = 0
      /\ \A x \in a .. b :
           /\ SumFunctionOnSet(f, (a .. b) \ {x}) \in Int
           /\ SumFunctionOnSet(f, a .. b) = f[x] + SumFunctionOnSet(f, (a .. b) \ {x})
  BY <1>1, SumLaws
<1>3. ASSUME b < a PROVE SumFunctionOnSet(f, a .. b) = 0
  <2>1. a .. b = {}
    BY <1>3
  <2> QED
    BY <1>2, <2>1
<1>4. ASSUME a <= b PROVE SumFunctionOnSet(f, a .. b) = SumFunctionOnSet(f, a .. b - 1) + f[b]
  <2>1. b \in a .. b /\ (a .. b) \ {b} = a .. b - 1
    BY <1>4
  <2>2. /\ SumFunctionOnSet(f, a .. b - 1) \in Int /\ f[b] \in Int
        /\ SumFunctionOnSet(f, a .. b) = f[b] + SumFunctionOnSet(f, a .. b - 1)
    BY <1>2, <2>1
  <2> QED
    BY <2>2
<1> QED
  BY <1>2, <1>3, <1>4 DEF SumOver

Differences(f, h, a, b) == \A x \in a .. b - 1 : f[x] = h[x + 1] - h[x]

\* Differences of consecutive values add up to the difference of the ends.
LEMMA SumTelescopes ==
  ASSUME NEW a \in Int, NEW b \in Int, a <= b,
         NEW h, \A x \in a .. b : h[x] \in Int,
         NEW f, Differences(f, h, a, b)
  PROVE  SumOver(f, a .. b - 1) = h[b] - h[a]
<1> DEFINE D == {n \in Nat : a + n <= b => SumOver(f, a .. (a + n) - 1) = h[a + n] - h[a]}
<1>0. \A x \in a .. b - 1 : x + 1 \in a .. b /\ x \in a .. b /\ f[x] \in Int
  BY DEF Differences
<1>1. 0 \in D
  <2>1. SumOver(f, a .. (a + 0) - 1) = 0
    <3>1. (a + 0) - 1 \in Int /\ (a + 0) - 1 < a
      OBVIOUS
    <3>2. \A x \in a .. (a + 0) - 1 : f[x] \in Int
      OBVIOUS
    <3> QED
      BY <3>1, <3>2, SumNext
  <2>2. a + 0 = a /\ h[a] \in Int
    OBVIOUS
  <2> QED
    BY <2>1, <2>2
<1>2. \A n \in Nat : n \in D => n + 1 \in D
  <2> SUFFICES ASSUME NEW n \in Nat, n \in D, a + (n + 1) <= b
               PROVE  SumOver(f, a .. (a + (n + 1)) - 1) = h[a + (n + 1)] - h[a]
    OBVIOUS
  <2> DEFINE i == a + n
  <2>1. i \in a .. b - 1 /\ i + 1 \in a .. b /\ (a + (n + 1)) - 1 = i /\ a + (n + 1) = i + 1
        /\ a <= i /\ a \in a .. b /\ i \in a .. b
    OBVIOUS
  <2>2. SumOver(f, a .. i - 1) = h[i] - h[a]
    BY <2>1
  <2> HIDE DEF D, i
  <2>3. \A x \in a .. i : f[x] \in Int
    <3>1. \A x \in a .. i : x \in a .. b - 1
      BY <2>1
    <3> QED
      BY <1>0, <3>1
  <2>4. SumOver(f, a .. i) = SumOver(f, a .. i - 1) + f[i]
    <3>1. i \in Int
      BY <2>1
    <3> QED
      BY <2>1, <2>3, <3>1, SumNext
  <2>5. f[i] = h[i + 1] - h[i] /\ h[i] \in Int /\ h[i + 1] \in Int /\ h[a] \in Int
    BY <2>1 DEF Differences
  <2>6. SumOver(f, a .. i) = h[i + 1] - h[a]
    BY <2>2, <2>4, <2>5
  <2>7. a .. (a + (n + 1)) - 1 = a .. i /\ h[a + (n + 1)] = h[i + 1]
    BY <2>1
  <2> QED
    BY <2>6, <2>7, Zenon
<1> HIDE DEF D
<1>3. Nat \subseteq D
  BY <1>1, <1>2, Induction
<1>4. b - a \in Nat /\ a + (b - a) = b
  OBVIOUS
<1>5. SumOver(f, a .. (a + (b - a)) - 1) = h[a + (b - a)] - h[a]
  <2>1. b - a \in D
    BY <1>3, <1>4
  <2> QED
    BY <1>4, <2>1 DEF D
<1> QED
  BY <1>4, <1>5

\* There are such numbers for all vertices.
LEMMA CellsAre ==
  ASSUME NEW g, g.vertices_ \in [Vertices -> Entry]
  PROVE  \E P : CellsBefore(g, 0, num_vertices, P)
<1> DEFINE F == [v \in Vertices |-> g.vertices_[v].degree]
           P == [i \in 0 .. num_vertices |-> SumOver(F, 0 .. i - 1)]
<1>0. num_vertices \in Nat \ {0} /\ Vertices = 0 .. num_vertices - 1
  BY TreeShape DEF Vertices
<1>1. \A v \in Vertices : F[v] \in Nat /\ F[v] = g.vertices_[v].degree
  BY DEF Entry
<1> HIDE DEF F
<1>2. ASSUME NEW i \in 0 .. num_vertices
      PROVE  /\ SumOver(F, 0 .. i - 1) \in Int
             /\ i = 0 => SumOver(F, 0 .. i - 1) = 0
             /\ i < num_vertices => SumOver(F, 0 .. i) = SumOver(F, 0 .. i - 1) + F[i]
  <2>1. i - 1 \in Int /\ i \in Int /\ \A x \in 0 .. i - 1 : F[x] \in Int
    <3>1. \A x \in 0 .. i - 1 : x \in Vertices
      BY <1>0
    <3> QED
      BY <1>0, <1>1, <3>1
  <2>2. SumOver(F, 0 .. i - 1) \in Int /\ (i - 1 < 0 => SumOver(F, 0 .. i - 1) = 0)
    BY <2>1, SumNext
  <2>3. ASSUME i < num_vertices PROVE SumOver(F, 0 .. i) = SumOver(F, 0 .. i - 1) + F[i]
    <3>1. \A x \in 0 .. i : F[x] \in Int
      <4>1. \A x \in 0 .. i : x \in Vertices
        BY <1>0, <2>3
      <4> QED
        BY <1>1, <4>1
    <3> QED
      BY <2>1, <3>1, SumNext
  <2> QED
    BY <2>1, <2>2, <2>3
<1>3. P[0] = 0 /\ \A i \in 0 .. num_vertices : P[i] \in Int
  <2>1. 0 \in 0 .. num_vertices
    BY <1>0
  <2> QED
    BY <1>2, <2>1
<1>4. \A i \in 0 .. num_vertices - 1 : P[i + 1] = P[i] + g.vertices_[i].degree
  <2> SUFFICES ASSUME NEW i \in 0 .. num_vertices - 1
               PROVE  P[i + 1] = P[i] + g.vertices_[i].degree
    OBVIOUS
  <2>1. i \in 0 .. num_vertices /\ i + 1 \in 0 .. num_vertices /\ i < num_vertices /\ (i + 1) - 1 = i
    BY <1>0
  <2>2. P[i + 1] = SumOver(F, 0 .. i)
    BY <2>1
  <2>3. P[i] = SumOver(F, 0 .. i - 1)
    BY <2>1
  <2> HIDE DEF P
  <2> QED
    BY <1>0, <1>1, <1>2, <2>1, <2>2, <2>3
<1>5. DOMAIN P = 0 .. num_vertices /\ P = [i \in 0 .. num_vertices |-> P[i]]
  OBVIOUS
<1> HIDE DEF P
<1> DEFINE D == {n \in Nat : n <= num_vertices => P[n] \in Nat}
<1>6. 0 \in D
  BY <1>3
<1>7. \A n \in Nat : n \in D => n + 1 \in D
  <2> SUFFICES ASSUME NEW n \in Nat, n \in D, n + 1 <= num_vertices PROVE P[n + 1] \in Nat
    OBVIOUS
  <2>1. n \in 0 .. num_vertices - 1 /\ P[n] \in Nat
    BY <1>0
  <2>2. g.vertices_[n].degree \in Nat
    BY <1>0, <1>1, <2>1
  <2>3. P[n + 1] = P[n] + g.vertices_[n].degree
    BY <1>4, <2>1
  <2> QED
    BY <2>1, <2>2, <2>3
<1> HIDE DEF D
<1>8. Nat \subseteq D
  BY <1>6, <1>7, Induction
<1>9. \A i \in 0 .. num_vertices : P[i] \in Nat
  <2>1. \A i \in 0 .. num_vertices : i \in Nat /\ i <= num_vertices
    BY <1>0
  <2> QED
    BY <1>8, <2>1 DEF D
<1>10. P \in [0 .. num_vertices -> Nat]
  BY <1>5, <1>9
<1> QED
  BY <1>3, <1>4, <1>10 DEF CellsBefore

\* Where the cells of leaf r begin; those of leaf leaf_count would begin at the
\* end of the array.
FirstIndex(g, r) == IF r = leaf_count THEN g.elem_capacity ELSE g.vertices_[first(r)].index

Degrees(g) == [v \in Vertices |-> g.vertices_[v].degree]

\* The counts of g are what a count from scratch would give.
CountsOf(g) ==
  /\ g.segment_edges_actual = [s \in Leaves |-> SumOver(Degrees(g), VerticesOf(s))]
  /\ \A s \in Leaves : g.segment_edges_total[s] = FirstIndex(g, s + 1) - FirstIndex(g, s)
  /\ g.num_edges_ = SumOver(g.segment_edges_actual, Leaves)

\* The vertices of a leaf are consecutive.
LEMMA LeafVertices ==
  ASSUME NEW s \in Leaves
  PROVE  VerticesOf(s) = first(s) .. first(s + 1) - 1
<1>1. s \in 0 .. leaf_count /\ s # leaf_count /\ s + 1 \in 0 .. leaf_count
  BY TreeShape DEF Leaves
<1>2. first(s) \in 0 .. num_vertices /\ first(s + 1) \in 0 .. num_vertices
  BY <1>1, Firsts
<1>3. \A v \in Vertices : SegmentOf(v) = s <=> first(s) <= v /\ v < first(s + 1)
  BY LeafOfVertex
<1>4. \A v : v \in Vertices <=> v \in 0 .. num_vertices - 1
  BY DEF Vertices
<1>5. num_vertices \in Nat
  BY TreeShape
<1>6. ASSUME NEW v PROVE v \in VerticesOf(s) <=> v \in first(s) .. first(s + 1) - 1
  <2>1. v \in VerticesOf(s) <=> v \in Vertices /\ SegmentOf(v) = s
    BY DEF VerticesOf
  <2>2. v \in VerticesOf(s) => v \in first(s) .. first(s + 1) - 1
    <3> SUFFICES ASSUME v \in VerticesOf(s) PROVE v \in first(s) .. first(s + 1) - 1
      OBVIOUS
    <3>1. first(s) <= v /\ v < first(s + 1) /\ v \in Int
      BY <1>3, <1>4, <1>5, <2>1
    <3> QED
      BY <1>2, <3>1
  <2>3. v \in first(s) .. first(s + 1) - 1 => v \in VerticesOf(s)
    <3> SUFFICES ASSUME v \in first(s) .. first(s + 1) - 1 PROVE v \in VerticesOf(s)
      OBVIOUS
    <3>1. v \in Int /\ first(s) <= v /\ v < first(s + 1)
      BY <1>2
    <3>2. v \in Vertices
      BY <1>2, <1>4, <1>5, <3>1
    <3> QED
      BY <1>3, <2>1, <3>1, <3>2
  <2> QED
    BY <2>2, <2>3
<1> QED
  BY <1>6

\* A leaf needs the cells its vertices need.
LEMMA LeafSum ==
  ASSUME NEW g, g.vertices_ \in [Vertices -> Entry],
         NEW P, CellsBefore(g, 0, num_vertices, P), NEW s \in Leaves
  PROVE  SumOver(Degrees(g), VerticesOf(s)) = P[first(s + 1)] - P[first(s)]
<1>0. num_vertices \in Nat /\ Vertices = 0 .. num_vertices - 1
  BY TreeShape DEF Vertices
<1>1. s \in 0 .. leaf_count /\ s # leaf_count /\ s + 1 \in 0 .. leaf_count /\ s < s + 1
  BY TreeShape DEF Leaves
<1>2. first(s) \in 0 .. num_vertices /\ first(s + 1) \in 0 .. num_vertices /\ first(s) < first(s + 1)
  BY <1>1, Firsts
<1> DEFINE a == first(s)
           b == first(s + 1)
<1> HIDE DEF a, b
<1>3. a \in 0 .. num_vertices /\ b \in 0 .. num_vertices /\ a < b
  BY <1>2 DEF a, b
<1>4. \A x \in a .. b : P[x] \in Int
  <2>1. \A x \in a .. b : x \in 0 .. num_vertices
    BY <1>0, <1>3
  <2> QED
    BY <2>1 DEF CellsBefore
<1>5. Differences(Degrees(g), P, a, b)
  <2> SUFFICES ASSUME NEW x \in a .. b - 1 PROVE Degrees(g)[x] = P[x + 1] - P[x]
    BY DEF Differences
  <2>1. x \in 0 .. num_vertices - 1 /\ x \in a .. b
    BY <1>0, <1>3
  <2>2. P[x + 1] = P[x] + g.vertices_[x].degree /\ P[x] \in Int
    BY <1>4, <2>1 DEF CellsBefore
  <2>3. Degrees(g)[x] = g.vertices_[x].degree /\ g.vertices_[x].degree \in Int
    BY <1>0, <2>1 DEF Degrees, Entry
  <2> QED
    BY <2>2, <2>3
<1>6. SumOver(Degrees(g), a .. b - 1) = P[b] - P[a]
  <2>1. a \in Int /\ b \in Int /\ a <= b
    BY <1>0, <1>3
  <2> QED
    BY <1>4, <1>5, <2>1, SumTelescopes
<1>7. VerticesOf(s) = a .. b - 1
  BY LeafVertices DEF a, b
<1> QED
  BY <1>6, <1>7 DEF a, b

\* So does a window of leaves, by its counts, and its totals are the cells it
\* has.
LEMMA WindowSums ==
  ASSUME NEW g, g.vertices_ \in [Vertices -> Entry], g.elem_capacity \in Int, CountsOf(g),
         NEW P, CellsBefore(g, 0, num_vertices, P),
         NEW left \in 0 .. leaf_count, NEW right \in 0 .. leaf_count, left <= right
  PROVE  /\ SumOver(g.segment_edges_actual, left .. right - 1) = P[first(right)] - P[first(left)]
         /\ SumOver(g.segment_edges_total, left .. right - 1) = FirstIndex(g, right) - FirstIndex(g, left)
<1>0. /\ leaf_count \in Nat \ {0} /\ num_vertices \in Nat
      /\ left \in Int /\ right \in Int /\ Leaves = 0 .. leaf_count - 1
  BY TreeShape DEF Leaves
<1> DEFINE H == [r \in 0 .. leaf_count |-> P[first(r)]]
           T == [r \in 0 .. leaf_count |-> FirstIndex(g, r)]
<1>1. \A r \in 0 .. leaf_count : P[first(r)] \in Int /\ FirstIndex(g, r) \in Int
  <2> SUFFICES ASSUME NEW r \in 0 .. leaf_count
               PROVE  P[first(r)] \in Int /\ FirstIndex(g, r) \in Int
    OBVIOUS
  <2>1. first(r) \in 0 .. num_vertices /\ (r # leaf_count => first(r) \in Vertices)
    BY Firsts
  <2>2. P[first(r)] \in Int
    BY <2>1 DEF CellsBefore
  <2>3. r # leaf_count => g.vertices_[first(r)].index \in Int
    BY <2>1 DEF Entry
  <2> QED
    BY <2>2, <2>3 DEF FirstIndex
<1>2. \A x \in left .. right : x \in 0 .. leaf_count /\ H[x] \in Int /\ T[x] \in Int
  BY <1>0, <1>1
<1>3. \A x \in left .. right - 1 : x \in Leaves /\ x \in 0 .. leaf_count /\ x + 1 \in 0 .. leaf_count
  BY <1>0
<1>4. Differences(g.segment_edges_actual, H, left, right)
  <2> SUFFICES ASSUME NEW x \in left .. right - 1
               PROVE  g.segment_edges_actual[x] = H[x + 1] - H[x]
    BY DEF Differences
  <2>1. g.segment_edges_actual[x] = P[first(x + 1)] - P[first(x)]
    BY <1>3, LeafSum DEF CountsOf
  <2> QED
    BY <1>3, <2>1
<1>5. Differences(g.segment_edges_total, T, left, right)
  <2> SUFFICES ASSUME NEW x \in left .. right - 1
               PROVE  g.segment_edges_total[x] = T[x + 1] - T[x]
    BY DEF Differences
  <2>1. g.segment_edges_total[x] = FirstIndex(g, x + 1) - FirstIndex(g, x)
    BY <1>3 DEF CountsOf
  <2> QED
    BY <1>3, <2>1
<1>6. /\ H[left] = P[first(left)] /\ H[right] = P[first(right)]
      /\ T[left] = FirstIndex(g, left) /\ T[right] = FirstIndex(g, right)
  OBVIOUS
<1> HIDE DEF H, T
<1>7. SumOver(g.segment_edges_actual, left .. right - 1) = H[right] - H[left]
  BY <1>0, <1>2, <1>4, SumTelescopes
<1>8. SumOver(g.segment_edges_total, left .. right - 1) = T[right] - T[left]
  BY <1>0, <1>2, <1>5, SumTelescopes
<1> QED
  BY <1>6, <1>7, <1>8

\* The vertices of a window need what all before its end need and those before
\* its start do not.
LEMMA CellsOfWindow ==
  ASSUME NEW g, g.vertices_ \in [Vertices -> Entry],
         NEW P, CellsBefore(g, 0, num_vertices, P),
         NEW a \in 0 .. num_vertices, NEW b \in 0 .. num_vertices, a <= b
  PROVE  /\ CellsBefore(g, a, b, [i \in a .. b |-> P[i] - P[a]])
         /\ P[a] + (b - a) <= P[b]
<1>0. num_vertices \in Nat /\ a \in Nat /\ b \in Nat /\ Vertices = 0 .. num_vertices - 1
  BY TreeShape DEF Vertices
<1>1. /\ \A i \in 0 .. num_vertices : P[i] \in Nat
      /\ \A i \in 0 .. num_vertices - 1 :
           P[i + 1] = P[i] + g.vertices_[i].degree /\ g.vertices_[i].degree \in Nat \ {0}
  BY <1>0 DEF CellsBefore, Entry
<1> DEFINE D == {n \in Nat : a + n <= num_vertices => P[a] + n <= P[a + n]}
<1>2. 0 \in D
  <2>1. a + 0 = a /\ P[a] \in Nat
    BY <1>0, <1>1
  <2> QED
    BY <2>1
<1>3. \A n \in Nat : n \in D => n + 1 \in D
  <2> SUFFICES ASSUME NEW n \in Nat, n \in D PROVE n + 1 \in D
    OBVIOUS
  <2>0. n + 1 \in Nat
    OBVIOUS
  <2> SUFFICES ASSUME a + (n + 1) <= num_vertices
               PROVE  P[a] + (n + 1) <= P[a + (n + 1)]
    BY <2>0, Zenon
  <2>1. a + n \in 0 .. num_vertices - 1 /\ a + (n + 1) = (a + n) + 1 /\ a + n \in 0 .. num_vertices
    BY <1>0
  <2>2. P[a] + n <= P[a + n]
    BY <1>0, <2>1
  <2> HIDE DEF D
  <2>3. P[(a + n) + 1] = P[a + n] + g.vertices_[a + n].degree /\ P[a + n] \in Nat /\ P[a] \in Nat
        /\ g.vertices_[a + n].degree \in Nat \ {0}
    BY <1>1, <2>1
  <2> QED
    BY <2>1, <2>2, <2>3
<1> HIDE DEF D
<1>4. Nat \subseteq D
  BY <1>2, <1>3, Induction
<1>5. ASSUME NEW i \in a .. b
      PROVE  P[i] \in Nat /\ P[a] + (i - a) <= P[i]
  <2>1. i - a \in Nat /\ a + (i - a) = i /\ i \in 0 .. num_vertices
    BY <1>0
  <2>2. i - a \in D
    BY <1>4, <2>1
  <2> QED
    BY <1>0, <1>1, <2>1, <2>2 DEF D
<1>6. P[a] \in Nat
  BY <1>1
<1> DEFINE S == [i \in a .. b |-> P[i] - P[a]]
<1>7. S \in [a .. b -> Nat]
  <2> SUFFICES ASSUME NEW i \in a .. b PROVE P[i] - P[a] \in Nat
    OBVIOUS
  <2>1. i - a \in Nat
    BY <1>0
  <2> QED
    BY <1>5, <1>6, <2>1
<1>8. S[a] = 0
  <2>1. a \in a .. b
    BY <1>0
  <2> QED
    BY <1>6, <2>1
<1>9. \A i \in a .. b - 1 : S[i + 1] = S[i] + g.vertices_[i].degree
  <2> SUFFICES ASSUME NEW i \in a .. b - 1 PROVE S[i + 1] = S[i] + g.vertices_[i].degree
    OBVIOUS
  <2>1. i \in a .. b /\ i + 1 \in a .. b /\ i \in 0 .. num_vertices - 1
    BY <1>0
  <2>2. S[i + 1] = P[i + 1] - P[a] /\ S[i] = P[i] - P[a]
    BY <2>1
  <2> HIDE DEF S
  <2>3. P[i + 1] = P[i] + g.vertices_[i].degree /\ P[i] \in Nat /\ g.vertices_[i].degree \in Nat
    BY <1>1, <1>5, <2>1
  <2> QED
    BY <1>6, <2>2, <2>3
<1>10. P[a] + (b - a) <= P[b]
  <2>1. b \in a .. b
    BY <1>0
  <2> QED
    BY <1>5, <2>1
<1> HIDE DEF S
<1>11. CellsBefore(g, a, b, S)
  BY <1>7, <1>8, <1>9 DEF CellsBefore
<1> QED
  BY <1>10, <1>11 DEF S

-----------------------------------------------------------------------------
(***************************************************************************)
(* The chains of an edge log.                                               *)
(***************************************************************************)

\* Every entry of a log links to an earlier one, or to none.
Linked(log) ==
  /\ IsSequence(log)
  /\ \A i \in 1 .. Len(log) : log[i].prev_offset \in -1 .. i - 2

LogValues(log) == {log[i].v : i \in 1 .. Len(log)}

Links(log, c) ==
  [o \in -1 .. Len(log) - 1 |->
     IF o = -1 THEN <<>> ELSE <<log[o + 1].v>> \o c[log[o + 1].prev_offset]]

IsChain(log, c) == c = Links(log, c)

ChainOf(log, o) == (CHOOSE c : IsChain(log, c))[o]

\* log_chain follows the chain of its log.
LEMMA LogChainIs ==
  ASSUME NEW g, NEW v
  PROVE  log_chain(g, v) = ChainOf(g.log_[SegmentOf(v)], g.vertices_[v].offset)
BY DEF log_chain, ChainOf, IsChain, Links

\* Entries that link backwards can be followed to the first one.
LEMMA ChainExists ==
  ASSUME NEW log, Linked(log)
  PROVE  \E c \in [-1 .. Len(log) - 1 -> Seq(LogValues(log))] : IsChain(log, c)
<1> DEFINE n == Len(log)
           W == Seq(LogValues(log))
           I == -1 .. n - 1
           V == [I -> W]
           rule == [p \in V \X Nat |-> Links(log, p[1])]
           nothing == [o \in I |-> <<>>]
<1>0. n \in Nat
  BY DEF Linked, IsSequence
<1>1. \A o \in I : o # -1 =>
        /\ o \in Nat
        /\ log[o + 1].v \in LogValues(log)
        /\ log[o + 1].prev_offset \in I /\ log[o + 1].prev_offset < o
  <2> SUFFICES ASSUME NEW o \in I, o # -1
               PROVE  /\ o \in Nat
                      /\ log[o + 1].v \in LogValues(log)
                      /\ log[o + 1].prev_offset \in I /\ log[o + 1].prev_offset < o
    OBVIOUS
  <2>1. o \in Nat /\ o < n /\ o + 1 \in 1 .. n
    BY <1>0
  <2>2. log[o + 1].prev_offset \in -1 .. (o + 1) - 2
    BY <2>1 DEF Linked
  <2>3. log[o + 1].v \in LogValues(log)
    BY <2>1 DEF LogValues
  <2> QED
    BY <1>0, <2>1, <2>2, <2>3
<1>2. nothing \in V
  OBVIOUS
<1>3. \A c \in V : Links(log, c) \in V
  <2> SUFFICES ASSUME NEW c \in V, NEW o \in I, o # -1
               PROVE  <<log[o + 1].v>> \o c[log[o + 1].prev_offset] \in W
    BY DEF Links
  <2>1. c[log[o + 1].prev_offset] \in Seq(LogValues(log))
    BY <1>1
  <2>2. <<log[o + 1].v>> \in Seq(LogValues(log))
    <3>1. log[o + 1].v \in LogValues(log)
      BY <1>1
    <3> QED
      BY <3>1
  <2> QED
    BY <2>1, <2>2
<1>4. rule \in [V \X Nat -> V]
  <2> HIDE DEF V
  <2> QED
    BY <1>3
<1>5. PICK C \in [Nat -> V] : Recurs(C, nothing, rule)
  <2> HIDE DEF V, rule, nothing
  <2> QED
    BY <1>2, <1>4, Recursion
<1>6. C[0] = nothing /\ \A k \in Nat : C[k] \in V /\ C[k + 1] = Links(log, C[k])
  <2> HIDE DEF V, nothing
  <2> QED
    BY <1>5 DEF Recurs
<1> DEFINE D == {k \in Nat : \A o \in I : o < k => C[k + 1][o] = C[k][o]}
<1>7. 0 \in D
  <2> SUFFICES ASSUME NEW o \in I, o < 0 PROVE C[0 + 1][o] = C[0][o]
    OBVIOUS
  <2>1. o = -1
    BY <1>0
  <2>2. C[0 + 1] = Links(log, C[0])
    BY <1>6
  <2> QED
    BY <1>6, <2>1, <2>2 DEF Links
<1>8. \A k \in Nat : k \in D => k + 1 \in D
  <2> SUFFICES ASSUME NEW k \in Nat, k \in D PROVE k + 1 \in D
    OBVIOUS
  <2>0. k + 1 \in Nat
    OBVIOUS
  <2> SUFFICES ASSUME NEW o \in I, o < k + 1
               PROVE  C[(k + 1) + 1][o] = C[k + 1][o]
    BY <2>0, Zenon
  <2>1. C[(k + 1) + 1] = Links(log, C[k + 1]) /\ C[k + 1] = Links(log, C[k])
    <3> HIDE DEF I, V, D
    <3> QED
      BY <1>6, <2>0
  <2>2. CASE o = -1
    BY <2>1, <2>2 DEF Links
  <2>3. CASE o # -1
    <3> DEFINE q == log[o + 1].prev_offset
    <3>1. q \in I /\ q < o
      BY <1>1, <2>3
    <3>2. q < k
      <4>1. I \subseteq Int
        BY <1>0
      <4> HIDE DEF I, q, D, V, W
      <4>2. q \in Int /\ o \in Int
        BY <3>1, <4>1
      <4> QED
        BY <3>1, <4>2
    <3>3. C[k + 1][q] = C[k][q]
      BY <3>1, <3>2
    <3>4. Links(log, C[k + 1])[o] = <<log[o + 1].v>> \o C[k + 1][q]
      BY <2>3 DEF Links
    <3>5. Links(log, C[k])[o] = <<log[o + 1].v>> \o C[k][q]
      BY <2>3 DEF Links
    <3> QED
      BY <2>1, <3>3, <3>4, <3>5
  <2> QED
    BY <2>2, <2>3
<1> HIDE DEF D
<1>9. Nat \subseteq D
  BY <1>7, <1>8, Induction
<1>10. C[n] = Links(log, C[n])
  <2>1. C[n + 1] = Links(log, C[n]) /\ C[n] \in V /\ C[n + 1] \in V
    <3>1. n \in Nat /\ n + 1 \in Nat
      BY <1>0
    <3> HIDE DEF V, n
    <3> QED
      BY <1>6, <3>1
  <2>2. \A o \in I : C[n + 1][o] = C[n][o]
    <3>1. n \in D
      BY <1>0, <1>9
    <3>2. \A o \in I : o < n
      BY <1>0
    <3> QED
      BY <3>1, <3>2 DEF D
  <2>3. C[n + 1] = C[n]
    <3> HIDE DEF I, W, n
    <3> QED
      BY <2>1, <2>2
  <2> QED
    BY <2>1, <2>3
<1> QED
  BY <1>0, <1>6, <1>10 DEF IsChain

\* What is followed from an entry does not depend on the later ones.
LEMMA ChainsAgree ==
  ASSUME NEW log, Linked(log), NEW more, Len(log) <= Len(more), Len(more) \in Nat,
         \A i \in 1 .. Len(log) : more[i] = log[i],
         NEW c, IsChain(log, c), NEW d, IsChain(more, d)
  PROVE  \A o \in -1 .. Len(log) - 1 : d[o] = c[o]
<1> DEFINE n == Len(log)
           I == -1 .. n - 1
           D == {k \in Nat : \A o \in I : o < k => d[o] = c[o]}
<1>0. n \in Nat
  BY DEF Linked, IsSequence
<1>1. c[-1] = <<>> /\ d[-1] = <<>>
  <2>1. -1 \in -1 .. Len(log) - 1 /\ -1 \in -1 .. Len(more) - 1
    BY <1>0
  <2>2. Links(log, c)[-1] = <<>> /\ Links(more, d)[-1] = <<>>
    BY <2>1 DEF Links
  <2> QED
    BY <2>2 DEF IsChain
<1>2. ASSUME NEW o \in I, o # -1
      PROVE  /\ log[o + 1].prev_offset \in I /\ log[o + 1].prev_offset < o
             /\ c[o] = <<log[o + 1].v>> \o c[log[o + 1].prev_offset]
             /\ d[o] = <<log[o + 1].v>> \o d[log[o + 1].prev_offset]
  <2>1. o \in Nat /\ o < n /\ o + 1 \in 1 .. n /\ o \in -1 .. Len(more) - 1
    BY <1>0, <1>2
  <2>2. log[o + 1].prev_offset \in -1 .. (o + 1) - 2
    BY <2>1 DEF Linked
  <2>3. Links(log, c)[o] = <<log[o + 1].v>> \o c[log[o + 1].prev_offset]
    BY <1>2 DEF Links
  <2>4. Links(more, d)[o] = <<more[o + 1].v>> \o d[more[o + 1].prev_offset]
    BY <1>2, <2>1 DEF Links
  <2>5. c = Links(log, c) /\ d = Links(more, d) /\ more[o + 1] = log[o + 1]
    BY <2>1 DEF IsChain
  <2>6. c[o] = <<log[o + 1].v>> \o c[log[o + 1].prev_offset]
    BY <2>3, <2>5
  <2>7. d[o] = <<log[o + 1].v>> \o d[log[o + 1].prev_offset]
    BY <2>4, <2>5
  <2> QED
    BY <1>0, <2>1, <2>2, <2>6, <2>7
<1>3. 0 \in D
  <2>1. \A o \in I : o < 0 => o = -1
    BY <1>0
  <2> QED
    BY <1>1, <2>1
<1>4. \A k \in Nat : k \in D => k + 1 \in D
  <2> SUFFICES ASSUME NEW k \in Nat, k \in D PROVE k + 1 \in D
    OBVIOUS
  <2>0. k + 1 \in Nat
    OBVIOUS
  <2> SUFFICES ASSUME NEW o \in I, o < k + 1 PROVE d[o] = c[o]
    BY <2>0, Zenon
  <2>1. CASE o = -1
    BY <1>1, <2>1
  <2>2. CASE o # -1
    <3> DEFINE q == log[o + 1].prev_offset
    <3>1. q \in I /\ q < o
      BY <1>2, <2>2
    <3>2. q < k
      BY <1>0, <3>1
    <3>3. d[q] = c[q]
      BY <3>1, <3>2
    <3>4. /\ c[o] = <<log[o + 1].v>> \o c[q]
          /\ d[o] = <<log[o + 1].v>> \o d[q]
      BY <1>2, <2>2
    <3> QED
      BY <3>3, <3>4
  <2> QED
    BY <2>1, <2>2
<1> HIDE DEF D
<1>5. Nat \subseteq D
  BY <1>3, <1>4, Induction
<1>6. n \in D /\ \A o \in I : o < n
  BY <1>0, <1>5
<1> QED
  BY <1>6 DEF D

\* The chain of an offset is a list of destinations in the log.
LEMMA ChainType ==
  ASSUME NEW log, Linked(log), NEW o \in -1 .. Len(log) - 1
  PROVE  /\ ChainOf(log, o) \in Seq(LogValues(log))
         /\ o = -1 => ChainOf(log, o) = <<>>
         /\ o # -1 => Len(ChainOf(log, o)) > 0
<1> DEFINE c == CHOOSE x : IsChain(log, x)
<1>1. PICK x \in [-1 .. Len(log) - 1 -> Seq(LogValues(log))] : IsChain(log, x)
  BY ChainExists
<1>2. IsChain(log, c)
  BY <1>1
<1>3. ChainOf(log, o) = c[o]
  BY DEF ChainOf
<1> HIDE DEF c
<1>4. c[o] = x[o]
  <2>1. Len(log) \in Nat /\ Len(log) <= Len(log)
    BY DEF Linked, IsSequence
  <2>2. \A i \in 1 .. Len(log) : log[i] = log[i]
    OBVIOUS
  <2>3. \A p \in -1 .. Len(log) - 1 : c[p] = x[p]
    BY <1>1, <1>2, <2>1, <2>2, ChainsAgree
  <2> QED
    BY <2>3
<1>5. o = -1 => c[o] = <<>>
  <2>1. c[o] = Links(log, c)[o]
    BY <1>2 DEF IsChain
  <2> QED
    BY <2>1 DEF Links
<1>6. o # -1 => Len(c[o]) > 0
  <2> SUFFICES ASSUME o # -1 PROVE Len(c[o]) > 0
    OBVIOUS
  <2> DEFINE q == log[o + 1].prev_offset
  <2>1. q \in -1 .. Len(log) - 1 /\ log[o + 1].v \in LogValues(log)
    <3>1. Len(log) \in Nat
      BY DEF Linked, IsSequence
    <3>2. o + 1 \in 1 .. Len(log)
      BY <3>1
    <3>3. q \in -1 .. (o + 1) - 2
      BY <3>2 DEF Linked
    <3> QED
      BY <3>1, <3>2, <3>3 DEF LogValues
  <2>2. x[q] \in Seq(LogValues(log))
    BY <1>1, <2>1
  <2>3. x[o] = <<log[o + 1].v>> \o x[q]
    <3>1. x[o] = Links(log, x)[o]
      BY <1>1 DEF IsChain
    <3> QED
      BY <3>1 DEF Links
  <2>4. Len(x[o]) = 1 + Len(x[q]) /\ Len(x[q]) \in Nat
    BY <2>1, <2>2, <2>3
  <2> QED
    BY <1>4, <2>4
<1> QED
  BY <1>1, <1>3, <1>4, <1>5, <1>6

\* An entry appended to the log begins a new chain and changes no other.
LEMMA ChainOfAppend ==
  ASSUME NEW log, Linked(log), NEW e, e.prev_offset \in -1 .. Len(log) - 1
  PROVE  /\ Linked(Append(log, e))
         /\ \A o \in -1 .. Len(log) - 1 : ChainOf(Append(log, e), o) = ChainOf(log, o)
         /\ ChainOf(Append(log, e), Len(log)) = <<e.v>> \o ChainOf(log, e.prev_offset)
<1> DEFINE more == Append(log, e)
           n == Len(log)
           c == CHOOSE x : IsChain(log, x)
           d == CHOOSE x : IsChain(more, x)
<1>0. n \in Nat
  BY DEF Linked, IsSequence
<1>1. /\ IsSequence(more) /\ Len(more) = n + 1 /\ more[n + 1] = e
      /\ \A i \in 1 .. n : more[i] = log[i]
  <2>1. PICK S : log \in Seq(S)
    BY DEF Linked, IsSequence
  <2>2. log \in Seq(S \cup {e}) /\ e \in S \cup {e}
    BY <2>1
  <2>3. more \in Seq(S \cup {e}) /\ Len(more) = n + 1 /\ more[n + 1] = e
        /\ \A i \in 1 .. n : more[i] = log[i]
    BY <2>2
  <2> QED
    BY <2>3 DEF IsSequence
<1> HIDE DEF more
<1>2. Linked(more)
  <2> SUFFICES ASSUME NEW i \in 1 .. Len(more) PROVE more[i].prev_offset \in -1 .. i - 2
    BY <1>1 DEF Linked
  <2>1. CASE i = n + 1
    BY <1>0, <1>1, <2>1
  <2>2. CASE i # n + 1
    <3>1. i \in 1 .. n
      BY <1>0, <1>1, <2>2
    <3> QED
      BY <1>1, <3>1 DEF Linked
  <2> QED
    BY <2>1, <2>2
<1>3. IsChain(log, c)
  <2>1. \E x : IsChain(log, x)
    BY ChainExists
  <2> QED
    BY <2>1
<1>4. IsChain(more, d)
  <2>1. \E x : IsChain(more, x)
    BY <1>2, ChainExists
  <2> QED
    BY <2>1
<1>5. \A o : ChainOf(log, o) = c[o] /\ ChainOf(more, o) = d[o]
  BY DEF ChainOf
<1> HIDE DEF c, d
<1>6. \A o \in -1 .. n - 1 : d[o] = c[o]
  <2>1. Len(log) <= Len(more) /\ Len(more) \in Nat
    BY <1>0, <1>1
  <2>2. \A i \in 1 .. Len(log) : more[i] = log[i]
    BY <1>1
  <2> QED
    BY <1>3, <1>4, <2>1, <2>2, ChainsAgree
<1>7. d[n] = <<e.v>> \o d[e.prev_offset]
  <2>1. n \in -1 .. Len(more) - 1 /\ n # -1
    BY <1>0, <1>1
  <2>2. d[n] = Links(more, d)[n]
    BY <1>4 DEF IsChain
  <2>3. Links(more, d)[n] = <<more[n + 1].v>> \o d[more[n + 1].prev_offset]
    BY <2>1 DEF Links
  <2> QED
    BY <1>1, <2>2, <2>3
<1> QED
  BY <1>2, <1>5, <1>6, <1>7 DEF more

-----------------------------------------------------------------------------
(***************************************************************************)
(* Folding over the order in which vertices are moved.                      *)
(***************************************************************************)

Folds(iter, n, base, step) ==
  iter = [s \in SUBSET (1 .. n) |->
            IF s = {} THEN base ELSE step[<<iter[s \ {Max(s)}], Max(s)>>]]

\* The fold of a sequence of length n takes the parts of 1 .. n by their
\* greatest element.
LEMMA FoldExists ==
  ASSUME NEW V, NEW base \in V, NEW n \in Nat, NEW step \in [V \X (1 .. n) -> V]
  PROVE  \E iter \in [SUBSET (1 .. n) -> V] : Folds(iter, n, base, step)
<1> DEFINE S == 1 .. n
           W == [SUBSET S -> V]
           next(h) == [s \in SUBSET S |-> IF s = {} THEN base ELSE step[<<h[s \ {Max(s)}], Max(s)>>]]
           rule == [p \in W \X Nat |-> next(p[1])]
           none == [s \in SUBSET S |-> base]
<1>0. \A s \in SUBSET S : s # {} => Max(s) \in s /\ Max(s) \in S
  <2> SUFFICES ASSUME NEW s \in SUBSET S, s # {} PROVE Max(s) \in s
    OBVIOUS
  <2>1. s \in SUBSET Nat /\ \A i \in s : i <= n
    OBVIOUS
  <2>2. \E x \in s : \A y \in s : y <= x
    BY <2>1, Greatest
  <2>3. \E x \in s : \A y \in s : x >= y
    BY <2>1, <2>2
  <2> QED
    BY <2>3 DEF Max
<1> HIDE DEF S
<1>1. \A h \in W : next(h) \in W
  <2> SUFFICES ASSUME NEW h \in W, NEW s \in SUBSET S, s # {}
               PROVE  step[<<h[s \ {Max(s)}], Max(s)>>] \in V
    OBVIOUS
  <2>1. s \ {Max(s)} \in SUBSET S
    OBVIOUS
  <2>2. h[s \ {Max(s)}] \in V /\ Max(s) \in S
    BY <1>0, <2>1
  <2>3. step \in [V \X S -> V]
    BY DEF S
  <2> QED
    BY <2>2, <2>3
<1>2. none \in W
  OBVIOUS
<1>3. rule \in [W \X Nat -> W]
  <2> HIDE DEF W, next
  <2> QED
    BY <1>1
<1>4. PICK F \in [Nat -> W] : Recurs(F, none, rule)
  <2> HIDE DEF W, rule, none, next
  <2> QED
    BY <1>2, <1>3, Recursion
<1>5. F[0] = none /\ \A k \in Nat : F[k] \in W /\ F[k + 1] = next(F[k])
  <2> HIDE DEF W, next, none
  <2> QED
    BY <1>4 DEF Recurs
<1> DEFINE iter == [s \in SUBSET S |-> F[Cardinality(s)][s]]
<1>6. \A s \in SUBSET S : IsFiniteSet(s) /\ Cardinality(s) \in Nat
  <2>1. IsFiniteSet(S)
    <3>1. 1 \in Int /\ n \in Int
      OBVIOUS
    <3> QED
      BY <3>1, FS_Interval DEF S
  <2> QED
    BY <2>1, FS_Subset, FS_CardinalityType
<1>7. iter \in [SUBSET S -> V]
  BY <1>5, <1>6
<1>8. ASSUME NEW s \in SUBSET S, s # {}
      PROVE  iter[s] = step[<<iter[s \ {Max(s)}], Max(s)>>]
  <2> DEFINE r == s \ {Max(s)}
  <2>1. Cardinality(r) \in Nat /\ Cardinality(s) = Cardinality(r) + 1
    <3>1. Cardinality(r) = Cardinality(s) - 1
      BY <1>0, <1>6, <1>8, FS_RemoveElement
    <3>2. r \in SUBSET S
      OBVIOUS
    <3> HIDE DEF r
    <3> QED
      BY <1>6, <3>1, <3>2
  <2>2. F[Cardinality(s)] = next(F[Cardinality(r)])
    BY <1>5, <2>1
  <2>3. F[Cardinality(s)][s] = step[<<F[Cardinality(r)][r], Max(s)>>]
    BY <1>8, <2>2
  <2> QED
    BY <2>3
<1>9. iter[{}] = base
  BY <1>5, FS_EmptySet
<1>10. \A s \in SUBSET S : iter[s] = IF s = {} THEN base ELSE step[<<iter[s \ {Max(s)}], Max(s)>>]
  BY <1>8, <1>9
<1>11. iter = [s \in SUBSET S |-> IF s = {} THEN base ELSE step[<<iter[s \ {Max(s)}], Max(s)>>]]
  <2> HIDE DEF iter
  <2> QED
    BY <1>7, <1>10
<1> HIDE DEF iter
<1>12. Folds(iter, n, base, step)
  BY <1>11 DEF Folds, S
<1> QED
  BY <1>7, <1>12 DEF S

\* The parts of 1 .. n a fold goes through.
LEMMA InitialParts ==
  ASSUME NEW k \in Nat
  PROVE  /\ 1 .. 0 = {}
         /\ 1 .. k + 1 # {} /\ Max(1 .. k + 1) = k + 1
         /\ (1 .. k + 1) \ {k + 1} = 1 .. k
         /\ \A n \in Nat : k <= n => 1 .. k \in SUBSET (1 .. n)
<1>1. Max(1 .. k + 1) = k + 1
  <2> DEFINE m == CHOOSE x \in 1 .. k + 1 : \A y \in 1 .. k + 1 : x >= y
  <2>1. k + 1 \in 1 .. k + 1 /\ \A y \in 1 .. k + 1 : k + 1 >= y
    OBVIOUS
  <2>2. m \in 1 .. k + 1 /\ \A y \in 1 .. k + 1 : m >= y
    <3>1. \E x \in 1 .. k + 1 : \A y \in 1 .. k + 1 : x >= y
      BY <2>1
    <3> QED
      BY <3>1
  <2> HIDE DEF m
  <2>3. m = k + 1
    BY <2>1, <2>2
  <2> QED
    BY <2>3 DEF Max, m
<1> QED
  BY <1>1

\* Array A[k] is what the first k vertices of order leave.
MoveSteps(g, order, N, onseg, n, A) ==
  /\ A[0] = g.edges_ /\ A[n] = Moved(g, order, N, onseg)
  /\ \A k \in 0 .. n - 1 :
       A[k + 1] = MoveVertex(g, order[k + 1], A[k], N[order[k + 1]], onseg[order[k + 1]])

MovesWithin(g, order, N, onseg, n, S) ==
  \A E \in S : \A k \in 1 .. n :
    MoveVertex(g, order[k], E, N[order[k]], onseg[order[k]]) \in S

\* Moved is reached vertex by vertex.
LEMMA MovedIs ==
  ASSUME NEW g, GraphShape(g), NEW Arrays, g.edges_ \in Arrays,
         NEW n \in Nat, NEW order, DOMAIN order = 1 .. n, NEW N, NEW onseg,
         MovesWithin(g, order, N, onseg, n, Arrays)
  PROVE  \E A \in [0 .. n -> Arrays] : MoveSteps(g, order, N, onseg, n, A)
<1> USE DEF MovesWithin
<1> DEFINE S == 1 .. n
           M(E, k) == MoveVertex(g, order[k], E, N[order[k]], onseg[order[k]])
           step == [p \in Arrays \X S |-> M(p[1], p[2])]
           G(E) == [g EXCEPT !.edges_ = E]
           Next1(h) == [s \in SUBSET S |->
                          IF s = {} THEN g
                          ELSE [h[s \ {Max(s)}] EXCEPT !.edges_ = M(@, Max(s))]]
           iter == CHOOSE h : h = Next1(h)
<1>g. G(g.edges_) = g /\ \A E : G(E).edges_ = E /\ \A F : [G(E) EXCEPT !.edges_ = F] = G(F)
  BY DEF GraphShape
<1>1. step \in [Arrays \X S -> Arrays]
  OBVIOUS
<1>2. PICK h \in [SUBSET S -> Arrays] :
        h = [s \in SUBSET S |-> IF s = {} THEN g.edges_ ELSE step[<<h[s \ {Max(s)}], Max(s)>>]]
  <2> HIDE DEF step
  <2>1. step \in [Arrays \X (1 .. n) -> Arrays]
    BY <1>1
  <2>2. PICK h \in [SUBSET (1 .. n) -> Arrays] : Folds(h, n, g.edges_, step)
    BY <2>1, FoldExists
  <2> QED
    BY <2>2 DEF Folds
<1>3. \A s \in SUBSET S : s # {} => Max(s) \in S
  <2> SUFFICES ASSUME NEW s \in SUBSET S, s # {} PROVE Max(s) \in s
    OBVIOUS
  <2>1. s \in SUBSET Nat /\ \A i \in s : i <= n
    OBVIOUS
  <2>2. \E x \in s : \A y \in s : y <= x
    BY <2>1, Greatest
  <2>3. \E x \in s : \A y \in s : x >= y
    BY <2>1, <2>2
  <2> QED
    BY <2>3 DEF Max
<1> DEFINE H == [s \in SUBSET S |-> G(h[s])]
<1>4. H = Next1(H)
  <2>1. ASSUME NEW s \in SUBSET S, s # {}
        PROVE  /\ s \ {Max(s)} \in SUBSET S
               /\ h[s] = M(h[s \ {Max(s)}], Max(s))
    <3>1. s \ {Max(s)} \in SUBSET S
      OBVIOUS
    <3>2. h[s \ {Max(s)}] \in Arrays /\ Max(s) \in S
      BY <1>2, <1>3, <2>1, <3>1
    <3>3. h[s] = step[<<h[s \ {Max(s)}], Max(s)>>]
      BY <1>2, <2>1
    <3> HIDE DEF M, S
    <3> QED
      BY <3>1, <3>2, <3>3
  <2> HIDE DEF M, S, step
  <2>2. ASSUME NEW s \in SUBSET S, s # {}
        PROVE  H[s] = [H[s \ {Max(s)}] EXCEPT !.edges_ = M(@, Max(s))]
    <3> DEFINE x == h[s \ {Max(s)}]
               y == M(x, Max(s))
    <3>1. H[s] = G(y) /\ H[s \ {Max(s)}] = G(x)
      BY <2>1, <2>2
    <3>2. [G(x) EXCEPT !.edges_ = M(G(x).edges_, Max(s))] = G(y)
      <4>1. M(G(x).edges_, Max(s)) = y
        BY <1>g
      <4> HIDE DEF x, y
      <4> QED
        BY <1>g, <4>1
    <3> HIDE DEF x, y, G, H
    <3> QED
      BY <3>1, <3>2
  <2>3. H[{}] = g
    BY <1>2, <1>g
  <2> HIDE DEF G
  <2>4. H = [s \in SUBSET S |-> IF s = {} THEN g ELSE [H[s \ {Max(s)}] EXCEPT !.edges_ = M(@, Max(s))]]
    <3>1. H = [s \in SUBSET S |-> H[s]]
      OBVIOUS
    <3> HIDE DEF H
    <3> QED
      BY <2>2, <2>3, <3>1
  <2> QED
    BY <2>4
<1>5. iter = Next1(iter)
  <2> HIDE DEF Next1, H
  <2> QED
    BY <1>4
<1>6. Moved(g, order, N, onseg) = iter[1 .. n].edges_
  BY DEF Moved, FoldLeft, MapThenFoldSet
<1> HIDE DEF iter, M, H
<1>7. iter[{}] = g
  <2>1. {} \in SUBSET S
    OBVIOUS
  <2> HIDE DEF S
  <2> QED
    BY <1>5, <2>1
<1>8. \A k \in Nat : k + 1 <= n => iter[1 .. k + 1] = [iter[1 .. k] EXCEPT !.edges_ = M(@, k + 1)]
  <2> SUFFICES ASSUME NEW k \in Nat, k + 1 <= n PROVE iter[1 .. k + 1] = [iter[1 .. k] EXCEPT !.edges_ = M(@, k + 1)]
    OBVIOUS
  <2> DEFINE s == 1 .. k + 1
  <2>1. s # {} /\ Max(s) = k + 1 /\ s \ {k + 1} = 1 .. k
    BY InitialParts
  <2>2. s \in SUBSET S
    BY InitialParts
  <2> HIDE DEF s, S
  <2>3. iter[s] = [iter[s \ {Max(s)}] EXCEPT !.edges_ = M(@, Max(s))]
    BY <1>5, <2>1, <2>2
  <2>4. iter[s] = [iter[1 .. k] EXCEPT !.edges_ = M(@, k + 1)]
    BY <2>1, <2>3
  <2> QED
    BY <2>4 DEF s
<1> DEFINE A == [k \in 0 .. n |-> iter[1 .. k].edges_]
           Holds(k) == \E E \in Arrays : iter[1 .. k] = G(E)
           D == {k \in Nat : k <= n => Holds(k)}
<1> HIDE DEF G
<1>9. 0 \in D
  <2>1. 1 .. 0 = {}
    OBVIOUS
  <2>2. Holds(0)
    BY <1>7, <1>g, <2>1
  <2> QED
    BY <2>2
<1>10. \A k \in Nat : k \in D => k + 1 \in D
  <2> SUFFICES ASSUME NEW k \in Nat, k \in D PROVE k + 1 \in D
    OBVIOUS
  <2>0. k + 1 \in Nat
    OBVIOUS
  <2> SUFFICES ASSUME k + 1 <= n PROVE Holds(k + 1)
    BY <2>0, Zenon
  <2>1. k + 1 \in 1 .. n /\ Holds(k)
    OBVIOUS
  <2>2. PICK E \in Arrays : iter[1 .. k] = G(E)
    BY <2>1
  <2>3. M(E, k + 1) \in Arrays
    BY <2>1 DEF M
  <2>4. iter[1 .. k + 1] = [G(E) EXCEPT !.edges_ = M(G(E).edges_, k + 1)]
    BY <1>8, <2>2
  <2>5. iter[1 .. k + 1] = G(M(E, k + 1))
    BY <1>g, <2>4
  <2> QED
    BY <2>3, <2>5
<1> HIDE DEF D
<1>11. Nat \subseteq D
  BY <1>9, <1>10, Induction
<1>12. \A k \in 0 .. n : /\ iter[1 .. k].edges_ \in Arrays
                         /\ iter[1 .. k] = G(iter[1 .. k].edges_)
  <2> SUFFICES ASSUME NEW k \in 0 .. n
               PROVE  iter[1 .. k].edges_ \in Arrays /\ iter[1 .. k] = G(iter[1 .. k].edges_)
    OBVIOUS
  <2>1. k \in Nat /\ k <= n
    OBVIOUS
  <2>2. Holds(k)
    BY <1>11, <2>1 DEF D
  <2> QED
    BY <1>g, <2>2
<1>13. A[0] = g.edges_ /\ A[n] = iter[1 .. n].edges_
  <2>1. 1 .. 0 = {} /\ 0 \in 0 .. n /\ n \in 0 .. n
    OBVIOUS
  <2>2. A[0] = iter[1 .. 0].edges_ /\ A[n] = iter[1 .. n].edges_
    BY <2>1
  <2> QED
    BY <1>7, <2>1, <2>2
<1>14. \A k \in 0 .. n - 1 : A[k + 1] = M(A[k], k + 1)
  <2> SUFFICES ASSUME NEW k \in 0 .. n - 1 PROVE A[k + 1] = M(A[k], k + 1)
    OBVIOUS
  <2>1. k \in Nat /\ k + 1 <= n /\ k \in 0 .. n /\ k + 1 \in 0 .. n
    OBVIOUS
  <2>2. A[k + 1] = iter[1 .. k + 1].edges_ /\ A[k] = iter[1 .. k].edges_
    BY <2>1
  <2>3. iter[1 .. k] = G(A[k])
    BY <1>12, <2>1, <2>2
  <2> HIDE DEF A
  <2>4. iter[1 .. k + 1] = [G(A[k]) EXCEPT !.edges_ = M(G(A[k]).edges_, k + 1)]
    BY <1>8, <2>1, <2>3
  <2>5. iter[1 .. k + 1] = G(M(A[k], k + 1))
    BY <1>g, <2>4
  <2> QED
    BY <1>g, <2>2, <2>5
<1> QED
  BY <1>6, <1>12, <1>13, <1>14 DEF M, MoveSteps

\* One vertex of resize_V1.
CopyVertex(g, v, cells, N) ==
  MergeLog(g, v, CopyCells(g.edges_, cells, g.vertices_[v].index, N[v], ResizeCopied(g, v)), N[v])

Zeroed(g) == [c \in 0 .. 2 * g.elem_capacity - 1 |-> 0]

\* Array A[k] is what the copies of the first k vertices leave.
CopySteps(g, N, n, A) ==
  /\ A[0] = Zeroed(g) /\ A[n] = Copied(g, N)
  /\ \A k \in 0 .. n - 1 : A[k + 1] = CopyVertex(g, k, A[k], N)

CopiesWithin(g, N, n, S) == \A E \in S : \A v \in 0 .. n - 1 : CopyVertex(g, v, E, N) \in S

\* So is the array of resize_V1.
LEMMA CopiedIs ==
  ASSUME NEW g, NEW AllArrays, Zeroed(g) \in AllArrays,
         NEW n \in Nat, n = num_vertices, NEW N, CopiesWithin(g, N, n, AllArrays)
  PROVE  \E A \in [0 .. n -> AllArrays] : CopySteps(g, N, n, A)
<1> DEFINE S == 1 .. n
           M(E, k) == CopyVertex(g, k - 1, E, N)
           step == [p \in AllArrays \X S |-> M(p[1], p[2])]
           Next1(h) == [s \in SUBSET S |-> IF s = {} THEN Zeroed(g) ELSE M(h[s \ {Max(s)}], Max(s))]
           iter == CHOOSE h : h = Next1(h)
<1>1. step \in [AllArrays \X S -> AllArrays]
  <2>1. \A k \in S : k - 1 \in 0 .. n - 1
    OBVIOUS
  <2> QED
    BY <2>1 DEF CopiesWithin
<1>2. PICK h \in [SUBSET S -> AllArrays] :
        h = [s \in SUBSET S |-> IF s = {} THEN Zeroed(g) ELSE step[<<h[s \ {Max(s)}], Max(s)>>]]
  <2> HIDE DEF step
  <2>1. step \in [AllArrays \X (1 .. n) -> AllArrays]
    BY <1>1
  <2>2. PICK h \in [SUBSET (1 .. n) -> AllArrays] : Folds(h, n, Zeroed(g), step)
    BY <2>1, FoldExists
  <2> QED
    BY <2>2 DEF Folds
<1>3. \A s \in SUBSET S : s # {} => Max(s) \in S
  <2> SUFFICES ASSUME NEW s \in SUBSET S, s # {} PROVE Max(s) \in s
    OBVIOUS
  <2>1. s \in SUBSET Nat /\ \A i \in s : i <= n
    OBVIOUS
  <2>2. \E x \in s : \A y \in s : y <= x
    BY <2>1, Greatest
  <2>3. \E x \in s : \A y \in s : x >= y
    BY <2>1, <2>2
  <2> QED
    BY <2>3 DEF Max
<1>4. h = Next1(h)
  <2>1. ASSUME NEW s \in SUBSET S, s # {}
        PROVE  step[<<h[s \ {Max(s)}], Max(s)>>] = M(h[s \ {Max(s)}], Max(s))
    <3>1. s \ {Max(s)} \in SUBSET S
      OBVIOUS
    <3>2. h[s \ {Max(s)}] \in AllArrays /\ Max(s) \in S
      BY <1>2, <1>3, <2>1, <3>1
    <3> HIDE DEF M, S
    <3> QED
      BY <3>2
  <2> HIDE DEF M, S, step
  <2>2. \A s \in SUBSET S : h[s] = IF s = {} THEN Zeroed(g) ELSE M(h[s \ {Max(s)}], Max(s))
    BY <1>2, <2>1
  <2> QED
    BY <1>2, <2>2
<1>5. iter = Next1(iter)
  <2> HIDE DEF Next1
  <2> QED
    BY <1>4
<1>6. Copied(g, N) = iter[1 .. n]
  <2> DEFINE order == [k \in 1 .. n |-> k - 1]
             Next2(h_) == [s \in SUBSET S |-> IF s = {} THEN Zeroed(g)
                                              ELSE CopyVertex(g, order[Max(s)], h_[s \ {Max(s)}], N)]
  <2>1. Copied(g, N) = (CHOOSE h_ : h_ = Next2(h_))[1 .. n]
    BY DEF Copied, FoldLeft, MapThenFoldSet, CopyVertex, Zeroed
  <2>2. ASSUME NEW h_ PROVE Next2(h_) = Next1(h_)
    <3>1. \A s \in SUBSET S : s # {} => order[Max(s)] = Max(s) - 1
      BY <1>3
    <3> HIDE DEF order, S
    <3> QED
      BY <3>1
  <2> HIDE DEF Next1, Next2
  <2>3. (CHOOSE h_ : h_ = Next2(h_)) = (CHOOSE h_ : h_ = Next1(h_))
    BY <2>2
  <2> QED
    BY <2>1, <2>3
<1> HIDE DEF iter, M
<1>7. iter[{}] = Zeroed(g)
  <2>1. {} \in SUBSET S
    OBVIOUS
  <2> HIDE DEF S
  <2> QED
    BY <1>5, <2>1
<1>8. \A k \in Nat : k + 1 <= n => iter[1 .. k + 1] = M(iter[1 .. k], k + 1)
  <2> SUFFICES ASSUME NEW k \in Nat, k + 1 <= n PROVE iter[1 .. k + 1] = M(iter[1 .. k], k + 1)
    OBVIOUS
  <2> DEFINE s == 1 .. k + 1
  <2>1. s # {} /\ Max(s) = k + 1 /\ s \ {k + 1} = 1 .. k
    BY InitialParts
  <2>2. s \in SUBSET S
    BY InitialParts
  <2> HIDE DEF s, S
  <2>3. iter[s] = M(iter[s \ {Max(s)}], Max(s))
    BY <1>5, <2>1, <2>2
  <2>4. iter[s] = M(iter[1 .. k], k + 1)
    BY <2>1, <2>3
  <2> QED
    BY <2>4 DEF s
<1> DEFINE A == [k \in 0 .. n |-> iter[1 .. k]]
           D == {k \in Nat : k <= n => iter[1 .. k] \in AllArrays}
<1>9. 0 \in D
  <2>1. 1 .. 0 = {}
    OBVIOUS
  <2> QED
    BY <1>7, <2>1
<1>10. \A k \in Nat : k \in D => k + 1 \in D
  <2> SUFFICES ASSUME NEW k \in Nat, k \in D PROVE k + 1 \in D
    OBVIOUS
  <2>0. k + 1 \in Nat
    OBVIOUS
  <2> SUFFICES ASSUME k + 1 <= n PROVE iter[1 .. k + 1] \in AllArrays
    BY <2>0, Zenon
  <2>1. iter[1 .. k] \in AllArrays /\ k + 1 \in 1 .. n
    OBVIOUS
  <2>2. M(iter[1 .. k], k + 1) \in AllArrays
    <3>1. (k + 1) - 1 = k /\ k \in 0 .. n - 1
      BY <2>1
    <3> QED
      BY <2>1, <3>1 DEF M, CopiesWithin
  <2> QED
    BY <1>8, <2>2
<1> HIDE DEF D
<1>11. Nat \subseteq D
  BY <1>9, <1>10, Induction
<1>12. A \in [0 .. n -> AllArrays]
  <2> SUFFICES ASSUME NEW k \in 0 .. n PROVE iter[1 .. k] \in AllArrays
    OBVIOUS
  <2>1. k \in Nat /\ k <= n
    OBVIOUS
  <2> QED
    BY <1>11, <2>1 DEF D
<1>13. A[0] = Zeroed(g) /\ A[n] = iter[1 .. n]
  <2>1. 1 .. 0 = {} /\ 0 \in 0 .. n /\ n \in 0 .. n
    OBVIOUS
  <2>2. A[0] = iter[1 .. 0] /\ A[n] = iter[1 .. n]
    BY <2>1
  <2> QED
    BY <1>7, <2>1, <2>2
<1>14. \A k \in 0 .. n - 1 : A[k + 1] = M(A[k], k + 1)
  <2> SUFFICES ASSUME NEW k \in 0 .. n - 1 PROVE A[k + 1] = M(A[k], k + 1)
    OBVIOUS
  <2>1. k \in Nat /\ k + 1 <= n /\ k \in 0 .. n /\ k + 1 \in 0 .. n
    OBVIOUS
  <2>2. A[k + 1] = iter[1 .. k + 1] /\ A[k] = iter[1 .. k]
    BY <2>1
  <2> HIDE DEF A
  <2> QED
    BY <1>8, <2>1, <2>2
<1> HIDE DEF A
<1> QED
  <2>1. \A k \in 0 .. n - 1 : (k + 1) - 1 = k
    OBVIOUS
  <2>2. \A k \in 0 .. n - 1 : A[k + 1] = CopyVertex(g, k, A[k], N)
    BY <1>14, <2>1 DEF M
  <2> QED
    BY <1>6, <1>12, <1>13, <2>2 DEF CopySteps

-----------------------------------------------------------------------------
(***************************************************************************)
(* Moving blocks of cells one after the other.  Block v has on[v] cells     *)
(* from old[v] on and deg[v] from new[v] on, the last of which come from    *)
(* elsewhere (tail).                                                        *)
(***************************************************************************)

\* What block v holds in array E, and is to hold.
BlockCell(E, v, j, old, on, tail) == IF j < on[v] THEN E[old[v] + j] ELSE tail[<<v, j>>]

\* Array R is E after block v has moved.
BlockMoved(E, R, C, v, old, on, new, deg, tail) ==
  /\ \A c \in C : c < new[v] \/ new[v] + deg[v] <= c => R[c] = E[c]
  /\ \A j \in 0 .. deg[v] - 1 : R[new[v] + j] = BlockCell(E, v, j, old, on, tail)

\* The blocks move one after the other.
BlockSteps(n, A, C, order, old, on, new, deg, tail) ==
  \A k \in 0 .. n - 1 : BlockMoved(A[k], A[k + 1], C, order[k + 1], old, on, new, deg, tail)

\* Blocks in an order in which none is overwritten before it has moved.
SafeOrder(n, order, V, C, old, on, new, deg) ==
  /\ order \in [1 .. n -> V]
  /\ \A i, j \in 1 .. n : i # j => order[i] # order[j]
  /\ \A v \in V : /\ old[v] \in Int /\ on[v] \in Nat /\ new[v] \in Int /\ deg[v] \in Nat
                  /\ on[v] <= deg[v]
                  /\ \A j \in 0 .. deg[v] - 1 : new[v] + j \in C
                  /\ \A j \in 0 .. on[v] - 1 : old[v] + j \in C
  /\ \A v, w \in V : v # w => new[v] + deg[v] <= new[w] \/ new[w] + deg[w] <= new[v]
  /\ \A i, j \in 1 .. n : i < j =>
       \/ old[order[j]] + on[order[j]] <= new[order[i]]
       \/ new[order[i]] + deg[order[i]] <= old[order[j]]

BlocksThere(n, A, C, order, old, on, new, deg, tail) ==
  /\ \A i \in 1 .. n : \A j \in 0 .. deg[order[i]] - 1 :
       A[n][new[order[i]] + j] = BlockCell(A[0], order[i], j, old, on, tail)
  /\ \A c \in C :
       (\A i \in 1 .. n : c < new[order[i]] \/ new[order[i]] + deg[order[i]] <= c)
         => A[n][c] = A[0][c]

\* In such an order every block arrives whole, and no other cell changes.
LEMMA BlocksArrive ==
  ASSUME NEW n \in Nat, NEW order, NEW V, NEW C \in SUBSET Int, NEW old, NEW on, NEW new, NEW deg, NEW tail,
         SafeOrder(n, order, V, C, old, on, new, deg),
         NEW A, BlockSteps(n, A, C, order, old, on, new, deg, tail)
  PROVE  BlocksThere(n, A, C, order, old, on, new, deg, tail)
<1> USE DEF BlockSteps, BlocksThere
<1> DEFINE Arrived(k) == \A i \in 1 .. k : \A j \in 0 .. deg[order[i]] - 1 :
                           A[k][new[order[i]] + j] = BlockCell(A[0], order[i], j, old, on, tail)
           Waiting(k) == \A i \in k + 1 .. n : \A j \in 0 .. on[order[i]] - 1 :
                           A[k][old[order[i]] + j] = A[0][old[order[i]] + j]
           Others(k) == \A c \in C :
              (\A i \in 1 .. n : c < new[order[i]] \/ new[order[i]] + deg[order[i]] <= c)
                => A[k][c] = A[0][c]
           J(k) == Arrived(k) /\ Waiting(k) /\ Others(k)
           D == {k \in Nat : k <= n => J(k)}
<1>1. \A i \in 1 .. n :
        /\ order[i] \in V
        /\ old[order[i]] \in Int /\ on[order[i]] \in Nat /\ new[order[i]] \in Int /\ deg[order[i]] \in Nat
        /\ on[order[i]] <= deg[order[i]]
        /\ \A j \in 0 .. deg[order[i]] - 1 : new[order[i]] + j \in C
        /\ \A j \in 0 .. on[order[i]] - 1 : old[order[i]] + j \in C
  BY DEF SafeOrder
<1>2. \A i, j \in 1 .. n : i # j =>
        \/ new[order[i]] + deg[order[i]] <= new[order[j]]
        \/ new[order[j]] + deg[order[j]] <= new[order[i]]
  BY <1>1 DEF SafeOrder
<1>3. \A i, j \in 1 .. n : i < j =>
        \/ old[order[j]] + on[order[j]] <= new[order[i]]
        \/ new[order[i]] + deg[order[i]] <= old[order[j]]
  BY DEF SafeOrder
<1>4. 0 \in D
  <2>1. 0 + 1 .. n = 1 .. n /\ 1 .. 0 = {}
    OBVIOUS
  <2> QED
    BY <2>1
<1>5. \A k \in Nat : k \in D => k + 1 \in D
  <2> SUFFICES ASSUME NEW k \in Nat, k \in D PROVE k + 1 \in D
    OBVIOUS
  <2>0. k + 1 \in Nat
    OBVIOUS
  <2> SUFFICES ASSUME k + 1 <= n PROVE J(k + 1)
    BY <2>0, Zenon
  <2>1. k <= n /\ k \in 0 .. n - 1 /\ k + 1 \in 1 .. n
    OBVIOUS
  <2>2. J(k)
    BY <2>1
  <2> DEFINE v == order[k + 1]
  <2>3. BlockMoved(A[k], A[k + 1], C, v, old, on, new, deg, tail)
    BY <2>1
  <2> HIDE DEF D, J
  <2>4. /\ \A c \in C : c < new[v] \/ new[v] + deg[v] <= c => A[k + 1][c] = A[k][c]
        /\ \A j \in 0 .. deg[v] - 1 : A[k + 1][new[v] + j] = BlockCell(A[k], v, j, old, on, tail)
    BY <2>3 DEF BlockMoved
  <2>5. Arrived(k + 1)
    <3> SUFFICES ASSUME NEW i \in 1 .. k + 1, NEW j \in 0 .. deg[order[i]] - 1
                 PROVE  A[k + 1][new[order[i]] + j] = BlockCell(A[0], order[i], j, old, on, tail)
      OBVIOUS
    <3>1. CASE i = k + 1
      <4>1. A[k + 1][new[v] + j] = BlockCell(A[k], v, j, old, on, tail)
        BY <2>4, <3>1
      <4>2. j < on[v] => A[k][old[v] + j] = A[0][old[v] + j]
        <5> SUFFICES ASSUME j < on[v] PROVE A[k][old[v] + j] = A[0][old[v] + j]
          OBVIOUS
        <5>1. j \in 0 .. on[v] - 1
          BY <1>1, <2>1, <3>1
        <5>2. k + 1 \in k + 1 .. n
          BY <2>1
        <5> QED
          BY <2>2, <5>1, <5>2 DEF J
      <4> QED
        BY <3>1, <4>1, <4>2 DEF BlockCell
    <3>2. CASE i # k + 1
      <4>1. i \in 1 .. k /\ i \in 1 .. n
        BY <2>1, <3>2
      <4>2. A[k][new[order[i]] + j] = BlockCell(A[0], order[i], j, old, on, tail)
        BY <2>2, <4>1 DEF J
      <4>3. new[order[i]] + j < new[v] \/ new[v] + deg[v] <= new[order[i]] + j
        <5>1. \/ new[order[i]] + deg[order[i]] <= new[v]
              \/ new[v] + deg[v] <= new[order[i]]
          BY <1>2, <2>1, <3>2, <4>1
        <5>2. new[order[i]] \in Int /\ deg[order[i]] \in Nat /\ new[v] \in Int /\ deg[v] \in Nat
          BY <1>1, <2>1, <4>1
        <5> HIDE DEF v
        <5> QED
          BY <5>1, <5>2
      <4>4. new[order[i]] + j \in C
        BY <1>1, <4>1
      <4>5. A[k + 1][new[order[i]] + j] = A[k][new[order[i]] + j]
        <5> HIDE DEF v
        <5> QED
          BY <2>4, <4>3, <4>4
      <4> QED
        BY <4>2, <4>5
    <3> QED
      BY <3>1, <3>2
  <2>6. Waiting(k + 1)
    <3> SUFFICES ASSUME NEW i \in (k + 1) + 1 .. n, NEW j \in 0 .. on[order[i]] - 1
                 PROVE  A[k + 1][old[order[i]] + j] = A[0][old[order[i]] + j]
      OBVIOUS
    <3>1. i \in 1 .. n /\ i \in k + 1 .. n /\ k + 1 < i
      BY <2>1
    <3>2. A[k][old[order[i]] + j] = A[0][old[order[i]] + j]
      BY <2>2, <3>1 DEF J
    <3>3. old[order[i]] + j < new[v] \/ new[v] + deg[v] <= old[order[i]] + j
      <4>1. \/ old[order[i]] + on[order[i]] <= new[v]
            \/ new[v] + deg[v] <= old[order[i]]
        BY <1>3, <2>1, <3>1
      <4>2. old[order[i]] \in Int /\ on[order[i]] \in Nat /\ new[v] \in Int /\ deg[v] \in Nat
        BY <1>1, <2>1, <3>1
      <4> HIDE DEF v
      <4> QED
        BY <4>1, <4>2
    <3>4. old[order[i]] + j \in C
      BY <1>1, <3>1
    <3>5. A[k + 1][old[order[i]] + j] = A[k][old[order[i]] + j]
      <4> HIDE DEF v
      <4> QED
        BY <2>4, <3>3, <3>4
    <3> QED
      BY <3>2, <3>5
  <2>7. Others(k + 1)
    <3> SUFFICES ASSUME NEW c \in C,
                        \A i \in 1 .. n : c < new[order[i]] \/ new[order[i]] + deg[order[i]] <= c
                 PROVE  A[k + 1][c] = A[0][c]
      OBVIOUS
    <3>1. A[k][c] = A[0][c]
      BY <2>2 DEF J
    <3>2. c < new[v] \/ new[v] + deg[v] <= c
      BY <2>1
    <3> HIDE DEF v
    <3>3. A[k + 1][c] = A[k][c]
      BY <2>4, <3>2
    <3> QED
      BY <3>1, <3>3
  <2> QED
    BY <2>5, <2>6, <2>7 DEF J
<1> HIDE DEF D
<1>6. Nat \subseteq D
  BY <1>4, <1>5, Induction
<1>7. J(n)
  <2> HIDE DEF J
  <2>1. n \in D
    BY <1>6
  <2> QED
    BY <2>1 DEF D
<1> QED
  BY <1>7

-----------------------------------------------------------------------------
(***************************************************************************)
(* The order in which rebalance_data_V1 takes the vertices.                 *)
(***************************************************************************)

\* The least element of a nonempty set of naturals.
LEMMA LeastIs ==
  ASSUME NEW S \in SUBSET Nat, S # {}
  PROVE  Min(S) \in S /\ \A y \in S : Min(S) <= y
<1> DEFINE L == {x \in Nat : \A y \in S : x <= y}
<1>1. PICK m \in S : TRUE
  OBVIOUS
<1>2. 0 \in L /\ \A x \in L : x <= m
  OBVIOUS
<1>3. PICK k \in L : \A x \in L : x <= k
  <2>1. L \in SUBSET Nat /\ m \in Nat /\ L # {}
    BY <1>2
  <2> HIDE DEF L
  <2> QED
    BY <1>2, <2>1, Greatest
<1>4. k \in S
  <2> SUFFICES ASSUME k \notin S PROVE FALSE
    OBVIOUS
  <2>1. k + 1 \in L
    <3> SUFFICES ASSUME NEW y \in S PROVE k + 1 <= y
      OBVIOUS
    <3>1. k <= y /\ k # y /\ k \in Nat /\ y \in Nat
      OBVIOUS
    <3> HIDE DEF L
    <3> QED
      BY <3>1
  <2>2. k + 1 <= k /\ k \in Nat
    BY <1>3, <2>1
  <2> QED
    BY <2>2
<1>5. \E x \in S : \A y \in S : x =< y
  BY <1>4
<1> QED
  BY <1>5 DEF Min

\* The greatest element of a nonempty bounded one.
LEMMA GreatestIs ==
  ASSUME NEW S \in SUBSET Nat, NEW m \in Nat, \A y \in S : y <= m, S # {}
  PROVE  Max(S) \in S /\ \A y \in S : y <= Max(S)
<1>1. PICK k \in S : \A y \in S : y <= k
  BY Greatest
<1>2. \E x \in S : \A y \in S : x >= y
  BY <1>1
<1>3. Max(S) \in S /\ \A y \in S : Max(S) >= y
  BY <1>2 DEF Max
<1> QED
  BY <1>3

\* The vertices from a to b - 1 at which a group ends.
Ends(g, a, b, N) ==
  {i \in a .. b - 1 :
     \/ i = b - 1
     \/ N[i] + g.vertices_[i].degree <= g.vertices_[i + 1].index}

\* Each vertex is taken once.  If v is taken before w, either a group ends
\* between them and v is the lower one, or no group does and v is the upper one.
LEMMA MoveOrderIs ==
  ASSUME NEW g, NEW a \in Nat, NEW b \in Nat, a < b, NEW N
  PROVE  LET order == MoveOrder(g, a, b, N)
             ends == Ends(g, a, b, N)
         IN /\ order \in [1 .. b - a -> a .. b - 1]
            /\ \A i, j \in 1 .. b - a : i < j =>
                 \/ \E e \in ends : order[i] <= e /\ e < order[j]
                 \/ /\ order[j] < order[i]
                    /\ \A e \in order[j] .. order[i] - 1 : e \notin ends
<1> DEFINE ends == Ends(g, a, b, N)
           I == a .. b - 1
           after(v) == {e \in ends : e >= v}
           before(v) == {a} \cup {e + 1 : e \in {x \in ends : x < v}}
           GE(v) == Min(after(v))
           GS(v) == Max(before(v))
           slot(k) == a + k - 1
           order == MoveOrder(g, a, b, N)
<1>1. ends \subseteq I /\ b - 1 \in ends /\ b - 1 \in I
  BY DEF Ends
<1>2. order = [k \in 1 .. b - a |-> GS(slot(k)) + GE(slot(k)) - slot(k)]
  BY DEF MoveOrder, Ends
<1> HIDE DEF ends, order
<1>3. ASSUME NEW v \in I
      PROVE  /\ GE(v) \in ends /\ v <= GE(v) /\ \A e \in ends : v <= e => GE(v) <= e
             /\ GS(v) \in Nat /\ a <= GS(v) /\ GS(v) <= v /\ \A e \in ends : e < v => e + 1 <= GS(v)
  <2>0. v \in Nat /\ v <= b - 1 /\ a <= v
    OBVIOUS
  <2>1. after(v) \in SUBSET Nat /\ b - 1 \in after(v)
    <3>1. \A e \in ends : e \in Nat
      BY <1>1
    <3>2. b - 1 >= v
      BY <2>0
    <3> QED
      BY <1>1, <3>1, <3>2
  <2>2. GE(v) \in after(v) /\ \A e \in after(v) : GE(v) <= e
    <3> HIDE DEF after
    <3> QED
      BY <2>1, LeastIs
  <2>3. before(v) \in SUBSET Nat /\ a \in before(v) /\ \A x \in before(v) : x <= v
    BY <1>1, <2>0
  <2>4. GS(v) \in before(v) /\ \A x \in before(v) : x <= GS(v)
    <3> HIDE DEF before
    <3> QED
      BY <2>0, <2>3, GreatestIs
  <2>5. GE(v) \in ends /\ v <= GE(v)
    BY <2>2
  <2>6. \A e \in ends : v <= e => GE(v) <= e
    <3> SUFFICES ASSUME NEW e \in ends, v <= e PROVE GE(v) <= e
      OBVIOUS
    <3>1. e \in after(v)
      BY <1>1
    <3> QED
      BY <2>2, <3>1
  <2>7. \A e \in ends : e < v => e + 1 <= GS(v)
    <3> SUFFICES ASSUME NEW e \in ends, e < v PROVE e + 1 <= GS(v)
      OBVIOUS
    <3>1. e + 1 \in before(v)
      OBVIOUS
    <3> HIDE DEF before, GS
    <3> QED
      BY <2>4, <3>1
  <2>8. GS(v) \in Nat /\ a <= GS(v) /\ GS(v) <= v
    <3> HIDE DEF before, GS
    <3> QED
      BY <2>3, <2>4
  <2> QED
    BY <2>5, <2>6, <2>7, <2>8
<1>0. \A e \in ends : e \in Int
  BY <1>1
<1> HIDE DEF GE, GS
<1>4. ASSUME NEW v \in I, NEW w \in I, v < w, w <= GE(v)
      PROVE  GE(w) = GE(v) /\ GS(w) = GS(v)
  <2>0. v \in Nat /\ w \in Nat
    OBVIOUS
  <2>1. GE(w) = GE(v)
    <3>1. /\ GE(v) \in ends /\ \A e \in ends : v <= e => GE(v) <= e
          /\ GE(w) \in ends /\ w <= GE(w) /\ \A e \in ends : w <= e => GE(w) <= e
      BY <1>3
    <3>3. GE(v) \in Int /\ GE(w) \in Int
      BY <1>0, <3>1, Zenon
    <3>4. v <= GE(w)
      BY <1>4, <2>0, <3>1, <3>3
    <3>2. GE(w) <= GE(v) /\ GE(v) <= GE(w)
      BY <1>4, <3>1, <3>4
    <3> QED
      BY <3>2, <3>3
  <2>2. {x \in ends : x < w} = {x \in ends : x < v}
    <3> SUFFICES ASSUME NEW x \in ends PROVE x < w <=> x < v
      OBVIOUS
    <3>0. GE(v) \in ends /\ \A e \in ends : v <= e => GE(v) <= e
      BY <1>3
    <3>1. x \in Int /\ GE(v) \in Int
      BY <1>0, <3>0, Zenon
    <3>2. v <= x => GE(v) <= x
      BY <3>0
    <3> QED
      BY <1>4, <2>0, <3>1, <3>2
  <2>3. before(w) = before(v)
    BY <2>2
  <2> QED
    BY <2>1, <2>3 DEF GS
<1>5. \A k \in 1 .. b - a : slot(k) \in I
  OBVIOUS
<1>6. ASSUME NEW k \in 1 .. b - a
      PROVE  /\ order[k] \in I
             /\ GS(slot(k)) <= order[k] /\ order[k] <= GE(slot(k))
             /\ order[k] = GS(slot(k)) + GE(slot(k)) - slot(k)
  <2> DEFINE v == slot(k)
  <2>1. v \in I
    BY <1>5
  <2>2. order[k] = GS(v) + GE(v) - v
    BY <1>2
  <2> HIDE DEF v
  <2>3. GE(v) \in I /\ GS(v) \in Nat /\ a <= GS(v) /\ GS(v) <= v /\ v <= GE(v)
    BY <1>1, <1>3, <2>1
  <2>4. order[k] \in I /\ GS(v) <= order[k] /\ order[k] <= GE(v)
    BY <2>1, <2>2, <2>3
  <2> QED
    BY <2>2, <2>4 DEF v
<1>7. order \in [1 .. b - a -> I]
  BY <1>2, <1>6
<1>8. ASSUME NEW i \in 1 .. b - a, NEW j \in 1 .. b - a, i < j
      PROVE  \/ \E e \in ends : order[i] <= e /\ e < order[j]
             \/ /\ order[j] < order[i]
                /\ \A e \in order[j] .. order[i] - 1 : e \notin ends
  <2> DEFINE x == slot(i)
             y == slot(j)
  <2>1. x \in I /\ y \in I /\ x < y
    BY <1>5, <1>8
  <2>2. /\ order[i] \in I /\ GS(x) <= order[i] /\ order[i] <= GE(x) /\ order[i] = GS(x) + GE(x) - x
        /\ order[j] \in I /\ GS(y) <= order[j] /\ order[j] <= GE(y) /\ order[j] = GS(y) + GE(y) - y
    BY <1>6
  <2> HIDE DEF x, y, slot
  <2>3. /\ GE(x) \in ends /\ GE(x) \in I /\ x <= GE(x) /\ \A e \in ends : x <= e => GE(x) <= e
        /\ GS(x) \in Nat /\ \A e \in ends : e < x => e + 1 <= GS(x)
    BY <1>1, <1>3, <2>1
  <2>4. GS(y) \in Nat /\ \A e \in ends : e < y => e + 1 <= GS(y)
    BY <1>3, <2>1
  <2>5. CASE GE(x) < y
    <3>1. GE(x) + 1 <= GS(y)
      BY <2>3, <2>4, <2>5
    <3>2. order[i] <= GE(x) /\ GE(x) < order[j]
      BY <2>2, <2>3, <2>4, <3>1
    <3> QED
      BY <2>3, <3>2
  <2>6. CASE y <= GE(x)
    <3>1. GE(y) = GE(x) /\ GS(y) = GS(x)
      BY <1>4, <2>1, <2>6
    <3>2. order[j] < order[i]
      BY <2>1, <2>2, <2>3, <3>1
    <3>3. ASSUME NEW e \in order[j] .. order[i] - 1, e \in ends PROVE FALSE
      <4>1. e \in Int /\ GS(x) <= e /\ e < GE(x)
        BY <2>2, <2>3, <2>4, <3>1
      <4>2. CASE e < x
        BY <2>3, <3>3, <4>1, <4>2
      <4>3. CASE x <= e
        <5>1. GE(x) <= e
          BY <2>3, <3>3, <4>3
        <5> QED
          BY <2>3, <4>1, <5>1
      <4>4. x \in Int
        BY <2>1
      <4> QED
        BY <4>1, <4>2, <4>3, <4>4
    <3> QED
      BY <3>2, <3>3
  <2>7. x \in Int /\ y \in Int /\ GE(x) \in Int
    BY <2>1, <2>3
  <2> QED
    BY <2>5, <2>6, <2>7
<1> QED
  BY <1>7, <1>8 DEF order, ends

-----------------------------------------------------------------------------
(***************************************************************************)
(* Well-typed graphs.  Nothing is said here of where the vertices lie: the  *)
(* types, the links of the logs and the counts are kept whatever room there *)
(* is.                                                                      *)
(***************************************************************************)

\* Every log links backwards and fits, and every vertex points into its log.
LogsTyped(g) ==
  /\ \A s \in Leaves : Linked(g.log_[s]) /\ Len(g.log_[s]) <= MAX_LOG_ENTRIES
  /\ \A v \in Vertices : g.vertices_[v].offset \in -1 .. Len(g.log_[SegmentOf(v)]) - 1

Arrays(n, V) == [0 .. n - 1 -> V]

Typed(g) ==
  /\ GraphShape(g)
  /\ g.vertices_ \in [Vertices -> Entry]
  /\ g.elem_capacity \in Nat \ {0}
  /\ \E V : g.edges_ \in Arrays(g.elem_capacity, V)
  /\ g.num_edges_ \in Int
  /\ g.segment_edges_actual \in [Leaves -> Int]
  /\ g.segment_edges_total \in [Leaves -> Int]
  /\ LogsTyped(g)

\* The log chain of a vertex is a sequence, empty if it has no offset.
LEMMA ChainOfVertex ==
  ASSUME NEW g, LogsTyped(g), NEW v \in Vertices
  PROVE  /\ log_chain(g, v) \in Seq(LogValues(g.log_[SegmentOf(v)]))
         /\ g.vertices_[v].offset = -1 => log_chain(g, v) = <<>>
         /\ g.vertices_[v].offset # -1 => Len(log_chain(g, v)) > 0
<1>1. SegmentOf(v) \in Leaves
  BY LeafOfVertex
<1>2. Linked(g.log_[SegmentOf(v)]) /\ g.vertices_[v].offset \in -1 .. Len(g.log_[SegmentOf(v)]) - 1
  BY <1>1 DEF LogsTyped
<1> QED
  BY <1>2, LogChainIs, ChainType

\* The empty log links backwards.
LEMMA EmptyLinked == Linked(<<>>) /\ Len(<<>>) = 0
BY EmptyIsSequence DEF Linked

\* Moving a vertex gives an array of the same length, of cells there were, of
\* edges of its log and of what is read past the end.
LEMMA MoveTyped ==
  ASSUME NEW g, LogsTyped(g), NEW v \in Vertices, NEW V, Garbage \in V,
         LogValues(g.log_[SegmentOf(v)]) \subseteq V,
         NEW J, NEW from \in [J -> V], NEW I, NEW to \in [I -> V],
         NEW i, NEW j, NEW k, NEW index
  PROVE  MergeLog(g, v, CopyCells(from, to, i, j, k), index) \in [I -> V]
<1> DEFINE chain == log_chain(g, v)
           last == index + g.vertices_[v].degree - 1
           R == CopyCells(from, to, i, j, k)
<1>1. R \in [I -> V]
  BY DEF CopyCells
<1>2. chain \in Seq(V)
  <2>1. chain \in Seq(LogValues(g.log_[SegmentOf(v)]))
    BY ChainOfVertex
  <2> HIDE DEF chain
  <2> QED
    BY <2>1
<1>3. MergeLog(g, v, R, index) =
        [c \in DOMAIN R |-> IF last - c \in 0 .. Len(chain) - 1 THEN chain[last - c + 1] ELSE R[c]]
  BY DEF MergeLog
<1> HIDE DEF chain, last, R
<1>4. ASSUME NEW x, x \in 0 .. Len(chain) - 1 PROVE chain[x + 1] \in V
  <2>1. x + 1 \in 1 .. Len(chain)
    BY <1>2, <1>4
  <2> QED
    BY <1>2, <2>1
<1>5. DOMAIN R = I /\ \A c \in I : R[c] \in V
  BY <1>1
<1>6. \A c \in I : (IF last - c \in 0 .. Len(chain) - 1 THEN chain[last - c + 1] ELSE R[c]) \in V
  <2> TAKE c \in I
  <2>1. CASE last - c \in 0 .. Len(chain) - 1
    BY <1>4, <2>1
  <2>2. CASE last - c \notin 0 .. Len(chain) - 1
    BY <1>5, <2>2
  <2> QED
    BY <2>1, <2>2
<1>7. MergeLog(g, v, R, index) =
        [c \in I |-> IF last - c \in 0 .. Len(chain) - 1 THEN chain[last - c + 1] ELSE R[c]]
  BY <1>3, <1>5
<1> QED
  BY <1>6, <1>7 DEF R

\* The cells, the edges of the logs and Garbage.
CellValues(g) ==
  {g.edges_[c] : c \in 0 .. g.elem_capacity - 1}
    \cup (UNION {LogValues(g.log_[s]) : s \in Leaves}) \cup {Garbage, 0}

\* The edge array holds contents.
LEMMA ContentsHold ==
  ASSUME NEW g, Typed(g)
  PROVE  /\ g.edges_ \in Arrays(g.elem_capacity, CellValues(g))
         /\ Garbage \in CellValues(g) /\ 0 \in CellValues(g)
         /\ \A v \in Vertices : LogValues(g.log_[SegmentOf(v)]) \subseteq CellValues(g)
<1>1. g.edges_ = [c \in 0 .. g.elem_capacity - 1 |-> g.edges_[c]]
  BY DEF Typed, Arrays
<1>2. \A v \in Vertices : SegmentOf(v) \in Leaves
  BY LeafOfVertex
<1>3. g.edges_ \in Arrays(g.elem_capacity, CellValues(g))
  <2>1. \A c \in 0 .. g.elem_capacity - 1 : g.edges_[c] \in CellValues(g)
    BY DEF CellValues
  <2> QED
    BY <1>1, <2>1 DEF Arrays
<1>4. \A v \in Vertices : LogValues(g.log_[SegmentOf(v)]) \subseteq CellValues(g)
  BY <1>2, Zenon DEF CellValues
<1>5. Garbage \in CellValues(g) /\ 0 \in CellValues(g)
  <2> DEFINE X == {g.edges_[c] : c \in 0 .. g.elem_capacity - 1}
                    \cup (UNION {LogValues(g.log_[s]) : s \in Leaves})
  <2>1. CellValues(g) = X \cup {Garbage, 0}
    BY Zenon DEF CellValues
  <2> HIDE DEF X
  <2> QED
    BY <2>1
<1> QED
  BY <1>3, <1>4, <1>5

-----------------------------------------------------------------------------
(***************************************************************************)
(* What a rebalance of the leaves left .. right - 1 does.                   *)
(***************************************************************************)

\* The last vertex of a leaf ends where the next leaf begins.
LEMMA LeafEnd ==
  ASSUME NEW g, NEW s \in Leaves
  PROVE  /\ NextIndex(g, (s + 1) * segment_size - 1) = FirstIndex(g, s + 1)
         /\ g.vertices_[s * segment_size].index = FirstIndex(g, s)
         /\ NextIndex(g, first(s + 1) - 1) = FirstIndex(g, s + 1)
<1>0. s \in 0 .. leaf_count /\ s # leaf_count /\ s + 1 \in 0 .. leaf_count /\ leaf_count \in Nat
  BY TreeShape DEF Leaves
<1>1. /\ first(s + 1) \in 0 .. num_vertices /\ num_vertices \in Nat
      /\ s + 1 = leaf_count => first(s + 1) = num_vertices
      /\ s + 1 # leaf_count => first(s + 1) \in Vertices
  BY <1>0, Firsts, TreeShape
<1>2. s + 1 # leaf_count => ~(first(s + 1) - 1 >= num_vertices - 1) /\ (first(s + 1) - 1) + 1 = first(s + 1)
  BY <1>1 DEF Vertices
<1>3. NextIndex(g, first(s + 1) - 1) = FirstIndex(g, s + 1)
  BY <1>0, <1>1, <1>2 DEF NextIndex, FirstIndex
<1> QED
  BY <1>0, <1>3 DEF FirstIndex, first

\* A window of leaves as a window of vertices.
LEMMA WindowOfLeaves ==
  ASSUME NEW left \in Leaves, NEW right \in 1 .. leaf_count, left < right
  PROVE  /\ first(left) \in Vertices /\ first(right) \in 0 .. num_vertices /\ first(left) < first(right)
         /\ SegmentOf(first(left)) = left /\ first(right) \div segment_size = right
         /\ \A v \in Vertices :
              first(left) <= v /\ v < first(right) <=> left <= SegmentOf(v) /\ SegmentOf(v) < right
         /\ \A r \in 0 .. leaf_count : r <= left => first(r) <= first(left)
         /\ \A r \in 0 .. leaf_count : right <= r => first(right) <= first(r)
         /\ \A r \in 0 .. leaf_count : first(left) < first(r) /\ first(r) < first(right) => left < r /\ r < right
<1>0. left \in 0 .. leaf_count /\ right \in 0 .. leaf_count /\ left # leaf_count /\ leaf_count \in Nat
      /\ num_vertices \in Nat
  BY TreeShape DEF Leaves
<1>1. /\ first(left) \in Vertices /\ first(right) \in 0 .. num_vertices
      /\ SegmentOf(first(left)) = left /\ first(right) \div segment_size = right
      /\ first(left) < first(right)
  BY <1>0, Firsts
<1>2. \A r, q \in 0 .. leaf_count : /\ first(r) \in 0 .. num_vertices
                                    /\ r < q => first(r) < first(q)
  BY Firsts
<1>3. \A r \in 0 .. leaf_count :
        /\ r <= left => first(r) <= first(left)
        /\ right <= r => first(right) <= first(r)
  <2> TAKE r \in 0 .. leaf_count
  <2>1. r < left => first(r) < first(left)
    BY <1>0, <1>2
  <2>2. right < r => first(right) < first(r)
    BY <1>0, <1>2
  <2>3. first(r) \in 0 .. num_vertices /\ first(left) \in 0 .. num_vertices /\ first(right) \in 0 .. num_vertices
    BY <1>0, <1>2
  <2> QED
    BY <1>0, <2>1, <2>2, <2>3
<1>4. \A r \in 0 .. leaf_count : first(left) < first(r) /\ first(r) < first(right) => left < r /\ r < right
  <2> SUFFICES ASSUME NEW r \in 0 .. leaf_count, first(left) < first(r), first(r) < first(right)
               PROVE  left < r /\ r < right
    OBVIOUS
  <2>1. first(r) \in Int /\ first(left) \in Int /\ first(right) \in Int /\ r \in Int
    BY <1>0, <1>2
  <2> QED
    BY <1>0, <1>3, <2>1
<1>5. ASSUME NEW v \in Vertices
      PROVE  first(left) <= v /\ v < first(right) <=> left <= SegmentOf(v) /\ SegmentOf(v) < right
  <2> DEFINE s == SegmentOf(v)
  <2>1. s \in Leaves /\ first(s) <= v /\ v < first(s + 1)
    BY LeafOfVertex
  <2> HIDE DEF s
  <2>2. s \in 0 .. leaf_count /\ s + 1 \in 0 .. leaf_count /\ s \in Int
    BY <1>0, <2>1 DEF Leaves
  <2>3. v \in Int
    BY <1>0 DEF Vertices
  <2>4. first(s) \in Int /\ first(s + 1) \in Int /\ first(left) \in Int /\ first(right) \in Int
    BY <1>0, <1>2, <2>2
  <2>5. left < s => first(left) < first(s)
    BY <1>0, <1>2, <2>2
  <2>6. left <= s => first(left) <= first(s)
    BY <1>0, <2>2, <2>4, <2>5
  <2>7. s + 1 <= right => first(s + 1) <= first(right)
    <3>1. s + 1 < right => first(s + 1) < first(right)
      BY <1>0, <1>2, <2>2
    <3> QED
      BY <1>0, <2>2, <2>4, <3>1
  <2>8. s < left => first(s + 1) <= first(left)
    BY <1>0, <1>3, <2>2
  <2>9. right <= s => first(right) <= first(s)
    BY <1>3, <2>2
  <2>10. left <= s /\ s < right => first(left) <= v /\ v < first(right)
    BY <1>0, <2>1, <2>2, <2>3, <2>4, <2>6, <2>7
  <2>11. first(left) <= v /\ v < first(right) => left <= s /\ s < right
    BY <1>0, <2>1, <2>2, <2>3, <2>4, <2>8, <2>9
  <2> QED
    BY <2>10, <2>11 DEF s
<1> QED
  BY <1>1, <1>3, <1>4, <1>5

\* Graph h is g with the vertices of the leaves at positions N, their logs
\* merged and their totals counted again.
Rebalanced(g, left, right, N, h) ==
  LET a == first(left)
      b == first(right)
  IN /\ Typed(h)
     /\ N \in [a .. b - 1 -> Int] /\ N[a] = g.vertices_[a].index
     /\ h.vertices_ = [v \in Vertices |-> IF a <= v /\ v < b THEN MovedTo(g.vertices_[v], N[v])
                                          ELSE g.vertices_[v]]
     /\ h.log_ = [s \in Leaves |-> IF left <= s /\ s < right THEN <<>> ELSE g.log_[s]]
     /\ h.edges_ = Moved(g, MoveOrder(g, a, b, N), N, [v \in Vertices |-> onseg_edges(g, v)])
     /\ h.edges_ \in Arrays(g.elem_capacity, CellValues(g))
     /\ h.elem_capacity = g.elem_capacity /\ h.num_edges_ = g.num_edges_
     /\ h.segment_edges_actual = g.segment_edges_actual
     /\ \A s \in Leaves : h.segment_edges_total[s] =
          IF left <= s /\ s < right THEN FirstIndex(h, s + 1) - FirstIndex(h, s)
          ELSE g.segment_edges_total[s]

\* The graph after a rebalance.  used is only a number here.
LEMMA RebalanceIs ==
  ASSUME NEW g, Typed(g), NEW left \in Leaves, NEW right \in 1 .. leaf_count, left < right,
         NEW used \in Nat, NEW total \in Int
  PROVE  Rebalanced(g, left, right,
                    calculate_positions(g, first(left), first(right), total - used, used),
                    rebalance_weighted(g, left * segment_size, right * segment_size, used, total))
<1> DEFINE a == first(left)
           b == first(right)
           N == calculate_positions(g, a, b, total - used, used)
           on == [v \in Vertices |-> onseg_edges(g, v)]
           order == MoveOrder(g, a, b, N)
           E == Moved(g, order, N, on)
           V == [v \in Vertices |-> IF a <= v /\ v < b THEN MovedTo(g.vertices_[v], N[v])
                                    ELSE g.vertices_[v]]
           L == [s \in Leaves |-> IF left <= s /\ s < right THEN <<>> ELSE g.log_[s]]
           moved == [g EXCEPT !.edges_ = E, !.vertices_ = V, !.log_ = L]
           h == rebalance_weighted(g, left * segment_size, right * segment_size, used, total)
<1>1. /\ a \in Vertices /\ b \in 0 .. num_vertices /\ a < b
      /\ SegmentOf(a) = left /\ b \div segment_size = right
      /\ \A v \in Vertices : a <= v /\ v < b <=> left <= SegmentOf(v) /\ SegmentOf(v) < right
  BY WindowOfLeaves
<1>2. num_vertices \in Nat /\ Vertices = 0 .. num_vertices - 1 /\ a \in Nat /\ b \in Nat
  <2>1. num_vertices \in Nat /\ Vertices = 0 .. num_vertices - 1
    BY TreeShape DEF Vertices
  <2> HIDE DEF a, b
  <2> QED
    BY <1>1, <2>1
<1>3. h = recount_segment_total(moved, left, right)
  <2>1. left * segment_size = a /\ right * segment_size = b
    BY DEF first
  <2> HIDE DEF a, b
  <2>2. h = recount_segment_total(
              release_log([g EXCEPT !.edges_ = E, !.vertices_ = [v \in Vertices |->
                 IF a <= v /\ v < b THEN MovedTo(@[v], N[v]) ELSE @[v]]], left, right), left, right)
    BY <1>1, <2>1, Zenon DEF rebalance_weighted, rebalance_data_V1
  <2> HIDE DEF E, N
  <2>3. [g EXCEPT !.edges_ = E, !.vertices_ = [v \in Vertices |->
                 IF a <= v /\ v < b THEN MovedTo(@[v], N[v]) ELSE @[v]]]
        = [g EXCEPT !.edges_ = E, !.vertices_ = V]
    BY DEF Typed, GraphShape
  <2>4. release_log([g EXCEPT !.edges_ = E, !.vertices_ = V], left, right) = moved
    <3> HIDE DEF V
    <3> QED
      BY DEF Typed, GraphShape, release_log
  <2> QED
    BY <2>2, <2>3, <2>4
<1> HIDE DEF a, b
<1>4. N \in [a .. b - 1 -> Int] /\ N[a] = g.vertices_[a].index
  <2>1. total - used \in Int /\ used \in Nat /\ b <= num_vertices /\ a < b
    BY <1>1, <1>2
  <2> QED
    BY <1>2, <2>1, PositionsAre DEF Typed
<1> HIDE DEF N
<1>5. DOMAIN order = 1 .. b - a /\ b - a \in Nat /\ \A k \in 1 .. b - a : order[k] \in Vertices
  <2>1. order \in [1 .. b - a -> a .. b - 1]
    BY <1>1, <1>2, MoveOrderIs
  <2>2. a .. b - 1 \subseteq Vertices
    BY <1>1, <1>2
  <2> HIDE DEF order
  <2> QED
    BY <1>1, <1>2, <2>1, <2>2
<1> HIDE DEF order
<1>6. E \in Arrays(g.elem_capacity, CellValues(g))
  <2> DEFINE W == Arrays(g.elem_capacity, CellValues(g))
  <2>1. g.edges_ \in W
    BY ContentsHold
  <2>2. ASSUME NEW F \in W, NEW k \in 1 .. b - a
        PROVE  MoveVertex(g, order[k], F, N[order[k]], on[order[k]]) \in W
    <3>1. order[k] \in Vertices
      BY <1>5
    <3>2. LogsTyped(g) /\ Garbage \in CellValues(g)
          /\ LogValues(g.log_[SegmentOf(order[k])]) \subseteq CellValues(g)
      BY <3>1, ContentsHold DEF Typed
    <3>3. F \in [0 .. g.elem_capacity - 1 -> CellValues(g)]
      BY DEF Arrays
    <3> HIDE DEF on
    <3>4. MergeLog(g, order[k], CopyCells(F, F, g.vertices_[order[k]].index, N[order[k]], on[order[k]]),
                   N[order[k]]) \in [0 .. g.elem_capacity - 1 -> CellValues(g)]
      BY <3>1, <3>2, <3>3, MoveTyped
    <3> QED
      BY <3>4 DEF MoveVertex, Arrays
  <2> HIDE DEF W, on
  <2>3. MovesWithin(g, order, N, on, b - a, W)
    BY <2>2 DEF MovesWithin
  <2>6. \E A \in [0 .. b - a -> W] : MoveSteps(g, order, N, on, b - a, A)
    BY <1>5, <2>1, <2>3, MovedIs DEF Typed
  <2>4. b - a \in 0 .. b - a
    BY <1>5
  <2>5. E \in W
    BY <2>4, <2>6 DEF MoveSteps
  <2> QED
    BY <2>5 DEF W
<1> HIDE DEF E
<1>7. V \in [Vertices -> Entry]
  <2> SUFFICES ASSUME NEW v \in Vertices PROVE V[v] \in Entry
    OBVIOUS
  <2>1. g.vertices_[v] \in Entry
    BY DEF Typed
  <2>2. CASE a <= v /\ v < b
    <3>1. N[v] \in Int
      BY <1>1, <1>2, <1>4, <2>2
    <3> QED
      BY <2>1, <2>2, <3>1 DEF MovedTo, Entry
  <2>3. CASE ~(a <= v /\ v < b)
    BY <2>1, <2>3
  <2> QED
    BY <2>2, <2>3
<1>8. \A s \in Leaves : Linked(L[s]) /\ Len(L[s]) <= MAX_LOG_ENTRIES
  <2>1. MAX_LOG_ENTRIES \in Nat
    BY PmaAssumption
  <2> QED
    BY <2>1, EmptyLinked DEF Typed, LogsTyped
<1>9. \A v \in Vertices : V[v].offset \in -1 .. Len(L[SegmentOf(v)]) - 1
  <2> SUFFICES ASSUME NEW v \in Vertices PROVE V[v].offset \in -1 .. Len(L[SegmentOf(v)]) - 1
    OBVIOUS
  <2>1. SegmentOf(v) \in Leaves
    BY LeafOfVertex
  <2>2. CASE a <= v /\ v < b
    <3>1. L[SegmentOf(v)] = <<>> /\ V[v].offset = -1
      BY <1>1, <2>1, <2>2 DEF MovedTo
    <3> QED
      BY <3>1, EmptyLinked
  <2>3. CASE ~(a <= v /\ v < b)
    <3>1. L[SegmentOf(v)] = g.log_[SegmentOf(v)] /\ V[v] = g.vertices_[v]
      BY <1>1, <2>1, <2>3
    <3> QED
      BY <3>1 DEF Typed, LogsTyped
  <2> QED
    BY <2>2, <2>3
<1>10. L = [s \in Leaves |-> L[s]]
  OBVIOUS
<1>v. V = [v \in Vertices |-> IF a <= v /\ v < b THEN MovedTo(g.vertices_[v], N[v]) ELSE g.vertices_[v]]
      /\ L = [s \in Leaves |-> IF left <= s /\ s < right THEN <<>> ELSE g.log_[s]]
  OBVIOUS
<1> HIDE DEF V, L, h
<1>11. /\ moved.edges_ = E /\ moved.vertices_ = V /\ moved.log_ = L
       /\ moved.elem_capacity = g.elem_capacity /\ moved.num_edges_ = g.num_edges_
       /\ moved.segment_edges_actual = g.segment_edges_actual
       /\ moved.segment_edges_total = g.segment_edges_total
       /\ moved = [vertices_ |-> V, edges_ |-> E, log_ |-> L, elem_capacity |-> g.elem_capacity,
                   num_edges_ |-> g.num_edges_, segment_edges_actual |-> g.segment_edges_actual,
                   segment_edges_total |-> g.segment_edges_total]
  <2>1. g = [vertices_ |-> g.vertices_, edges_ |-> g.edges_, log_ |-> g.log_,
          elem_capacity |-> g.elem_capacity, num_edges_ |-> g.num_edges_,
          segment_edges_actual |-> g.segment_edges_actual,
          segment_edges_total |-> g.segment_edges_total]
    BY DEF Typed, GraphShape
  <2>2. moved = [vertices_ |-> V, edges_ |-> E, log_ |-> L, elem_capacity |-> g.elem_capacity,
                   num_edges_ |-> g.num_edges_, segment_edges_actual |-> g.segment_edges_actual,
                   segment_edges_total |-> g.segment_edges_total]
    <3> DEFINE f1 == g.vertices_
               f2 == g.edges_
               f3 == g.log_
               f4 == g.elem_capacity
               f5 == g.num_edges_
               f6 == g.segment_edges_actual
               f7 == g.segment_edges_total
    <3>1. g = [vertices_ |-> f1, edges_ |-> f2, log_ |-> f3, elem_capacity |-> f4, num_edges_ |-> f5,
               segment_edges_actual |-> f6, segment_edges_total |-> f7]
      BY <2>1
    <3> HIDE DEF f1, f2, f3, f4, f5, f6, f7
    <3>2. moved = [vertices_ |-> V, edges_ |-> E, log_ |-> L, elem_capacity |-> f4, num_edges_ |-> f5,
                   segment_edges_actual |-> f6, segment_edges_total |-> f7]
      <4> DEFINE g1 == [g EXCEPT !.edges_ = E]
                 g2 == [g1 EXCEPT !.vertices_ = V]
                 g3 == [g2 EXCEPT !.log_ = L]
      <4>0. moved = g3
        OBVIOUS
      <4> HIDE DEF moved, g3
      <4>1. g1 = [vertices_ |-> f1, edges_ |-> E, log_ |-> f3, elem_capacity |-> f4, num_edges_ |-> f5,
                  segment_edges_actual |-> f6, segment_edges_total |-> f7]
        BY <3>1
      <4> HIDE DEF g1
      <4>2. g2 = [vertices_ |-> V, edges_ |-> E, log_ |-> f3, elem_capacity |-> f4, num_edges_ |-> f5,
                  segment_edges_actual |-> f6, segment_edges_total |-> f7]
        BY <4>1
      <4> HIDE DEF g2
      <4>3. g3 = [vertices_ |-> V, edges_ |-> E, log_ |-> L, elem_capacity |-> f4, num_edges_ |-> f5,
                  segment_edges_actual |-> f6, segment_edges_total |-> f7]
        BY <4>2 DEF g3
      <4> QED
        BY <4>0, <4>3
    <3> QED
      BY <3>2, Zenon DEF f4, f5, f6, f7
  <2> HIDE DEF moved
  <2> QED
    BY <2>2
<1> HIDE DEF moved
<1> DEFINE T == [s \in Leaves |-> IF left <= s /\ s < right
                                  THEN FirstIndex(moved, s + 1) - FirstIndex(moved, s)
                                  ELSE g.segment_edges_total[s]]
<1>12. h = [moved EXCEPT !.segment_edges_total = T]
  <2>1. \A s \in Leaves : NextIndex(moved, (s + 1) * segment_size - 1) - moved.vertices_[s * segment_size].index
                           = FirstIndex(moved, s + 1) - FirstIndex(moved, s)
    BY LeafEnd
  <2> QED
    BY <1>3, <1>11, <2>1 DEF recount_segment_total
<1>13. /\ h.edges_ = E /\ h.vertices_ = V /\ h.log_ = L
       /\ h.elem_capacity = g.elem_capacity /\ h.num_edges_ = g.num_edges_
       /\ h.segment_edges_actual = g.segment_edges_actual
       /\ h.segment_edges_total = T
       /\ GraphShape(h)
  <2> HIDE DEF T
  <2> QED
    BY <1>10, <1>11, <1>12 DEF GraphShape
<1>14. \A r : FirstIndex(moved, r) = FirstIndex(h, r)
  BY <1>11, <1>13 DEF FirstIndex
<1>15. T \in [Leaves -> Int]
  <2>1. \A r \in 0 .. leaf_count : FirstIndex(moved, r) \in Int
    <3> SUFFICES ASSUME NEW r \in 0 .. leaf_count PROVE FirstIndex(moved, r) \in Int
      OBVIOUS
    <3>1. r # leaf_count => first(r) \in Vertices
      BY Firsts
    <3> QED
      BY <1>7, <1>11, <3>1 DEF FirstIndex, Entry, Typed
  <2>2. \A s \in Leaves : s \in 0 .. leaf_count /\ s + 1 \in 0 .. leaf_count
    BY TreeShape DEF Leaves
  <2> QED
    BY <2>1, <2>2 DEF Typed
<1>16. Typed(h)
  <2> HIDE DEF T
  <2> QED
    BY <1>6, <1>7, <1>8, <1>9, <1>13, <1>15 DEF Typed, LogsTyped
<1>17. \A s \in Leaves : T[s] = IF left <= s /\ s < right THEN FirstIndex(h, s + 1) - FirstIndex(h, s)
                                ELSE g.segment_edges_total[s]
  BY <1>14
<1> HIDE DEF T, on
<1>18. h.edges_ = E /\ h.edges_ \in Arrays(g.elem_capacity, CellValues(g))
  BY <1>6, <1>13
<1> QED
  BY <1>4, <1>13, <1>16, <1>17, <1>18, <1>v, Zenon DEF E, N, a, b, h, on, order, Rebalanced

\* A rebalance keeps the degrees and the counts exact, and the borders of the
\* window where they are.
LEMMA RebalanceCounts ==
  ASSUME NEW g, Typed(g), NEW left \in Leaves, NEW right \in 1 .. leaf_count, left < right,
         NEW used \in Nat, NEW total \in Int
  PROVE  LET h == rebalance_weighted(g, left * segment_size, right * segment_size, used, total)
         IN /\ Degrees(h) = Degrees(g)
            /\ \A r \in 0 .. leaf_count : r <= left \/ right <= r => FirstIndex(h, r) = FirstIndex(g, r)
            /\ CountsOf(g) => CountsOf(h)
<1> DEFINE a == first(left)
           b == first(right)
           N == calculate_positions(g, a, b, total - used, used)
           h == rebalance_weighted(g, left * segment_size, right * segment_size, used, total)
<1>r. Rebalanced(g, left, right, N, h)
  BY RebalanceIs
<1> HIDE DEF h, N
<1>1. /\ N[a] = g.vertices_[a].index
      /\ h.vertices_ = [v \in Vertices |-> IF a <= v /\ v < b THEN MovedTo(g.vertices_[v], N[v])
                                           ELSE g.vertices_[v]]
      /\ h.elem_capacity = g.elem_capacity /\ h.num_edges_ = g.num_edges_
      /\ h.segment_edges_actual = g.segment_edges_actual
      /\ h.segment_edges_total \in [Leaves -> Int]
      /\ \A s \in Leaves : h.segment_edges_total[s] =
           IF left <= s /\ s < right THEN FirstIndex(h, s + 1) - FirstIndex(h, s)
           ELSE g.segment_edges_total[s]
  BY <1>r DEF Rebalanced, Typed
<1>2. /\ a \in Vertices /\ b \in 0 .. num_vertices /\ a < b
      /\ \A r \in 0 .. leaf_count : r <= left => first(r) <= a
      /\ \A r \in 0 .. leaf_count : right <= r => b <= first(r)
  BY WindowOfLeaves
<1> HIDE DEF a, b
<1>3. /\ num_vertices \in Nat /\ Vertices = 0 .. num_vertices - 1 /\ a \in Nat /\ b \in Nat
      /\ left \in Int /\ right \in Int /\ leaf_count \in Nat /\ Leaves = 0 .. leaf_count - 1
  <2>1. /\ num_vertices \in Nat /\ Vertices = 0 .. num_vertices - 1
        /\ leaf_count \in Nat /\ Leaves = 0 .. leaf_count - 1
    BY TreeShape DEF Vertices, Leaves
  <2> QED
    BY <1>2, <2>1
<1>4. Degrees(h) = Degrees(g)
  <2>1. \A v \in Vertices : h.vertices_[v].degree = g.vertices_[v].degree
    BY <1>1 DEF MovedTo
  <2> QED
    BY <2>1 DEF Degrees
<1>5. ASSUME NEW r \in 0 .. leaf_count, r <= left \/ right <= r
      PROVE  FirstIndex(h, r) = FirstIndex(g, r)
  <2>1. CASE r = leaf_count
    BY <1>1, <2>1 DEF FirstIndex
  <2>2. CASE r # leaf_count
    <3>1. first(r) \in Vertices
      BY <2>2, Firsts
    <3>2. first(r) \in Int /\ a \in Int /\ b \in Int
      BY <1>3, <3>1
    <3>3. first(r) <= a \/ b <= first(r)
      BY <1>2, <1>5
    <3>4. h.vertices_[first(r)].index = g.vertices_[first(r)].index
      <4>1. CASE first(r) = a
        BY <1>1, <1>2, <4>1 DEF MovedTo
      <4>2. CASE first(r) # a
        <5>1. ~(a <= first(r) /\ first(r) < b)
          BY <3>2, <3>3, <4>2
        <5>2. h.vertices_[first(r)] = g.vertices_[first(r)]
          BY <1>1, <3>1, <5>1
        <5> QED
          BY <5>2
      <4> QED
        BY <4>1, <4>2
    <3> QED
      BY <2>2, <3>4 DEF FirstIndex
  <2> QED
    BY <2>1, <2>2
<1>6. ASSUME CountsOf(g), NEW s \in Leaves
      PROVE  h.segment_edges_total[s] = FirstIndex(h, s + 1) - FirstIndex(h, s)
  <2>1. CASE left <= s /\ s < right
    BY <1>1, <2>1
  <2>2. CASE ~(left <= s /\ s < right)
    <3>1. s \in 0 .. leaf_count /\ s + 1 \in 0 .. leaf_count
      BY <1>3
    <3>2. (s <= left \/ right <= s) /\ (s + 1 <= left \/ right <= s + 1)
      BY <1>3, <2>2
    <3>3. FirstIndex(h, s + 1) = FirstIndex(g, s + 1) /\ FirstIndex(h, s) = FirstIndex(g, s)
      BY <1>5, <3>1, <3>2
    <3>4. g.segment_edges_total[s] = FirstIndex(g, s + 1) - FirstIndex(g, s)
      BY <1>6 DEF CountsOf
    <3>5. h.segment_edges_total[s] = g.segment_edges_total[s]
      BY <1>1, <2>2
    <3> QED
      BY <3>3, <3>4, <3>5
  <2> QED
    BY <2>1, <2>2
<1>7. CountsOf(g) => CountsOf(h)
  BY <1>1, <1>4, <1>6 DEF CountsOf
<1> QED
  BY <1>4, <1>5, <1>7 DEF h

-----------------------------------------------------------------------------
(***************************************************************************)
(* What an insertion does, after the rebalance of a leaf whose log is full. *)
(***************************************************************************)

\* The cell after the last one of src.
NextCell(g, src) == g.vertices_[src].index + g.vertices_[src].degree

\* Graph h is g with an edge for src in the array or in the log, and counted.
Inserted(g, src, dst, h) ==
  LET s == SegmentOf(src)
      e == g.vertices_[src]
      entry == [u |-> src, v |-> dst, prev_offset |-> e.offset]
  IN /\ Typed(h)
     /\ h.elem_capacity = g.elem_capacity /\ h.num_edges_ = g.num_edges_ + 1
     /\ h.segment_edges_total = g.segment_edges_total
     /\ h.segment_edges_actual = [g.segment_edges_actual EXCEPT ![s] = @ + 1]
     /\ \/ /\ have_space_onseg(g, src, NextCell(g, src))
           /\ h.edges_ = [g.edges_ EXCEPT ![NextCell(g, src)] = dst]
           /\ h.log_ = g.log_
           /\ h.vertices_ = [g.vertices_ EXCEPT ![src] =
                [index |-> e.index, degree |-> e.degree + 1, offset |-> e.offset]]
        \/ /\ ~have_space_onseg(g, src, NextCell(g, src)) /\ Len(g.log_[s]) < MAX_LOG_ENTRIES
           /\ h.edges_ = g.edges_
           /\ h.log_ = [g.log_ EXCEPT ![s] = Append(@, entry)]
           /\ h.vertices_ = [g.vertices_ EXCEPT ![src] =
                [index |-> e.index, degree |-> e.degree + 1, offset |-> Len(g.log_[s])]]

MoreEdges(f, v) == [f EXCEPT ![v].degree = @ + 1]

OneMore(f, s) == [f EXCEPT ![s] = @ + 1]

\* Counting an edge of a vertex ...
LEMMA EntryCounted ==
  ASSUME NEW f \in [Vertices -> Entry], NEW v \in Vertices
  PROVE  MoreEdges(f, v) =
           [f EXCEPT ![v] = [index |-> f[v].index, degree |-> f[v].degree + 1, offset |-> f[v].offset]]
<1>1. [f[v] EXCEPT !.degree = @ + 1] = [index |-> f[v].index, degree |-> f[v].degree + 1, offset |-> f[v].offset]
  <2>1. f[v] \in Entry
    OBVIOUS
  <2> QED
    BY <2>1 DEF Entry
<1> DEFINE r == [index |-> f[v].index, degree |-> f[v].degree + 1, offset |-> f[v].offset]
<1>2. MoreEdges(f, v) = [f EXCEPT ![v] = [f[v] EXCEPT !.degree = @ + 1]]
  BY DEF MoreEdges
<1> HIDE DEF r
<1> QED
  BY <1>1, <1>2

\* Linking it to the log changes the offset.
LEMMA EntryLinked ==
  ASSUME NEW e \in Entry, NEW n \in Int
  PROVE  [e EXCEPT !.offset = n] = [index |-> e.index, degree |-> e.degree, offset |-> n]
BY DEF Entry

GraphOf(f1, f2, f3, f4, f5, f6, f7) ==
  [vertices_ |-> f1, edges_ |-> f2, log_ |-> f3, elem_capacity |-> f4, num_edges_ |-> f5,
   segment_edges_actual |-> f6, segment_edges_total |-> f7]

\* The last statements of do_insertion.
Counted(p, src, s) ==
  [p EXCEPT !.vertices_[src].degree = @ + 1, !.segment_edges_actual[s] = @ + 1, !.num_edges_ = @ + 1]

\* ... and of the graph changes three fields.
LEMMA GraphCounted ==
  ASSUME NEW f1, NEW f2, NEW f3, NEW f4, NEW f5, NEW f6, NEW f7, NEW src, NEW s,
         NEW p, p = GraphOf(f1, f2, f3, f4, f5, f6, f7)
  PROVE  Counted(p, src, s) =
           GraphOf(MoreEdges(f1, src), f2, f3, f4, f5 + 1, OneMore(f6, s), f7)
<1> DEFINE V == [f1 EXCEPT ![src].degree = @ + 1]
           A == [f6 EXCEPT ![s] = @ + 1]
           p1 == [p EXCEPT !.vertices_[src].degree = @ + 1]
           p2 == [p1 EXCEPT !.segment_edges_actual[s] = @ + 1]
           p3 == [p2 EXCEPT !.num_edges_ = @ + 1]
<1>1. Counted(p, src, s) = p3
  BY DEF Counted
<1>2. p1 = GraphOf(V, f2, f3, f4, f5, f6, f7)
  BY DEF GraphOf
<1> HIDE DEF p1, V
<1>3. p2 = GraphOf(V, f2, f3, f4, f5, A, f7)
  BY <1>2 DEF GraphOf
<1> HIDE DEF p2, A
<1>4. p3 = GraphOf(V, f2, f3, f4, f5 + 1, A, f7)
  BY <1>3 DEF GraphOf
<1> HIDE DEF p3
<1> QED
  BY <1>1, <1>4, Zenon DEF V, A, MoreEdges, OneMore

\* PlaceEdge and the counters, where there is room for the edge.
LEMMA PlaceIs ==
  ASSUME NEW g, Typed(g), NEW src \in Vertices, NEW dst,
         \/ have_space_onseg(g, src, NextCell(g, src))
         \/ Len(g.log_[SegmentOf(src)]) < MAX_LOG_ENTRIES
  PROVE  Inserted(g, src, dst, Counted(PlaceEdge(g, src, dst), src, SegmentOf(src)))
<1> DEFINE s == SegmentOf(src)
           e == g.vertices_[src]
           loc == NextCell(g, src)
           entry == [u |-> src, v |-> dst, prev_offset |-> e.offset]
           p == PlaceEdge(g, src, dst)
           h == Counted(p, src, s)
           A == OneMore(g.segment_edges_actual, s)
<1>0. s \in Leaves
  BY LeafOfVertex
<1>1. /\ g = [vertices_ |-> g.vertices_, edges_ |-> g.edges_, log_ |-> g.log_,
              elem_capacity |-> g.elem_capacity, num_edges_ |-> g.num_edges_,
              segment_edges_actual |-> g.segment_edges_actual,
              segment_edges_total |-> g.segment_edges_total]
      /\ g.log_ = [r \in Leaves |-> g.log_[r]]
      /\ g.vertices_ \in [Vertices -> Entry] /\ e \in Entry
      /\ g.segment_edges_actual \in [Leaves -> Int] /\ g.num_edges_ \in Int
      /\ \A r \in Leaves : Linked(g.log_[r]) /\ Len(g.log_[r]) <= MAX_LOG_ENTRIES /\ Len(g.log_[r]) \in Nat
      /\ \A v \in Vertices : g.vertices_[v].offset \in -1 .. Len(g.log_[SegmentOf(v)]) - 1
      /\ MAX_LOG_ENTRIES \in Nat
  BY PmaAssumption DEF Typed, GraphShape, LogsTyped, Linked, IsSequence
<1>2. PICK W : g.edges_ \in Arrays(g.elem_capacity, W)
  BY DEF Typed
<1>3. A \in [Leaves -> Int]
  BY <1>0, <1>1 DEF OneMore
<1>4. CASE have_space_onseg(g, src, loc)
  <2> DEFINE E == [g.edges_ EXCEPT ![loc] = dst]
             V == [g.vertices_ EXCEPT ![src] = [index |-> e.index, degree |-> e.degree + 1, offset |-> e.offset]]
  <2>1. p = [g EXCEPT !.edges_[loc] = dst]
    BY <1>4 DEF PlaceEdge, NextCell
  <2>2. V \in [Vertices -> Entry] /\ \A v \in Vertices : V[v].offset = g.vertices_[v].offset
    BY <1>1 DEF Entry
  <2>3. E \in Arrays(g.elem_capacity, W \cup {dst})
    BY <1>2 DEF Arrays
  <2>4. p = [vertices_ |-> g.vertices_, edges_ |-> E, log_ |-> g.log_,
              elem_capacity |-> g.elem_capacity, num_edges_ |-> g.num_edges_,
              segment_edges_actual |-> g.segment_edges_actual,
              segment_edges_total |-> g.segment_edges_total]
    BY <1>1, <2>1
  <2>5. MoreEdges(g.vertices_, src) = V
    BY <1>1, EntryCounted
  <2> HIDE DEF p, E
  <2>6. h = GraphOf(MoreEdges(g.vertices_, src), E, g.log_, g.elem_capacity,
                    g.num_edges_ + 1, A, g.segment_edges_total)
    <3>1. p = GraphOf(g.vertices_, E, g.log_, g.elem_capacity, g.num_edges_,
                      g.segment_edges_actual, g.segment_edges_total)
      BY <2>4, Zenon DEF GraphOf
    <3> QED
      BY <3>1, GraphCounted
  <2> HIDE DEF h, V, A
  <2>7. h = [vertices_ |-> V, edges_ |-> E, log_ |-> g.log_,
              elem_capacity |-> g.elem_capacity, num_edges_ |-> g.num_edges_ + 1,
              segment_edges_actual |-> A, segment_edges_total |-> g.segment_edges_total]
    BY <2>5, <2>6, Zenon DEF GraphOf
  <2>8. /\ h.vertices_ = V /\ h.edges_ = E /\ h.log_ = g.log_ /\ h.elem_capacity = g.elem_capacity
        /\ h.num_edges_ = g.num_edges_ + 1 /\ h.segment_edges_actual = A
        /\ h.segment_edges_total = g.segment_edges_total
        /\ GraphShape(h)
    BY <1>1, <2>7 DEF GraphShape
  <2>9. LogsTyped(h)
    BY <1>1, <2>2, <2>8 DEF LogsTyped
  <2>10. Typed(h)
    BY <1>1, <1>3, <2>2, <2>3, <2>8, <2>9 DEF Typed
  <2>11. Inserted(g, src, dst, h)
    BY <1>4, <2>8, <2>10, Zenon DEF Inserted, OneMore, A, E, V
  <2> QED
    BY <2>11 DEF h, p
<1>5. CASE ~have_space_onseg(g, src, loc)
  <2> DEFINE n == Len(g.log_[s])
             L == [g.log_ EXCEPT ![s] = Append(@, entry)]
             V == [g.vertices_ EXCEPT ![src] = [index |-> e.index, degree |-> e.degree + 1, offset |-> n]]
  <2>0. n \in Nat /\ n < MAX_LOG_ENTRIES
    BY <1>0, <1>1, <1>5
  <2>1. p = insert_into_log(g, s, src, dst)
    BY <1>5 DEF PlaceEdge, NextCell
  <2>2. p = [g EXCEPT !.log_[s] = Append(@, entry), !.vertices_[src].offset = n]
    BY <2>1 DEF insert_into_log
  <2>3. V \in [Vertices -> Entry] /\ \A v \in Vertices : V[v].offset = IF v = src THEN n ELSE g.vertices_[v].offset
    BY <1>1, <2>0 DEF Entry
  <2>4. /\ Linked(L[s]) /\ Len(L[s]) = n + 1
        /\ \A r \in Leaves : r # s => L[r] = g.log_[r]
        /\ L = [r \in Leaves |-> L[r]]
    <3>1. L[s] = Append(g.log_[s], entry)
      BY <1>0, <1>1
    <3>2. Linked(g.log_[s]) /\ entry.prev_offset \in -1 .. Len(g.log_[s]) - 1
      BY <1>0, <1>1
    <3>3. Linked(Append(g.log_[s], entry))
      <4> HIDE DEF entry
      <4> QED
        BY <3>2, ChainOfAppend
    <3>4. PICK S : g.log_[s] \in Seq(S)
      BY <3>2 DEF Linked, IsSequence
    <3>5. Len(Append(g.log_[s], entry)) = n + 1
      <4>1. g.log_[s] \in Seq(S \cup {entry}) /\ entry \in S \cup {entry}
        BY <3>4
      <4> HIDE DEF entry
      <4> QED
        BY <4>1
    <3>6. \A r \in Leaves : r # s => L[r] = g.log_[r]
      BY <1>0, <1>1
    <3>7. L = [r \in Leaves |-> L[r]]
      BY <1>1
    <3> QED
      BY <3>1, <3>3, <3>5, <3>6, <3>7
  <2>5. p = [vertices_ |-> [g.vertices_ EXCEPT ![src].offset = n], edges_ |-> g.edges_, log_ |-> L,
              elem_capacity |-> g.elem_capacity, num_edges_ |-> g.num_edges_,
              segment_edges_actual |-> g.segment_edges_actual,
              segment_edges_total |-> g.segment_edges_total]
    <3> HIDE DEF entry, n, p
    <3> QED
      BY <1>1, <2>2
  <2>6. MoreEdges([g.vertices_ EXCEPT ![src].offset = n], src) = V
    <3> DEFINE U == [g.vertices_ EXCEPT ![src].offset = n]
    <3>1. /\ U \in [Vertices -> Entry] /\ \A v \in Vertices : v # src => U[v] = g.vertices_[v]
          /\ U[src].index = e.index /\ U[src].degree = e.degree /\ U[src].offset = n
      <4> DEFINE x == [g.vertices_[src] EXCEPT !.offset = n]
      <4>1. U = [g.vertices_ EXCEPT ![src] = x]
        OBVIOUS
      <4>2. x \in Entry /\ x.index = e.index /\ x.degree = e.degree /\ x.offset = n
        <5>1. n \in Int /\ g.vertices_[src] \in Entry
          BY <1>1, <2>0
        <5>2. x = [index |-> e.index, degree |-> e.degree, offset |-> n]
          BY <5>1, EntryLinked
        <5> HIDE DEF n, x
        <5> QED
          BY <5>1, <5>2 DEF Entry
      <4> HIDE DEF x, U
      <4> QED
        BY <1>1, <4>1, <4>2
    <3> HIDE DEF U
    <3>2. MoreEdges(U, src) = [U EXCEPT ![src] =
            [index |-> e.index, degree |-> e.degree + 1, offset |-> n]]
      <4>1. MoreEdges(U, src) = [U EXCEPT ![src] =
              [index |-> U[src].index, degree |-> U[src].degree + 1, offset |-> U[src].offset]]
        BY <3>1, EntryCounted
      <4> QED
        BY <3>1, <4>1, Zenon
    <3> HIDE DEF n
    <3>3. [U EXCEPT ![src] = [index |-> e.index, degree |-> e.degree + 1, offset |-> n]] = V
      BY <1>1, <3>1
    <3> QED
      BY <3>2, <3>3 DEF U
  <2> HIDE DEF p, L
  <2>7. h = GraphOf(MoreEdges([g.vertices_ EXCEPT ![src].offset = n], src),
                    g.edges_, L, g.elem_capacity, g.num_edges_ + 1, A, g.segment_edges_total)
    <3> HIDE DEF n
    <3>1. p = GraphOf([g.vertices_ EXCEPT ![src].offset = n], g.edges_, L, g.elem_capacity, g.num_edges_,
                      g.segment_edges_actual, g.segment_edges_total)
      BY <2>5, Zenon DEF GraphOf
    <3> QED
      BY <3>1, GraphCounted
  <2> HIDE DEF h, V, A, n
  <2>8. h = [vertices_ |-> V, edges_ |-> g.edges_, log_ |-> L,
              elem_capacity |-> g.elem_capacity, num_edges_ |-> g.num_edges_ + 1,
              segment_edges_actual |-> A, segment_edges_total |-> g.segment_edges_total]
    BY <2>6, <2>7, Zenon DEF GraphOf
  <2>9. /\ h.vertices_ = V /\ h.edges_ = g.edges_ /\ h.log_ = L /\ h.elem_capacity = g.elem_capacity
        /\ h.num_edges_ = g.num_edges_ + 1 /\ h.segment_edges_actual = A
        /\ h.segment_edges_total = g.segment_edges_total
        /\ GraphShape(h)
    BY <2>4, <2>8 DEF GraphShape
  <2>10. \A r \in Leaves : Linked(L[r]) /\ Len(L[r]) <= MAX_LOG_ENTRIES
    BY <1>1, <2>0, <2>4
  <2>11. \A v \in Vertices : V[v].offset \in -1 .. Len(L[SegmentOf(v)]) - 1
    <3> SUFFICES ASSUME NEW v \in Vertices PROVE V[v].offset \in -1 .. Len(L[SegmentOf(v)]) - 1
      OBVIOUS
    <3>1. SegmentOf(v) \in Leaves
      BY LeafOfVertex
    <3>2. CASE v = src
      BY <2>0, <2>3, <2>4, <3>2
    <3>3. CASE v # src /\ SegmentOf(v) = s
      <4>1. g.vertices_[v].offset \in -1 .. n - 1
        BY <1>1, <3>3 DEF n
      <4> QED
        BY <2>0, <2>3, <2>4, <3>3, <4>1
    <3>4. CASE v # src /\ SegmentOf(v) # s
      BY <1>1, <2>3, <2>4, <3>1, <3>4
    <3> QED
      BY <3>2, <3>3, <3>4
  <2>12. Typed(h)
    BY <1>1, <1>2, <1>3, <2>3, <2>9, <2>10, <2>11 DEF Typed, LogsTyped
  <2>13. Inserted(g, src, dst, h)
    BY <1>5, <2>0, <2>9, <2>12, Zenon DEF Inserted, OneMore, A, L, V, n
  <2> QED
    BY <2>13 DEF h, p
<1> QED
  BY <1>4, <1>5

\* An edge more is counted in the degree, in the leaf and in the graph.
LEMMA InsertedCounts ==
  ASSUME NEW g, Typed(g), NEW src \in Vertices, NEW dst, NEW h, Inserted(g, src, dst, h)
  PROVE  /\ \A r \in 0 .. leaf_count : FirstIndex(h, r) = FirstIndex(g, r)
         /\ CountsOf(g) => CountsOf(h)
<1> DEFINE s == SegmentOf(src)
<1>0. s \in Leaves
  BY LeafOfVertex
<1>1. \A v \in Vertices : /\ h.vertices_[v].index = g.vertices_[v].index
                          /\ h.vertices_[v].degree = g.vertices_[v].degree + IF v = src THEN 1 ELSE 0
  <2>1. PICK o : h.vertices_ = [g.vertices_ EXCEPT ![src] =
                   [index |-> g.vertices_[src].index, degree |-> g.vertices_[src].degree + 1, offset |-> o]]
    BY DEF Inserted
  <2>2. g.vertices_ \in [Vertices -> Entry]
    BY DEF Typed
  <2>3. TAKE v \in Vertices
  <2>4. g.vertices_[v].degree \in Int
    BY <2>2 DEF Entry
  <2> QED
    BY <2>1, <2>2, <2>4
<1>2. /\ h.elem_capacity = g.elem_capacity /\ h.num_edges_ = g.num_edges_ + 1
      /\ h.segment_edges_total = g.segment_edges_total
      /\ h.segment_edges_actual = [g.segment_edges_actual EXCEPT ![s] = @ + 1]
  BY DEF Inserted
<1>3. /\ g.segment_edges_actual \in [Leaves -> Int]
      /\ \A v \in Vertices : g.vertices_[v].degree \in Int
  BY DEF Typed, Entry
<1>4. \A r \in 0 .. leaf_count : FirstIndex(h, r) = FirstIndex(g, r)
  <2> SUFFICES ASSUME NEW r \in 0 .. leaf_count PROVE FirstIndex(h, r) = FirstIndex(g, r)
    OBVIOUS
  <2>1. r # leaf_count => first(r) \in Vertices
    BY Firsts
  <2> QED
    BY <1>1, <1>2, <2>1 DEF FirstIndex
<1> DEFINE F == Degrees(g)
           G == Degrees(h)
<1>5. \A v \in Vertices : F[v] \in Int /\ G[v] = F[v] + IF v = src THEN 1 ELSE 0
  BY <1>1, <1>3 DEF Degrees
<1> HIDE DEF F, G
<1>6. ASSUME NEW r \in Leaves
      PROVE  /\ r # s => SumOver(G, VerticesOf(r)) = SumOver(F, VerticesOf(r))
             /\ r = s => SumOver(G, VerticesOf(r)) = SumOver(F, VerticesOf(r)) + 1
  <2> DEFINE S == VerticesOf(r)
  <2>1. IsFiniteSet(S)
    <3>1. r \in 0 .. leaf_count /\ r + 1 \in 0 .. leaf_count
      BY TreeShape DEF Leaves
    <3>2. first(r) \in 0 .. num_vertices /\ first(r + 1) \in 0 .. num_vertices
      BY <3>1, Firsts
    <3>3. IsFiniteSet(first(r) .. first(r + 1) - 1)
      <4>1. first(r) \in Int /\ first(r + 1) - 1 \in Int
        BY <3>2
      <4> QED
        BY <4>1, FS_Interval
    <3> QED
      BY <3>3, LeafVertices
  <2>2. \A v \in S : v \in Vertices /\ (v = src => r = s)
    BY DEF VerticesOf
  <2>3. src \in S <=> r = s
    BY DEF VerticesOf
  <2> HIDE DEF S
  <2>4. ASSUME r # s PROVE SumFunctionOnSet(G, S) = SumFunctionOnSet(F, S)
    <3>1. \A v \in S : F[v] \in Int /\ G[v] = F[v]
      BY <1>5, <2>2, <2>4
    <3> QED
      BY <2>1, <3>1, SumAgrees
  <2>5. ASSUME r = s PROVE SumFunctionOnSet(G, S) = SumFunctionOnSet(F, S) + 1
    <3>1. src \in S /\ G[src] = F[src] + 1 /\ F[src] \in Int
      BY <1>5, <2>3, <2>5
    <3>2. \A v \in S : F[v] \in Int /\ (v # src => G[v] = F[v])
      BY <1>5, <2>2
    <3>3. SumFunctionOnSet(G, S) = SumFunctionOnSet(F, S) - F[src] + G[src]
      <4>1. G[src] \in Int
        BY <3>1
      <4> QED
        BY <2>1, <3>1, <3>2, <4>1, SumChanges
    <3>4. SumFunctionOnSet(F, S) \in Int
      BY <2>1, <3>2, SumLaws
    <3> QED
      BY <3>1, <3>3, <3>4
  <2> QED
    BY <2>4, <2>5 DEF SumOver, S
<1>7. ASSUME CountsOf(g) PROVE CountsOf(h)
  <2>1. h.segment_edges_actual = [r \in Leaves |-> SumOver(G, VerticesOf(r))]
    <3>1. \A r \in Leaves : g.segment_edges_actual[r] = SumOver(F, VerticesOf(r))
      BY <1>7 DEF CountsOf, F
    <3>2. \A r \in Leaves : h.segment_edges_actual[r] = SumOver(G, VerticesOf(r))
      BY <1>0, <1>2, <1>3, <1>6, <3>1
    <3>3. h.segment_edges_actual = [r \in Leaves |-> h.segment_edges_actual[r]]
      BY <1>2, <1>3
    <3> QED
      BY <3>2, <3>3
  <2>2. \A r \in Leaves : h.segment_edges_total[r] = FirstIndex(h, r + 1) - FirstIndex(h, r)
    <3>1. \A r \in Leaves : r \in 0 .. leaf_count /\ r + 1 \in 0 .. leaf_count
      BY TreeShape DEF Leaves
    <3> QED
      BY <1>2, <1>4, <1>7, <3>1 DEF CountsOf
  <2>3. h.num_edges_ = SumOver(h.segment_edges_actual, Leaves)
    <3> DEFINE A == g.segment_edges_actual
               B == h.segment_edges_actual
    <3>1. IsFiniteSet(Leaves)
      <4>1. 0 \in Int /\ leaf_count - 1 \in Int
        BY TreeShape
      <4> QED
        BY <4>1, FS_Interval DEF Leaves
    <3>2. \A r \in Leaves : A[r] \in Int /\ (r # s => B[r] = A[r])
      BY <1>2, <1>3
    <3>3. B[s] = A[s] + 1 /\ A[s] \in Int
      BY <1>0, <1>2, <1>3
    <3> HIDE DEF A, B
    <3>4. SumFunctionOnSet(B, Leaves) = SumFunctionOnSet(A, Leaves) - A[s] + B[s]
      <4>1. B[s] \in Int
        BY <3>3
      <4> QED
        BY <1>0, <3>1, <3>2, <4>1, SumChanges
    <3>5. SumFunctionOnSet(A, Leaves) \in Int
      BY <3>1, <3>2, SumLaws
    <3>6. g.num_edges_ = SumFunctionOnSet(A, Leaves)
      BY <1>7 DEF CountsOf, SumOver, A
    <3>7. h.num_edges_ = SumFunctionOnSet(B, Leaves)
      BY <1>2, <3>3, <3>4, <3>5, <3>6
    <3> QED
      BY <3>7 DEF SumOver, B
  <2> QED
    BY <2>1, <2>2, <2>3 DEF CountsOf, G
<1> QED
  BY <1>4, <1>7

\* What the counts say of a window: the cells its vertices need, and those it
\* has.
LEMMA WindowUse ==
  ASSUME NEW g, Typed(g), CountsOf(g), NEW left \in Leaves, NEW right \in 1 .. leaf_count, left < right
  PROVE  /\ SumOver(g.segment_edges_actual, left .. right - 1) \in Nat
         /\ SumOver(g.segment_edges_total, left .. right - 1) = FirstIndex(g, right) - FirstIndex(g, left)
         /\ FirstIndex(g, right) \in Int /\ FirstIndex(g, left) \in Int
         /\ \E S : /\ CellsBefore(g, first(left), first(right), S)
                   /\ S[first(right)] = SumOver(g.segment_edges_actual, left .. right - 1)
<1> DEFINE a == first(left)
           b == first(right)
<1>0. g.vertices_ \in [Vertices -> Entry] /\ g.elem_capacity \in Int
  BY DEF Typed
<1>1. left \in 0 .. leaf_count /\ right \in 0 .. leaf_count /\ left <= right /\ leaf_count \in Nat
  BY TreeShape DEF Leaves
<1>2. a \in 0 .. num_vertices /\ b \in 0 .. num_vertices /\ a < b /\ num_vertices \in Nat
  BY <1>1, Firsts, TreeShape
<1>3. PICK P : CellsBefore(g, 0, num_vertices, P)
  BY <1>0, CellsAre
<1>4. /\ SumOver(g.segment_edges_actual, left .. right - 1) = P[b] - P[a]
      /\ SumOver(g.segment_edges_total, left .. right - 1) = FirstIndex(g, right) - FirstIndex(g, left)
  BY <1>0, <1>1, <1>3, WindowSums
<1>5. \A r \in 0 .. leaf_count : FirstIndex(g, r) \in Int
  <2> SUFFICES ASSUME NEW r \in 0 .. leaf_count PROVE FirstIndex(g, r) \in Int
    OBVIOUS
  <2>1. r # leaf_count => first(r) \in Vertices
    BY Firsts
  <2> QED
    BY <1>0, <2>1 DEF FirstIndex, Entry
<1> HIDE DEF a, b
<1> DEFINE S == [i \in a .. b |-> P[i] - P[a]]
<1>6. CellsBefore(g, a, b, S) /\ P[a] + (b - a) <= P[b]
  <2>1. a <= b
    BY <1>2
  <2> QED
    BY <1>0, <1>2, <1>3, <2>1, CellsOfWindow
<1>7. P[a] \in Nat /\ P[b] \in Nat
  BY <1>2, <1>3 DEF CellsBefore
<1>8. S[b] = P[b] - P[a] /\ P[b] - P[a] \in Nat
  BY <1>2, <1>6, <1>7
<1> HIDE DEF S
<1> QED
  BY <1>1, <1>4, <1>5, <1>6, <1>8 DEF a, b

\* The counts of one leaf.
LEMMA LeafUse ==
  ASSUME NEW g, Typed(g), NEW s \in Leaves
  PROVE  /\ s + 1 \in 1 .. leaf_count /\ s < s + 1
         /\ SumOver(g.segment_edges_actual, s .. (s + 1) - 1) = g.segment_edges_actual[s]
         /\ SumOver(g.segment_edges_total, s .. (s + 1) - 1) = g.segment_edges_total[s]
<1>0. s \in Nat /\ s + 1 \in 1 .. leaf_count /\ s < s + 1
  BY TreeShape DEF Leaves
<1>1. ASSUME NEW f \in [Leaves -> Int] PROVE SumOver(f, s .. s) = f[s]
  <2>1. \A x \in s .. s : f[x] \in Int
    BY <1>0
  <2>2. s \in Int
    BY <1>0
  <2>3. SumOver(f, s .. s) = SumOver(f, s .. s - 1) + f[s]
    <3>1. s <= s
      BY <1>0
    <3> QED
      BY <2>1, <2>2, <3>1, SumNext
  <2>4. SumOver(f, s .. s - 1) = 0
    <3>1. s - 1 \in Int /\ s - 1 < s /\ \A x \in s .. s - 1 : f[x] \in Int
      BY <1>0
    <3> QED
      BY <2>2, <3>1, SumNext
  <2> QED
    BY <2>3, <2>4
<1>2. (s + 1) - 1 = s
  BY <1>0
<1>3. g.segment_edges_actual \in [Leaves -> Int] /\ g.segment_edges_total \in [Leaves -> Int]
  BY DEF Typed
<1> QED
  BY <1>0, <1>1, <1>2, <1>3

\* What do_insertion works on: the graph, its leaf rebalanced if the log is full.
Ready(g, src) == IF LogIsFull(g, src) THEN RebalanceLeaf(g, SegmentOf(src)) ELSE g

\* do_insertion as a rebalance and an insertion.
LEMMA InsertionIs ==
  ASSUME NEW g, Typed(g), CountsOf(g), NEW src \in Vertices, NEW dst
  PROVE  /\ Typed(Ready(g, src)) /\ CountsOf(Ready(g, src))
         /\ \A r \in 0 .. leaf_count : FirstIndex(Ready(g, src), r) = FirstIndex(g, r)
         /\ Inserted(Ready(g, src), src, dst, do_insertion(g, src, dst))
<1> DEFINE s == SegmentOf(src)
           used == g.segment_edges_actual[s]
           total == g.segment_edges_total[s]
           f == Ready(g, src)
<1>0. s \in Leaves /\ s \in Nat
  BY LeafOfVertex, TreeShape DEF Leaves
<1>1. used \in Nat /\ total \in Int /\ s + 1 \in 1 .. leaf_count /\ s < s + 1
  <2>1. /\ s + 1 \in 1 .. leaf_count /\ s < s + 1
        /\ SumOver(g.segment_edges_actual, s .. (s + 1) - 1) = used
    BY <1>0, LeafUse
  <2>2. SumOver(g.segment_edges_actual, s .. (s + 1) - 1) \in Nat
    BY <1>0, <2>1, WindowUse
  <2>3. total \in Int
    BY <1>0 DEF Typed
  <2> QED
    BY <2>1, <2>2, <2>3
<1>2. CASE LogIsFull(g, src)
  <2>1. f = rebalance_weighted(g, s * segment_size, (s + 1) * segment_size, used, total)
    BY <1>2 DEF Ready, RebalanceLeaf
  <2> HIDE DEF f, used, total, s
  <2>2. Rebalanced(g, s, s + 1, calculate_positions(g, first(s), first(s + 1), total - used, used), f)
    BY <1>0, <1>1, <2>1, RebalanceIs
  <2>3. Typed(f) /\ f.log_[s] = <<>>
    BY <1>0, <2>2 DEF Rebalanced
  <2>4. /\ CountsOf(f)
        /\ \A r \in 0 .. leaf_count : r <= s \/ s + 1 <= r => FirstIndex(f, r) = FirstIndex(g, r)
    BY <1>0, <1>1, <2>1, RebalanceCounts
  <2>5. \A r \in 0 .. leaf_count : FirstIndex(f, r) = FirstIndex(g, r)
    <3>1. \A r \in 0 .. leaf_count : r <= s \/ s + 1 <= r
      BY <1>0
    <3> QED
      BY <2>4, <3>1
  <2>6. Len(f.log_[s]) < MAX_LOG_ENTRIES
    BY <2>3, EmptyLinked, PmaAssumption
  <2> QED
    BY <2>3, <2>4, <2>5, <2>6, PlaceIs DEF do_insertion, Counted, Ready, f, s
<1>3. CASE ~LogIsFull(g, src)
  <2>1. f = g
    BY <1>3 DEF Ready
  <2>2. have_space_onseg(g, src, NextCell(g, src)) \/ Len(g.log_[SegmentOf(src)]) < MAX_LOG_ENTRIES
    <3>1. Len(g.log_[s]) \in Nat /\ MAX_LOG_ENTRIES \in Nat
      BY <1>0, PmaAssumption DEF Typed, LogsTyped, Linked, IsSequence
    <3> QED
      BY <1>3, <3>1 DEF LogIsFull, NextCell
  <2>3. Inserted(g, src, dst, Counted(PlaceEdge(g, src, dst), src, SegmentOf(src)))
    BY <2>2, PlaceIs
  <2>4. do_insertion(g, src, dst) = Counted(PlaceEdge(f, src, dst), src, SegmentOf(src))
    BY DEF do_insertion, Counted, Ready
  <2> HIDE DEF f
  <2> QED
    BY <2>1, <2>3, <2>4 DEF f
<1> QED
  BY <1>2, <1>3

-----------------------------------------------------------------------------
(***************************************************************************)
(* resize_V1 and the base graph.                                            *)
(***************************************************************************)

\* Counting every leaf again makes the totals exact.
LEMMA RecountIs ==
  ASSUME NEW g, GraphShape(g), g.vertices_ \in [Vertices -> Entry], g.elem_capacity \in Int,
         NEW h, h = recount_segment_total(g, 0, leaf_count)
  PROVE  /\ GraphShape(h) /\ h.edges_ = g.edges_ /\ h.vertices_ = g.vertices_ /\ h.log_ = g.log_
         /\ h.elem_capacity = g.elem_capacity /\ h.num_edges_ = g.num_edges_
         /\ h.segment_edges_actual = g.segment_edges_actual
         /\ h.segment_edges_total \in [Leaves -> Int]
         /\ \A s \in Leaves : h.segment_edges_total[s] = FirstIndex(h, s + 1) - FirstIndex(h, s)
<1> DEFINE T == [s \in Leaves |-> IF 0 <= s /\ s < leaf_count
                                  THEN NextIndex(g, (s + 1) * segment_size - 1) - g.vertices_[s * segment_size].index
                                  ELSE g.segment_edges_total[s]]
<1>1. h = [g EXCEPT !.segment_edges_total = T]
  BY DEF recount_segment_total, GraphShape
<1>2. \A s \in Leaves : T[s] = FirstIndex(g, s + 1) - FirstIndex(g, s)
  <2>1. \A s \in Leaves : 0 <= s /\ s < leaf_count
    BY TreeShape DEF Leaves
  <2> QED
    BY <2>1, LeafEnd
<1>3. \A r \in 0 .. leaf_count : FirstIndex(g, r) \in Int
  <2> SUFFICES ASSUME NEW r \in 0 .. leaf_count PROVE FirstIndex(g, r) \in Int
    OBVIOUS
  <2>1. r # leaf_count => first(r) \in Vertices
    BY Firsts
  <2> QED
    BY <2>1 DEF FirstIndex, Entry
<1>4. \A s \in Leaves : s \in 0 .. leaf_count /\ s + 1 \in 0 .. leaf_count
  BY TreeShape DEF Leaves
<1>5. T \in [Leaves -> Int]
  <2>1. \A s \in Leaves : T[s] \in Int
    BY <1>2, <1>3, <1>4
  <2>2. T = [s \in Leaves |-> T[s]]
    OBVIOUS
  <2> HIDE DEF T
  <2> QED
    BY <2>1, <2>2
<1> HIDE DEF T
<1>6. /\ GraphShape(h) /\ h.edges_ = g.edges_ /\ h.vertices_ = g.vertices_ /\ h.log_ = g.log_
      /\ h.elem_capacity = g.elem_capacity /\ h.num_edges_ = g.num_edges_
      /\ h.segment_edges_actual = g.segment_edges_actual
      /\ h.segment_edges_total = T
  BY <1>1 DEF GraphShape
<1>7. \A r : FirstIndex(h, r) = FirstIndex(g, r)
  BY <1>6 DEF FirstIndex
<1> QED
  BY <1>2, <1>5, <1>6, <1>7

\* The number of edges is the number of cells all vertices need.
LEMMA AllCells ==
  ASSUME NEW g, Typed(g), CountsOf(g)
  PROVE  /\ g.num_edges_ \in Nat
         /\ \E S : CellsBefore(g, 0, num_vertices, S) /\ S[num_vertices] = g.num_edges_
<1>1. 0 \in Leaves /\ leaf_count \in 1 .. leaf_count /\ 0 < leaf_count /\ 0 .. leaf_count - 1 = Leaves
  BY TreeShape DEF Leaves
<1>2. first(0) = 0 /\ first(leaf_count) = num_vertices
  BY Firsts
<1>3. /\ SumOver(g.segment_edges_actual, 0 .. leaf_count - 1) \in Nat
      /\ \E S : /\ CellsBefore(g, first(0), first(leaf_count), S)
                /\ S[first(leaf_count)] = SumOver(g.segment_edges_actual, 0 .. leaf_count - 1)
  BY <1>1, WindowUse
<1>4. g.num_edges_ = SumOver(g.segment_edges_actual, 0 .. leaf_count - 1)
  BY <1>1 DEF CountsOf
<1> QED
  BY <1>2, <1>3, <1>4

\* Graph h is g in an array of twice the size, with empty logs.
Resized(g, N, h) ==
  /\ Typed(h)
  /\ N \in [Vertices -> Int] /\ N[0] = g.vertices_[0].index
  /\ h.vertices_ = [v \in Vertices |-> MovedTo(g.vertices_[v], N[v])]
  /\ h.log_ = [s \in Leaves |-> <<>>]
  /\ h.edges_ = Copied(g, N)
  /\ h.edges_ \in Arrays(2 * g.elem_capacity, CellValues(g))
  /\ h.elem_capacity = 2 * g.elem_capacity /\ h.num_edges_ = g.num_edges_
  /\ h.segment_edges_actual = g.segment_edges_actual
  /\ \A s \in Leaves : h.segment_edges_total[s] = FirstIndex(h, s + 1) - FirstIndex(h, s)

\* The graph while its positions are calculated anew.
Doubled(g) == [g EXCEPT !.elem_capacity = 2 * @]

\* Only its capacity is new.
LEMMA DoubledIs ==
  ASSUME NEW g, GraphShape(g)
  PROVE  /\ Doubled(g).vertices_ = g.vertices_ /\ Doubled(g).elem_capacity = 2 * g.elem_capacity
         /\ ResizePositions(g) = calculate_positions(Doubled(g), 0, num_vertices,
                                                     2 * g.elem_capacity - g.num_edges_, g.num_edges_)
BY DEF Doubled, GraphShape, ResizePositions

\* What resize_V1 does to the fields, and to the counts.
LEMMA ResizeIs ==
  ASSUME NEW g, Typed(g), CountsOf(g)
  PROVE  /\ Resized(g, ResizePositions(g), resize_V1(g))
         /\ Degrees(resize_V1(g)) = Degrees(g) /\ CountsOf(resize_V1(g))
<1> DEFINE N == ResizePositions(g)
           V == [v \in Vertices |-> MovedTo(g.vertices_[v], N[v])]
           E == Copied(g, N)
           L == [s \in Leaves |-> <<>>]
           d == Grown(g)
           r == recount_segment_total(d, 0, leaf_count)
           h == resize_V1(g)
<1>0. /\ num_vertices \in Nat \ {0} /\ Vertices = 0 .. num_vertices - 1
      /\ g.num_edges_ \in Nat /\ g.elem_capacity \in Nat \ {0}
      /\ g.vertices_ \in [Vertices -> Entry] /\ GraphShape(g)
      /\ g.segment_edges_actual \in [Leaves -> Int]
  BY AllCells, TreeShape DEF Vertices, Typed
<1>1. N \in [Vertices -> Int] /\ N[0] = g.vertices_[0].index
  <2> DEFINE gaps == 2 * g.elem_capacity - g.num_edges_
  <2>1. gaps \in Int /\ 0 \in Nat /\ 0 < num_vertices /\ num_vertices <= num_vertices
    BY <1>0
  <2>2. Doubled(g).vertices_ \in [Vertices -> Entry]
    BY <1>0, DoubledIs
  <2> DEFINE f == Doubled(g)
             M == calculate_positions(f, 0, num_vertices, gaps, g.num_edges_)
  <2>3. N = M /\ f.vertices_ = g.vertices_ /\ f.vertices_ \in [Vertices -> Entry]
    BY <1>0, <2>2, DoubledIs
  <2> HIDE DEF gaps, f
  <2>4. M \in [0 .. num_vertices - 1 -> Int] /\ M[0] = f.vertices_[0].index
    BY <1>0, <2>1, <2>3, PositionsAre
  <2> HIDE DEF M, N
  <2> QED
    BY <1>0, <2>3, <2>4
<1> HIDE DEF N
<1>2. V \in [Vertices -> Entry]
  BY <1>0, <1>1 DEF MovedTo, Entry
<1>3. E \in Arrays(2 * g.elem_capacity, CellValues(g))
  <2> DEFINE W == Arrays(2 * g.elem_capacity, CellValues(g))
             n == num_vertices
  <2>1. Zeroed(g) \in W
    <3>1. 0 \in CellValues(g)
      BY ContentsHold
    <3> QED
      BY <3>1 DEF Zeroed, Arrays
  <2>2. CopiesWithin(g, N, n, W)
    <3> SUFFICES ASSUME NEW F \in W, NEW v \in 0 .. n - 1 PROVE CopyVertex(g, v, F, N) \in W
      BY DEF CopiesWithin
    <3>1. v \in Vertices
      BY <1>0
    <3>2. LogsTyped(g) /\ Garbage \in CellValues(g)
          /\ LogValues(g.log_[SegmentOf(v)]) \subseteq CellValues(g)
          /\ g.edges_ \in [0 .. g.elem_capacity - 1 -> CellValues(g)]
      BY <3>1, ContentsHold DEF Typed, Arrays
    <3>3. F \in [0 .. 2 * g.elem_capacity - 1 -> CellValues(g)]
      BY DEF Arrays
    <3>4. MergeLog(g, v, CopyCells(g.edges_, F, g.vertices_[v].index, N[v], ResizeCopied(g, v)), N[v])
            \in [0 .. 2 * g.elem_capacity - 1 -> CellValues(g)]
      BY <3>1, <3>2, <3>3, MoveTyped
    <3> QED
      BY <3>4 DEF CopyVertex, Arrays
  <2> HIDE DEF W
  <2>3. n \in Nat /\ n \in 0 .. n
    BY <1>0
  <2>4. \E A \in [0 .. n -> W] : CopySteps(g, N, n, A)
    <3>1. n = num_vertices
      OBVIOUS
    <3> HIDE DEF n
    <3> QED
      BY <2>1, <2>2, <2>3, <3>1, CopiedIs
  <2> HIDE DEF n
  <2>5. E \in W
    BY <2>3, <2>4 DEF CopySteps
  <2> QED
    BY <2>5 DEF W
<1> HIDE DEF E, V
<1>4. /\ GraphShape(d) /\ d.vertices_ = V /\ d.edges_ = E /\ d.log_ = g.log_
      /\ d.elem_capacity = 2 * g.elem_capacity /\ d.num_edges_ = g.num_edges_
      /\ d.segment_edges_actual = g.segment_edges_actual
  <2> DEFINE c2 == 2 * g.elem_capacity
             d1 == [g EXCEPT !.elem_capacity = c2]
             d2 == [d1 EXCEPT !.edges_ = E]
             d3 == [d2 EXCEPT !.vertices_ = V]
  <2>1. d = d3
    <3>1. [v \in Vertices |-> MovedTo(g.vertices_[v], N[v])] = V
      BY DEF V
    <3> QED
      BY <3>1 DEF Grown, N, E
  <2> HIDE DEF d, d3
  <2>2. /\ GraphShape(d1) /\ d1.log_ = g.log_ /\ d1.elem_capacity = c2 /\ d1.num_edges_ = g.num_edges_
        /\ d1.segment_edges_actual = g.segment_edges_actual
    <3>1. GraphShape(g)
      BY <1>0
    <3> HIDE DEF c2
    <3> QED
      BY <3>1 DEF GraphShape
  <2> HIDE DEF d1
  <2>3. /\ GraphShape(d2) /\ d2.log_ = g.log_ /\ d2.elem_capacity = c2 /\ d2.num_edges_ = g.num_edges_
        /\ d2.segment_edges_actual = g.segment_edges_actual /\ d2.edges_ = E
    BY <2>2 DEF GraphShape
  <2> HIDE DEF d2
  <2>4. /\ GraphShape(d3) /\ d3.log_ = g.log_ /\ d3.elem_capacity = c2 /\ d3.num_edges_ = g.num_edges_
        /\ d3.segment_edges_actual = g.segment_edges_actual /\ d3.edges_ = E /\ d3.vertices_ = V
    BY <2>3 DEF GraphShape, d3
  <2> QED
    BY <2>1, <2>4
<1>5. h = release_log(r, 0, leaf_count)
  BY DEF resize_V1
<1> HIDE DEF d
<1>6. /\ GraphShape(r) /\ r.edges_ = E /\ r.vertices_ = V /\ r.log_ = g.log_
      /\ r.elem_capacity = 2 * g.elem_capacity /\ r.num_edges_ = g.num_edges_
      /\ r.segment_edges_actual = g.segment_edges_actual
      /\ r.segment_edges_total \in [Leaves -> Int]
      /\ \A s \in Leaves : r.segment_edges_total[s] = FirstIndex(r, s + 1) - FirstIndex(r, s)
  <2>1. d.elem_capacity \in Int /\ d.vertices_ \in [Vertices -> Entry]
    BY <1>0, <1>2, <1>4
  <2>2. /\ GraphShape(r) /\ r.edges_ = d.edges_ /\ r.vertices_ = d.vertices_ /\ r.log_ = d.log_
        /\ r.elem_capacity = d.elem_capacity /\ r.num_edges_ = d.num_edges_
        /\ r.segment_edges_actual = d.segment_edges_actual
        /\ r.segment_edges_total \in [Leaves -> Int]
        /\ \A s \in Leaves : r.segment_edges_total[s] = FirstIndex(r, s + 1) - FirstIndex(r, s)
    <3> HIDE DEF r
    <3>1. r = recount_segment_total(d, 0, leaf_count)
      BY DEF r
    <3> QED
      BY <1>4, <2>1, <3>1, RecountIs
  <2> HIDE DEF r
  <2> QED
    BY <1>4, <2>2
<1> HIDE DEF r
<1>7. /\ GraphShape(h) /\ h.edges_ = E /\ h.vertices_ = V /\ h.log_ = L
      /\ h.elem_capacity = 2 * g.elem_capacity /\ h.num_edges_ = g.num_edges_
      /\ h.segment_edges_actual = g.segment_edges_actual
      /\ h.segment_edges_total = r.segment_edges_total
  <2>1. [s \in Leaves |-> IF 0 <= s /\ s < leaf_count THEN <<>> ELSE r.log_[s]] = L
    BY TreeShape DEF Leaves
  <2>2. h = [r EXCEPT !.log_ = L]
    BY <1>5, <2>1, Zenon DEF release_log
  <2>3. L = [s \in Leaves |-> L[s]]
    OBVIOUS
  <2> HIDE DEF L, h
  <2> QED
    BY <1>6, <2>2, <2>3 DEF GraphShape
<1>8. \A x : FirstIndex(h, x) = FirstIndex(r, x)
  BY <1>6, <1>7 DEF FirstIndex
<1>9. LogsTyped(h)
  <2>1. \A v \in Vertices : h.vertices_[v].offset = -1 /\ h.log_[SegmentOf(v)] = <<>>
    BY <1>7, LeafOfVertex DEF V, MovedTo
  <2>2. \A s \in Leaves : h.log_[s] = <<>>
    BY <1>7
  <2>3. MAX_LOG_ENTRIES \in Nat
    BY PmaAssumption
  <2> QED
    BY <2>1, <2>2, <2>3, EmptyLinked DEF LogsTyped
<1> HIDE DEF h, L
<1>10. Typed(h)
  <2>1. 2 * g.elem_capacity \in Nat \ {0}
    BY <1>0
  <2> QED
    BY <1>0, <1>2, <1>3, <1>6, <1>7, <1>9, <2>1 DEF Typed
<1>11. Degrees(h) = Degrees(g)
  <2>1. \A v \in Vertices : h.vertices_[v].degree = g.vertices_[v].degree
    BY <1>7 DEF V, MovedTo
  <2> QED
    BY <2>1 DEF Degrees
<1>12. \A s \in Leaves : h.segment_edges_total[s] = FirstIndex(h, s + 1) - FirstIndex(h, s)
  BY <1>6, <1>7, <1>8
<1>13. CountsOf(h)
  BY <1>7, <1>11, <1>12 DEF CountsOf
<1>14. Resized(g, N, h)
  BY <1>1, <1>3, <1>7, <1>10, <1>12, Zenon DEF Resized, V, E, L
<1> QED
  BY <1>11, <1>13, <1>14 DEF N, h

\* compute_capacity makes room for at least the vertices there are.
LEMMA EnoughVertices == n_vertices \in Nat \ {0} /\ n_vertices <= num_vertices /\ num_vertices \in Nat
<1> DEFINE n == leaf_count
           x == n_vertices
<1>1. n \in Nat \ {0} /\ x \in Nat \ {0} /\ num_vertices \in Nat
  BY TreeShape, PmaAssumption
<1>2. segment_size = 1 + ((x - 1) \div n) /\ num_vertices = n * segment_size
  BY <1>1 DEF segment_size, ceil_div, num_vertices
<1> HIDE DEF n, x
<1>3. PICK q \in Nat : q = (x - 1) \div n /\ x - 1 < q * n + n
  <2>1. x - 1 \in Nat
    BY <1>1
  <2> QED
    BY <1>1, <2>1, Quotient
<1>4. n * (1 + q) = q * n + n /\ q * n \in Nat
  BY <1>1, <1>3
<1>5. num_vertices = q * n + n
  BY <1>2, <1>3, <1>4
<1>6. x <= num_vertices
  BY <1>1, <1>3, <1>4, <1>5
<1> QED
  BY <1>1, <1>6 DEF x

\* The edges of the vertices before v, and of v, in the edge list.
LEMMA EdgeCounts ==
  ASSUME NEW v \in Nat
  PROVE  LET before(w) == Cardinality({i \in DOMAIN edge_list : edge_list[i].u < w})
             of(w) == Cardinality({i \in DOMAIN edge_list : edge_list[i].u = w})
         IN /\ before(v) \in Nat /\ of(v) \in Nat
            /\ before(v + 1) = before(v) + of(v)
            /\ v = 0 => before(v) = 0
            /\ n_vertices <= v => before(v) = Len(edge_list)
<1> DEFINE I == DOMAIN edge_list
           B(w) == {i \in I : edge_list[i].u < w}
           O(w) == {i \in I : edge_list[i].u = w}
<1>1. n_vertices \in Nat /\ Len(edge_list) \in Nat /\ I = 1 .. Len(edge_list)
      /\ \A i \in I : edge_list[i].u \in Int /\ 0 <= edge_list[i].u /\ edge_list[i].u < n_vertices
  <2> DEFINE K == [u : 0 .. n_vertices - 1, v : 0 .. n_vertices - 1]
  <2>1. n_vertices \in Nat /\ edge_list \in Seq(K)
    BY PmaAssumption
  <2>2. \A x \in K : x.u \in 0 .. n_vertices - 1
    OBVIOUS
  <2> HIDE DEF K
  <2>3. Len(edge_list) \in Nat /\ I = 1 .. Len(edge_list) /\ \A i \in I : edge_list[i] \in K
    BY <2>1
  <2> QED
    BY <2>1, <2>2, <2>3
<1>2. IsFiniteSet(I) /\ Cardinality(I) = Len(edge_list)
  <2>1. 1 \in Int /\ Len(edge_list) \in Int
    BY <1>1
  <2>2. /\ IsFiniteSet(1 .. Len(edge_list))
        /\ Cardinality(1 .. Len(edge_list)) = IF 1 > Len(edge_list) THEN 0 ELSE Len(edge_list) - 1 + 1
    BY <2>1, FS_Interval
  <2> QED
    BY <1>1, <2>2
<1> HIDE DEF I
<1>3. \A w : B(w) \in SUBSET I /\ O(w) \in SUBSET I
  OBVIOUS
<1>4. IsFiniteSet(B(v)) /\ IsFiniteSet(O(v)) /\ Cardinality(B(v)) \in Nat /\ Cardinality(O(v)) \in Nat
  BY <1>2, <1>3, FS_Subset, FS_CardinalityType
<1>5. B(v + 1) = B(v) \cup O(v) /\ B(v) \cap O(v) = {}
  BY <1>1
<1>6. v = 0 => B(v) = {}
  BY <1>1
<1>7. n_vertices <= v => B(v) = I
  BY <1>1
<1>8. Cardinality({}) = 0
  BY FS_EmptySet
<1>9. Cardinality(B(v + 1)) = Cardinality(B(v)) + Cardinality(O(v))
  <2> DEFINE X == B(v)
             Y == O(v)
  <2>1. B(v + 1) = X \cup Y /\ X \cap Y = {}
    BY <1>5
  <2>2. IsFiniteSet(X) /\ IsFiniteSet(Y) /\ Cardinality(X) \in Nat /\ Cardinality(Y) \in Nat
    BY <1>4
  <2> HIDE DEF X, Y, B
  <2>3. Cardinality(X \cup Y) = Cardinality(X) + Cardinality(Y) - Cardinality(X \cap Y)
    BY <2>2, FS_Union
  <2>5. Cardinality(B(v + 1)) = Cardinality(X \cup Y) /\ Cardinality(X \cap Y) = 0
    BY <1>8, <2>1, Zenon
  <2>4. Cardinality(B(v + 1)) = Cardinality(X) + Cardinality(Y)
    BY <2>2, <2>3, <2>5
  <2> QED
    BY <2>4 DEF X, Y
<1>10. v = 0 => Cardinality(B(v)) = 0
  BY <1>6, <1>8
<1>11. n_vertices <= v => Cardinality(B(v)) = Len(edge_list)
  BY <1>2, <1>7
<1> QED
  BY <1>4, <1>9, <1>10, <1>11 DEF I

\* The packed graph has its types, and its vertices one after the other.
LEMMA PackedIs ==
  /\ Typed(Packed)
  /\ \A v \in Vertices : Packed.vertices_[v] = [index |-> PackedIndex(v), degree |-> PackedDegree(v), offset |-> -1]
  /\ Packed.elem_capacity = initial_capacity /\ Packed.num_edges_ = Len(edge_list) + num_vertices
  /\ Packed.log_ = [s \in Leaves |-> <<>>]
  /\ Packed.segment_edges_actual = [s \in Leaves |-> SumOver(Degrees(Packed), VerticesOf(s))]
  /\ CellsBefore(Packed, 0, num_vertices, [i \in 0 .. num_vertices |-> PackedIndex(i)])
  /\ PackedIndex(0) = 0 /\ PackedIndex(num_vertices) = Len(edge_list) + num_vertices
  /\ Len(edge_list) \in Nat
<1> DEFINE P == [i \in 0 .. num_vertices |-> PackedIndex(i)]
           V == [v \in Vertices |-> [index |-> PackedIndex(v), degree |-> PackedDegree(v), offset |-> -1]]
           F == [v \in Vertices |-> PackedDegree(v)]
           A == [s \in Leaves |-> SumOver(F, VerticesOf(s))]
           E == [c \in 0 .. initial_capacity - 1 |-> PackedCell(c)]
           L == [s \in Leaves |-> <<>>]
           T == [s \in Leaves |-> 0]
<1>0. /\ num_vertices \in Nat \ {0} /\ Vertices = 0 .. num_vertices - 1 /\ initial_capacity \in Nat \ {0}
      /\ Len(edge_list) \in Nat
  BY TreeShape, PmaAssumption DEF Vertices
<1>1. ASSUME NEW v \in Nat
      PROVE  /\ PackedIndex(v) \in Nat /\ PackedDegree(v) \in Nat \ {0}
             /\ PackedIndex(v + 1) = PackedIndex(v) + PackedDegree(v)
  <2> DEFINE b == Cardinality({i \in DOMAIN edge_list : edge_list[i].u < v})
             o == Cardinality({i \in DOMAIN edge_list : edge_list[i].u = v})
             c == Cardinality({i \in DOMAIN edge_list : edge_list[i].u < v + 1})
  <2>1. b \in Nat /\ o \in Nat /\ c = b + o
    BY EdgeCounts, Zenon
  <2>2. PackedIndex(v) = v + b /\ PackedDegree(v) = 1 + o /\ PackedIndex(v + 1) = v + 1 + c
    BY DEF PackedIndex, PackedDegree
  <2> HIDE DEF b, o, c
  <2> QED
    BY <2>1, <2>2
<1>2. PackedIndex(0) = 0 /\ PackedIndex(num_vertices) = Len(edge_list) + num_vertices
  <2> DEFINE b(w) == Cardinality({i \in DOMAIN edge_list : edge_list[i].u < w})
  <2>1. b(0) = 0 /\ b(num_vertices) = Len(edge_list)
    BY <1>0, EnoughVertices, EdgeCounts, Zenon
  <2>2. PackedIndex(0) = 0 + b(0) /\ PackedIndex(num_vertices) = num_vertices + b(num_vertices)
    BY DEF PackedIndex
  <2> HIDE DEF b
  <2> QED
    BY <1>0, <2>1, <2>2
<1>3. \A v \in Vertices : v \in Nat /\ PackedIndex(v) \in Nat /\ PackedDegree(v) \in Nat \ {0}
  <2> TAKE v \in Vertices
  <2>1. v \in Nat
    BY <1>0
  <2> QED
    BY <1>1, <2>1
<1>4. V \in [Vertices -> Entry]
  BY <1>3 DEF Entry
<1>5. /\ Packed.vertices_ = V /\ Packed.edges_ = E /\ Packed.log_ = L
      /\ Packed.elem_capacity = initial_capacity /\ Packed.num_edges_ = Len(edge_list) + num_vertices
      /\ Packed.segment_edges_actual = A /\ Packed.segment_edges_total = T
      /\ GraphShape(Packed)
  <2> HIDE DEF V, E, A, T
  <2>1. Packed = GraphOf(V, E, L, initial_capacity, Len(edge_list) + num_vertices, A, T)
    BY Zenon DEF Packed, GraphOf, V, E, A, T, F
  <2>2. L = [s \in Leaves |-> L[s]]
    OBVIOUS
  <2> HIDE DEF L
  <2> QED
    BY <2>1, <2>2 DEF GraphOf, GraphShape
<1>6. Degrees(Packed) = F
  <2>1. \A v \in Vertices : Packed.vertices_[v].degree = PackedDegree(v)
    BY <1>5
  <2> QED
    BY <2>1 DEF Degrees
<1>7. CellsBefore(Packed, 0, num_vertices, P)
  <2>1. \A i \in 0 .. num_vertices : i \in Nat /\ PackedIndex(i) \in Nat
    <3> TAKE i \in 0 .. num_vertices
    <3>1. i \in Nat
      BY <1>0
    <3> QED
      BY <1>1, <3>1
  <2>2. P \in [0 .. num_vertices -> Nat] /\ P[0] = 0
    BY <1>0, <1>2, <2>1
  <2>3. ASSUME NEW i \in 0 .. num_vertices - 1 PROVE P[i + 1] = P[i] + Packed.vertices_[i].degree
    <3>1. i \in Nat /\ i \in Vertices /\ i \in 0 .. num_vertices /\ i + 1 \in 0 .. num_vertices
      BY <1>0
    <3>2. P[i + 1] = PackedIndex(i + 1) /\ P[i] = PackedIndex(i)
      BY <3>1
    <3>3. Packed.vertices_[i].degree = PackedDegree(i)
      BY <1>5, <3>1
    <3> HIDE DEF P
    <3> QED
      BY <1>1, <3>1, <3>2, <3>3
  <2> HIDE DEF P
  <2> QED
    BY <2>2, <2>3 DEF CellsBefore
<1>8. A \in [Leaves -> Int]
  <2> SUFFICES ASSUME NEW s \in Leaves PROVE SumOver(F, VerticesOf(s)) \in Int
    OBVIOUS
  <2>1. SumOver(Degrees(Packed), VerticesOf(s)) = P[first(s + 1)] - P[first(s)]
    <3> HIDE DEF P
    <3> QED
      BY <1>4, <1>5, <1>7, LeafSum
  <2>2. s \in 0 .. leaf_count /\ s + 1 \in 0 .. leaf_count
    BY TreeShape DEF Leaves
  <2>3. first(s) \in 0 .. num_vertices /\ first(s + 1) \in 0 .. num_vertices
    BY <2>2, Firsts
  <2>4. P[first(s + 1)] \in Nat /\ P[first(s)] \in Nat
    <3> HIDE DEF P
    <3> QED
      BY <1>7, <2>3 DEF CellsBefore
  <2> HIDE DEF P, F
  <2> QED
    BY <1>6, <2>1, <2>4
<1>9. LogsTyped(Packed)
  <2>1. \A v \in Vertices : Packed.vertices_[v].offset = -1 /\ Packed.log_[SegmentOf(v)] = <<>>
    BY <1>5, LeafOfVertex
  <2>2. \A s \in Leaves : Packed.log_[s] = <<>>
    BY <1>5
  <2>3. MAX_LOG_ENTRIES \in Nat
    BY PmaAssumption
  <2> QED
    BY <2>1, <2>2, <2>3, EmptyLinked DEF LogsTyped
<1>10. \E W : E \in Arrays(initial_capacity, W)
  <2>1. E \in Arrays(initial_capacity, {PackedCell(c) : c \in 0 .. initial_capacity - 1})
    BY DEF Arrays
  <2> HIDE DEF E
  <2> QED
    BY <2>1
<1>11. T \in [Leaves -> Int]
  OBVIOUS
<1>12. Typed(Packed)
  <2>1. Len(edge_list) + num_vertices \in Int
    BY <1>0
  <2> HIDE DEF V, E, A, T, L
  <2> QED
    BY <1>0, <1>4, <1>5, <1>8, <1>9, <1>10, <1>11, <2>1 DEF Typed
<1>13. \A v \in Vertices : Packed.vertices_[v] = [index |-> PackedIndex(v), degree |-> PackedDegree(v), offset |-> -1]
  BY <1>5
<1> HIDE DEF P
<1> QED
  BY <1>0, <1>2, <1>5, <1>6, <1>7, <1>12, <1>13 DEF P

\* The positions of the base graph, and the order in which its vertices move.
BasePositions ==
  calculate_positions(Packed, 0, num_vertices, Packed.elem_capacity - Packed.num_edges_, Packed.num_edges_)

BaseOrder == [k \in 1 .. num_vertices - 1 |-> num_vertices - k]

\* The base graph is the packed one with its vertices spread.
LEMMA BaseIs ==
  /\ Typed(BaseGraph) /\ CountsOf(BaseGraph)
  /\ BasePositions \in [Vertices -> Int] /\ BasePositions[0] = 0
  /\ BaseGraph.vertices_ = [v \in Vertices |-> MovedTo(Packed.vertices_[v], BasePositions[v])]
  /\ BaseGraph.log_ = [s \in Leaves |-> <<>>]
  /\ BaseGraph.elem_capacity = initial_capacity
  /\ BaseGraph.num_edges_ = Len(edge_list) + num_vertices
  /\ BaseGraph.edges_ = Moved(Packed, BaseOrder, BasePositions, Degrees(Packed))
<1> DEFINE g == Packed
           h == BaseGraph
           N == BasePositions
           V == [v \in Vertices |-> MovedTo(g.vertices_[v], N[v])]
           E == Moved(g, BaseOrder, N, Degrees(g))
           d == [g EXCEPT !.edges_ = E, !.vertices_ = V]
           n == num_vertices - 1
<1>0. /\ num_vertices \in Nat \ {0} /\ Vertices = 0 .. num_vertices - 1 /\ initial_capacity \in Nat \ {0}
      /\ Len(edge_list) \in Nat /\ n \in Nat /\ n = num_vertices - 1
  BY TreeShape, PackedIs DEF Vertices
<1> HIDE DEF g, n
<1>p. /\ Typed(g) /\ g.elem_capacity = initial_capacity /\ g.num_edges_ = Len(edge_list) + num_vertices
      /\ \A v \in Vertices : g.vertices_[v] =
           [index |-> PackedIndex(v), degree |-> PackedDegree(v), offset |-> -1]
      /\ g.log_ = [s \in Leaves |-> <<>>]
      /\ g.segment_edges_actual = [s \in Leaves |-> SumOver(Degrees(g), VerticesOf(s))]
      /\ CellsBefore(g, 0, num_vertices, [i \in 0 .. num_vertices |-> PackedIndex(i)])
      /\ PackedIndex(0) = 0 /\ PackedIndex(num_vertices) = Len(edge_list) + num_vertices
  BY PackedIs DEF g
<1>1. N \in [Vertices -> Int] /\ N[0] = 0
  <2> DEFINE gaps == g.elem_capacity - g.num_edges_
             total == g.num_edges_
  <2>1. gaps \in Int /\ total \in Nat /\ 0 \in Nat /\ 0 < num_vertices /\ num_vertices <= num_vertices
    BY <1>0, <1>p
  <2>2. N = calculate_positions(g, 0, num_vertices, gaps, total)
    BY DEF BasePositions, g
  <2>3. g.vertices_ \in [Vertices -> Entry]
    BY <1>p DEF Typed
  <2> DEFINE M == calculate_positions(g, 0, num_vertices, gaps, total)
  <2>n. N = M
    BY <2>2
  <2> HIDE DEF gaps, total
  <2>4. M \in [0 .. num_vertices - 1 -> Int] /\ M[0] = g.vertices_[0].index
    BY <1>0, <2>1, <2>3, PositionsAre
  <2>5. g.vertices_[0].index = 0
    <3>1. 0 \in Vertices
      BY <1>0
    <3>a. \A v \in Vertices : g.vertices_[v] =
            [index |-> PackedIndex(v), degree |-> PackedDegree(v), offset |-> -1]
      BY <1>p
    <3>b. g.vertices_[0] = [index |-> PackedIndex(0), degree |-> PackedDegree(0), offset |-> -1]
      BY <3>1, <3>a, Zenon
    <3>2. g.vertices_[0].index = PackedIndex(0)
      BY <3>b
    <3> QED
      BY <1>p, <3>2
  <2> HIDE DEF M, N
  <2> QED
    BY <1>0, <2>n, <2>4, <2>5
<1> HIDE DEF N
<1>2. V \in [Vertices -> Entry]
  <2>1. g.vertices_ \in [Vertices -> Entry]
    BY <1>p DEF Typed
  <2> QED
    BY <1>1, <2>1 DEF MovedTo, Entry
<1>3. E \in Arrays(initial_capacity, CellValues(g))
  <2> DEFINE W == Arrays(initial_capacity, CellValues(g))
             on == Degrees(g)
             order == BaseOrder
  <2>1. g.edges_ \in W
    BY <1>p, ContentsHold
  <2>2. DOMAIN order = 1 .. n /\ \A k \in 1 .. n : order[k] \in Vertices
    BY <1>0 DEF BaseOrder
  <2> HIDE DEF on, order
  <2>3. MovesWithin(g, order, N, on, n, W)
    <3> SUFFICES ASSUME NEW F \in W, NEW k \in 1 .. n
                 PROVE  MoveVertex(g, order[k], F, N[order[k]], on[order[k]]) \in W
      BY DEF MovesWithin
    <3>1. order[k] \in Vertices
      BY <2>2
    <3>2. LogsTyped(g) /\ Garbage \in CellValues(g)
          /\ LogValues(g.log_[SegmentOf(order[k])]) \subseteq CellValues(g)
      BY <1>p, <3>1, ContentsHold DEF Typed
    <3>3. F \in [0 .. initial_capacity - 1 -> CellValues(g)]
      BY DEF Arrays
    <3>4. MergeLog(g, order[k], CopyCells(F, F, g.vertices_[order[k]].index, N[order[k]], on[order[k]]),
                   N[order[k]]) \in [0 .. initial_capacity - 1 -> CellValues(g)]
      BY <3>1, <3>2, <3>3, MoveTyped
    <3> QED
      BY <3>4 DEF MoveVertex, Arrays
  <2> HIDE DEF W
  <2>4. \E A \in [0 .. n -> W] : MoveSteps(g, order, N, on, n, A)
    BY <1>0, <1>p, <2>1, <2>2, <2>3, MovedIs DEF Typed
  <2>5. n \in 0 .. n
    BY <1>0
  <2>6. Moved(g, order, N, on) \in W
    BY <2>4, <2>5 DEF MoveSteps
  <2> QED
    BY <2>6 DEF W, on, order
<1> HIDE DEF E, V
<1>4. /\ GraphShape(d) /\ d.vertices_ = V /\ d.edges_ = E /\ d.log_ = g.log_
      /\ d.elem_capacity = g.elem_capacity /\ d.num_edges_ = g.num_edges_
      /\ d.segment_edges_actual = g.segment_edges_actual
  <2> DEFINE d1 == [g EXCEPT !.edges_ = E]
             d2 == [d1 EXCEPT !.vertices_ = V]
  <2>1. d = d2
    OBVIOUS
  <2>2. GraphShape(g)
    BY <1>p DEF Typed
  <2> HIDE DEF d, d2
  <2>3. /\ GraphShape(d1) /\ d1.log_ = g.log_ /\ d1.elem_capacity = g.elem_capacity /\ d1.num_edges_ = g.num_edges_
        /\ d1.segment_edges_actual = g.segment_edges_actual /\ d1.edges_ = E
    BY <2>2 DEF GraphShape
  <2> HIDE DEF d1
  <2>4. /\ GraphShape(d2) /\ d2.log_ = g.log_ /\ d2.elem_capacity = g.elem_capacity /\ d2.num_edges_ = g.num_edges_
        /\ d2.segment_edges_actual = g.segment_edges_actual /\ d2.edges_ = E /\ d2.vertices_ = V
    BY <2>3 DEF GraphShape, d2
  <2> QED
    BY <2>1, <2>4
<1>5. h = recount_segment_total(d, 0, leaf_count)
  <2>1. [v \in Vertices |-> g.vertices_[v].degree] = Degrees(g)
    BY DEF Degrees
  <2>2. [v \in Vertices |-> MovedTo(g.vertices_[v], N[v])] = V
    BY DEF V
  <2>3. h = recount_segment_total(
              [g EXCEPT !.edges_ = Moved(g, BaseOrder, N, [v \in Vertices |-> g.vertices_[v].degree]),
                        !.vertices_ = [v \in Vertices |-> MovedTo(g.vertices_[v], N[v])]], 0, leaf_count)
    BY Zenon DEF BaseGraph, spread_weighted, g, N, BasePositions, BaseOrder
  <2> QED
    BY <2>1, <2>2, <2>3 DEF E
<1> HIDE DEF d, h
<1>6. /\ GraphShape(h) /\ h.edges_ = E /\ h.vertices_ = V /\ h.log_ = g.log_
      /\ h.elem_capacity = g.elem_capacity /\ h.num_edges_ = g.num_edges_
      /\ h.segment_edges_actual = g.segment_edges_actual
      /\ h.segment_edges_total \in [Leaves -> Int]
      /\ \A s \in Leaves : h.segment_edges_total[s] = FirstIndex(h, s + 1) - FirstIndex(h, s)
  <2>1. d.elem_capacity \in Int /\ d.vertices_ \in [Vertices -> Entry]
    BY <1>0, <1>2, <1>4, <1>p
  <2>2. /\ GraphShape(h) /\ h.edges_ = d.edges_ /\ h.vertices_ = d.vertices_ /\ h.log_ = d.log_
        /\ h.elem_capacity = d.elem_capacity /\ h.num_edges_ = d.num_edges_
        /\ h.segment_edges_actual = d.segment_edges_actual
        /\ h.segment_edges_total \in [Leaves -> Int]
        /\ \A s \in Leaves : h.segment_edges_total[s] = FirstIndex(h, s + 1) - FirstIndex(h, s)
    BY <1>4, <1>5, <2>1, RecountIs
  <2> QED
    BY <1>4, <2>2
<1>7. Degrees(h) = Degrees(g)
  <2>1. \A v \in Vertices : h.vertices_[v].degree = g.vertices_[v].degree
    BY <1>6 DEF V, MovedTo
  <2> QED
    BY <2>1 DEF Degrees
<1>8. LogsTyped(h)
  <2>1. \A v \in Vertices : h.vertices_[v].offset = -1 /\ h.log_[SegmentOf(v)] = <<>>
    BY <1>6, <1>p, LeafOfVertex DEF V, MovedTo
  <2>2. \A s \in Leaves : h.log_[s] = <<>>
    BY <1>6, <1>p
  <2>3. MAX_LOG_ENTRIES \in Nat
    BY PmaAssumption
  <2> QED
    BY <2>1, <2>2, <2>3, EmptyLinked DEF LogsTyped
<1>9. Typed(h)
  <2>1. g.segment_edges_actual \in [Leaves -> Int] /\ Len(edge_list) + num_vertices \in Int
    BY <1>0, <1>p DEF Typed
  <2> QED
    BY <1>0, <1>2, <1>3, <1>6, <1>8, <1>p, <2>1 DEF Typed
<1>10. h.num_edges_ = SumOver(h.segment_edges_actual, Leaves)
  <2> DEFINE P == [i \in 0 .. num_vertices |-> PackedIndex(i)]
             H == [r \in 0 .. leaf_count |-> P[first(r)]]
             A == g.segment_edges_actual
  <2>1. leaf_count \in Nat \ {0} /\ Leaves = 0 .. leaf_count - 1
    BY TreeShape DEF Leaves
  <2>2. CellsBefore(g, 0, num_vertices, P) /\ g.vertices_ \in [Vertices -> Entry]
    BY <1>p DEF Typed
  <2>3. P[0] = 0 /\ P[num_vertices] = Len(edge_list) + num_vertices
    BY <1>0, <1>p
  <2> HIDE DEF P
  <2>4. \A r \in 0 .. leaf_count : H[r] \in Int
    <3> SUFFICES ASSUME NEW r \in 0 .. leaf_count PROVE P[first(r)] \in Int
      OBVIOUS
    <3>1. first(r) \in 0 .. num_vertices
      BY Firsts
    <3> QED
      BY <2>2, <3>1 DEF CellsBefore
  <2>5. Differences(A, H, 0, leaf_count)
    <3> SUFFICES ASSUME NEW s \in 0 .. leaf_count - 1 PROVE A[s] = H[s + 1] - H[s]
      BY DEF Differences
    <3>1. s \in Leaves /\ s \in 0 .. leaf_count /\ s + 1 \in 0 .. leaf_count
      BY <2>1
    <3>2. A[s] = P[first(s + 1)] - P[first(s)]
      BY <1>p, <2>2, <3>1, LeafSum
    <3> QED
      BY <3>1, <3>2
  <2>6. H[leaf_count] = P[num_vertices] /\ H[0] = P[0]
    BY <2>1, Firsts
  <2> HIDE DEF H
  <2>7. SumOver(A, 0 .. leaf_count - 1) = H[leaf_count] - H[0]
    <3>1. 0 \in Int /\ leaf_count \in Int /\ 0 <= leaf_count
      BY <2>1
    <3> HIDE DEF A
    <3> QED
      BY <2>4, <2>5, <3>1, SumTelescopes
  <2> QED
    BY <1>0, <1>6, <1>p, <2>1, <2>3, <2>6, <2>7
<1>11. CountsOf(h)
  BY <1>6, <1>7, <1>10, <1>p DEF CountsOf
<1>12. h.vertices_ = V /\ h.edges_ = E /\ h.log_ = [s \in Leaves |-> <<>>] /\ h.elem_capacity = initial_capacity
       /\ h.num_edges_ = Len(edge_list) + num_vertices
  BY <1>6, <1>p
<1> QED
  BY <1>1, <1>9, <1>11, <1>12, Zenon DEF h, V, E, N, g


-----------------------------------------------------------------------------
(***************************************************************************)
(* Where the edges of a vertex are.                                        *)
(***************************************************************************)

\* Blocks of lengths d that start at f follow one another.
Ascends(f, d, a, b) == \A i \in a .. b - 2 : f[i] + d[i] <= f[i + 1]

\* Each block ends before any later one starts.
LEMMA Ascending ==
  ASSUME NEW a \in Int, NEW b \in Int, NEW f, NEW d, Ascends(f, d, a, b),
         \A i \in a .. b - 1 : f[i] \in Int, \A i \in a .. b - 2 : d[i] \in Nat
  PROVE  \A v, w \in a .. b - 1 : v < w => f[v] + d[v] <= f[w]
<1> SUFFICES ASSUME NEW v \in a .. b - 1 PROVE \A w \in a .. b - 1 : v < w => f[v] + d[v] <= f[w]
  OBVIOUS
<1> DEFINE D == {n \in Nat : v + 1 + n <= b - 1 => f[v] + d[v] <= f[v + 1 + n]}
<1>1. 0 \in D
  <2> SUFFICES ASSUME v + 1 + 0 <= b - 1 PROVE f[v] + d[v] <= f[v + 1 + 0]
    OBVIOUS
  <2>1. v \in a .. b - 2 /\ v + 1 + 0 = v + 1
    OBVIOUS
  <2> QED
    BY <2>1 DEF Ascends
<1>2. \A n \in Nat : n \in D => n + 1 \in D
  <2> SUFFICES ASSUME NEW n \in Nat, n \in D PROVE n + 1 \in D
    OBVIOUS
  <2>0. n + 1 \in Nat
    OBVIOUS
  <2> SUFFICES ASSUME v + 1 + (n + 1) <= b - 1 PROVE f[v] + d[v] <= f[v + 1 + (n + 1)]
    BY <2>0, Zenon
  <2> DEFINE i == v + 1 + n
  <2>1. f[v] + d[v] <= f[i]
    OBVIOUS
  <2>2. i \in a .. b - 2 /\ i \in a .. b - 1 /\ i + 1 \in a .. b - 1 /\ v \in a .. b - 2 /\ v + 1 + (n + 1) = i + 1
    OBVIOUS
  <2> HIDE DEF D, i
  <2>3. f[i] + d[i] <= f[i + 1] /\ f[i] \in Int /\ f[i + 1] \in Int /\ d[i] \in Nat /\ f[v] \in Int /\ d[v] \in Nat
    BY <2>2 DEF Ascends
  <2>4. f[v] + d[v] <= f[i + 1]
    BY <2>1, <2>3
  <2> QED
    BY <2>2, <2>4
<1> HIDE DEF D
<1>3. Nat \subseteq D
  BY <1>1, <1>2, Induction
<1> SUFFICES ASSUME NEW w \in a .. b - 1, v < w PROVE f[v] + d[v] <= f[w]
  OBVIOUS
<1>4. w - v - 1 \in Nat /\ v + 1 + (w - v - 1) = w /\ v + 1 + (w - v - 1) <= b - 1
  OBVIOUS
<1>5. w - v - 1 \in D
  BY <1>3, <1>4
<1> QED
  BY <1>4, <1>5 DEF D

\* Edge j of vertex v, of which edge 0 is the pivot: first the cells, then the
\* log from its oldest entry.
EdgeAt(g, v, j) ==
  IF j < onseg_edges(g, v) THEN g.edges_[g.vertices_[v].index + j]
  ELSE log_chain(g, v)[g.vertices_[v].degree - j]

\* The cells of v start at its pivot and end before the next vertex, and the log
\* has the other edges.
InPlace(g, v) ==
  /\ onseg_edges(g, v) >= 1
  /\ g.vertices_[v].index + onseg_edges(g, v) <= NextIndex(g, v)
  /\ Len(log_chain(g, v)) = g.vertices_[v].degree - onseg_edges(g, v)
  /\ g.edges_[g.vertices_[v].index] = -v

Sound(g) == g.vertices_[0].index = 0 /\ \A v \in Vertices : InPlace(g, v)

\* The starts of the vertices, and the end of the array.
Starts(g) == [v \in 0 .. num_vertices |-> IF v = num_vertices THEN g.elem_capacity ELSE g.vertices_[v].index]

\* A vertex ends where the next one starts, the last one at the end of the array.
LEMMA StartsAre ==
  ASSUME NEW g, Typed(g)
  PROVE  /\ \A v \in Vertices : /\ v \in 0 .. num_vertices /\ v + 1 \in 0 .. num_vertices
                                /\ Starts(g)[v] = g.vertices_[v].index
                                /\ NextIndex(g, v) = Starts(g)[v + 1]
                                /\ NextIndex(g, v) \in Int
         /\ Starts(g)[num_vertices] = g.elem_capacity
         /\ \A v \in 0 .. num_vertices : Starts(g)[v] \in Int
<1>0. num_vertices \in Nat \ {0} /\ Vertices = 0 .. num_vertices - 1
  BY TreeShape DEF Vertices
<1>1. \A v \in Vertices : g.vertices_[v].index \in Int
  BY DEF Typed, Entry
<1>2. g.elem_capacity \in Int
  BY DEF Typed
<1>3. ASSUME NEW v \in 0 .. num_vertices PROVE Starts(g)[v] \in Int
  <2>1. v # num_vertices => v \in Vertices
    BY <1>0
  <2> QED
    BY <1>1, <1>2, <2>1 DEF Starts
<1>4. Starts(g)[num_vertices] = g.elem_capacity
  BY <1>0 DEF Starts
<1>5. ASSUME NEW v \in Vertices
      PROVE  /\ v \in 0 .. num_vertices /\ v + 1 \in 0 .. num_vertices
             /\ Starts(g)[v] = g.vertices_[v].index /\ NextIndex(g, v) = Starts(g)[v + 1]
  <2>1. v \in 0 .. num_vertices /\ v # num_vertices /\ v + 1 \in 0 .. num_vertices
        /\ (v >= num_vertices - 1 <=> v + 1 = num_vertices)
    BY <1>0
  <2> QED
    BY <2>1 DEF Starts, NextIndex
<1>6. ASSUME NEW v \in Vertices PROVE NextIndex(g, v) \in Int
  BY <1>3, <1>5
<1> QED
  BY <1>3, <1>4, <1>5, <1>6

\* What lies where in a sound graph.
LEMMA SoundIs ==
  ASSUME NEW g, Typed(g), Sound(g)
  PROVE  /\ \A v \in Vertices :
              /\ g.vertices_[v].index \in 0 .. g.elem_capacity - 1
              /\ g.vertices_[v].degree \in Nat \ {0}
              /\ onseg_edges(g, v) \in Nat \ {0} /\ onseg_edges(g, v) <= g.vertices_[v].degree
              /\ g.vertices_[v].index + onseg_edges(g, v) <= NextIndex(g, v)
              /\ NextIndex(g, v) \in Int /\ NextIndex(g, v) <= g.elem_capacity
         /\ \A v, w \in Vertices : v < w =>
              /\ g.vertices_[v].index + onseg_edges(g, v) <= g.vertices_[w].index
              /\ NextIndex(g, v) <= g.vertices_[w].index
<1> DEFINE f == Starts(g)
           d == [v \in Vertices |-> onseg_edges(g, v)]
           z == [v \in Vertices |-> 0]
           n == num_vertices
<1>0. n \in Nat \ {0} /\ Vertices = 0 .. n - 1 /\ (n + 1) - 1 = n /\ (n + 1) - 2 = n - 1 /\ n + 1 \in Int /\ 0 \in Int
  BY TreeShape DEF Vertices
<1>1. \A v \in Vertices : g.vertices_[v].index \in Int /\ g.vertices_[v].degree \in Nat \ {0}
  BY DEF Typed, Entry
<1>2. \A v \in Vertices :
        /\ v \in 0 .. n /\ v + 1 \in 0 .. n /\ f[v] = g.vertices_[v].index
        /\ NextIndex(g, v) = f[v + 1] /\ NextIndex(g, v) \in Int
  BY StartsAre
<1>3. f[n] = g.elem_capacity /\ \A v \in 0 .. n : f[v] \in Int
  BY StartsAre
<1> HIDE DEF f
<1>4. ASSUME NEW v \in Vertices
      PROVE  /\ d[v] = onseg_edges(g, v) /\ d[v] \in Nat \ {0} /\ d[v] <= g.vertices_[v].degree
             /\ f[v] + d[v] <= f[v + 1]
  <2>1. onseg_edges(g, v) \in Int
    BY <1>1, <1>2 DEF onseg_edges
  <2>2. InPlace(g, v)
    BY DEF Sound
  <2>3. Len(log_chain(g, v)) \in Nat
    <3>1. log_chain(g, v) \in Seq(LogValues(g.log_[SegmentOf(v)]))
      BY ChainOfVertex DEF Typed
    <3> QED
      BY <3>1
  <2> QED
    BY <1>1, <1>2, <2>1, <2>2, <2>3 DEF InPlace
<1> HIDE DEF d
<1>5. Ascends(f, d, 0, n + 1) /\ Ascends(f, z, 0, n + 1)
  <2>1. ASSUME NEW i \in 0 .. (n + 1) - 2 PROVE f[i] + d[i] <= f[i + 1] /\ f[i] + z[i] <= f[i + 1]
    <3>1. i \in Vertices /\ i \in 0 .. n /\ i + 1 \in 0 .. n
      BY <1>0
    <3>2. f[i] \in Int /\ f[i + 1] \in Int /\ d[i] \in Nat \ {0} /\ f[i] + d[i] <= f[i + 1] /\ z[i] = 0
      BY <1>3, <1>4, <3>1
    <3> QED
      BY <3>2
  <2> QED
    BY <2>1 DEF Ascends
<1>6. \A v, w \in 0 .. n : v < w => f[v] + d[v] <= f[w]
  <2>1. \A i \in 0 .. (n + 1) - 1 : f[i] \in Int
    BY <1>0, <1>3
  <2>2. \A i \in 0 .. (n + 1) - 2 : d[i] \in Nat
    BY <1>0, <1>4
  <2>3. \A v, w \in 0 .. (n + 1) - 1 : v < w => f[v] + d[v] <= f[w]
    BY <1>0, <1>5, <2>1, <2>2, Ascending
  <2> QED
    BY <1>0, <2>3
<1>7. \A v, w \in 0 .. n : v < w => f[v] <= f[w]
  <2>1. \A i \in 0 .. (n + 1) - 1 : f[i] \in Int
    BY <1>0, <1>3
  <2>2. \A i \in 0 .. (n + 1) - 2 : z[i] \in Nat /\ z[i] = 0
    BY <1>0
  <2> HIDE DEF z
  <2>3. \A v, w \in 0 .. (n + 1) - 1 : v < w => f[v] + z[v] <= f[w]
    BY <1>0, <1>5, <2>1, <2>2, Ascending
  <2> SUFFICES ASSUME NEW v \in 0 .. n, NEW w \in 0 .. n, v < w PROVE f[v] <= f[w]
    OBVIOUS
  <2>4. v \in 0 .. (n + 1) - 2 /\ v \in 0 .. (n + 1) - 1 /\ w \in 0 .. (n + 1) - 1
    BY <1>0
  <2> QED
    BY <2>1, <2>2, <2>3, <2>4
<1>8. f[0] = 0
  <2>1. 0 \in Vertices
    BY <1>0
  <2> QED
    BY <1>2, <2>1 DEF Sound
<1>9. ASSUME NEW v \in Vertices
      PROVE  /\ g.vertices_[v].index \in 0 .. g.elem_capacity - 1
             /\ NextIndex(g, v) <= g.elem_capacity
             /\ g.vertices_[v].index + onseg_edges(g, v) <= NextIndex(g, v)
  <2>1. v \in 0 .. n /\ v + 1 \in 0 .. n /\ n \in 0 .. n /\ 0 \in 0 .. n /\ v < n /\ v \in Int
    BY <1>0
  <2>2. f[v] + d[v] <= f[n]
    BY <1>6, <2>1
  <2>3. v + 1 < n => f[v + 1] <= f[n]
    BY <1>7, <2>1
  <2>4. v > 0 => f[0] <= f[v]
    BY <1>7, <2>1
  <2>5. f[v] \in Int /\ f[v + 1] \in Int /\ f[n] \in Int /\ d[v] \in Nat \ {0} /\ f[v] + d[v] <= f[v + 1]
    BY <1>3, <1>4, <2>1
  <2>6. 0 <= f[v] /\ f[v] <= f[n] - 1
    BY <1>8, <2>1, <2>2, <2>4, <2>5
  <2>7. f[v + 1] <= f[n]
    <3>1. v + 1 = n \/ v + 1 < n
      BY <1>0, <2>1
    <3> QED
      BY <2>3, <2>5, <3>1
  <2> QED
    BY <1>2, <1>3, <1>4, <2>5, <2>6, <2>7
<1>10. ASSUME NEW v \in Vertices, NEW w \in Vertices, v < w
       PROVE  /\ g.vertices_[v].index + onseg_edges(g, v) <= g.vertices_[w].index
              /\ NextIndex(g, v) <= g.vertices_[w].index
  <2>1. v \in 0 .. n /\ w \in 0 .. n /\ v + 1 \in 0 .. n
    BY <1>2
  <2>2. f[v] + d[v] <= f[w]
    BY <1>6, <1>10, <2>1
  <2>3. f[v + 1] <= f[w]
    <3>1. v + 1 = w \/ v + 1 < w
      BY <1>10, <2>1
    <3>2. f[w] \in Int
      BY <1>3, <2>1
    <3> QED
      BY <1>7, <2>1, <3>1, <3>2
  <2> QED
    BY <1>2, <1>4, <2>2, <2>3
<1> QED
  BY <1>1, <1>2, <1>4, <1>9, <1>10

\* Vertex v has deg edges, the pivot among them, and on of them are in its cells.
Splits(g, v, on, deg) ==
  deg = g.vertices_[v].degree /\ on <= deg /\ Len(log_chain(g, v)) = deg - on

\* Array R is array to, of the cells I, after on cells of v, from position i of
\* array from, of the cells J, and the rest from the log have come to position j,
\* and k cells have been copied.
VertexAt(g, v, on, deg, I, J, from, to, i, j, k, R) ==
  /\ \A c \in I : c < j \/ (k = on /\ j + deg <= c) => R[c] = to[c]
  /\ \A x \in 0 .. deg - 1 :
       j + x \in I /\ (x < on => i + x \in J) =>
         R[j + x] = IF x < on THEN from[i + x] ELSE log_chain(g, v)[deg - x]

\* One vertex in its new place: its cells, then the edges of its log, oldest
\* first.  No cell before it changes, and none after it unless more cells are
\* copied than it has.
LEMMA VertexArrives ==
  ASSUME NEW g, LogsTyped(g), NEW v \in Vertices, NEW on \in Nat, NEW deg \in Nat,
         Splits(g, v, on, deg),
         NEW I \in SUBSET Int, NEW J \in SUBSET Int, NEW V, NEW from \in [J -> V], NEW to \in [I -> V],
         NEW i \in Int, NEW j \in Int, NEW k \in Int, on <= k
  PROVE  VertexAt(g, v, on, deg, I, J, from, to, i, j, k, MergeLog(g, v, CopyCells(from, to, i, j, k), j))
<1> DEFINE K == CopyCells(from, to, i, j, k)
           chain == log_chain(g, v)
           n == Len(chain)
           last == j + deg - 1
           R == MergeLog(g, v, K, j)
<1>1. DOMAIN K = I /\ \A c \in I : K[c] = IF j <= c /\ c < j + k
                                           THEN IF i + c - j \in J THEN from[i + c - j] ELSE Garbage
                                           ELSE to[c]
  BY DEF CopyCells
<1>2. R = [c \in DOMAIN K |-> IF (j + g.vertices_[v].degree - 1) - c \in 0 .. n - 1
                               THEN chain[(j + g.vertices_[v].degree - 1) - c + 1] ELSE K[c]]
  BY DEF MergeLog
<1>3. R = [c \in I |-> IF last - c \in 0 .. n - 1 THEN chain[last - c + 1] ELSE K[c]]
  BY <1>1, <1>2 DEF Splits
<1>4. n = deg - on /\ on <= deg
  BY DEF Splits
<1> HIDE DEF K, chain, n, R
<1>5. ASSUME NEW c \in I, c < j \/ (k = on /\ j + deg <= c) PROVE R[c] = to[c]
  <2>1. c \in Int
    OBVIOUS
  <2>2. last - c \notin 0 .. n - 1
    BY <1>4, <1>5, <2>1
  <2>3. ~(j <= c /\ c < j + k)
    BY <1>4, <1>5, <2>1
  <2>4. R[c] = K[c]
    BY <1>3, <2>2
  <2> QED
    BY <1>1, <2>3, <2>4
<1>6. ASSUME NEW x \in 0 .. deg - 1, j + x \in I, x < on => i + x \in J
      PROVE  R[j + x] = IF x < on THEN from[i + x] ELSE chain[deg - x]
  <2> DEFINE c == j + x
  <2>1. c \in Int /\ last - c = deg - 1 - x /\ i + c - j = i + x /\ last - c + 1 = deg - x /\ c \in I
    BY <1>6
  <2>2. CASE x < on
    <3>1. last - c \notin 0 .. n - 1
      BY <1>4, <2>1, <2>2
    <3>2. j <= c /\ c < j + k
      BY <2>2
    <3> HIDE DEF c, last
    <3>3. R[c] = K[c]
      BY <1>3, <2>1, <3>1
    <3>4. K[c] = from[i + x]
      BY <1>1, <1>6, <2>1, <2>2, <3>2
    <3> QED
      BY <2>2, <3>3, <3>4 DEF c
  <2>3. CASE ~(x < on)
    <3>1. last - c \in 0 .. n - 1
      BY <1>4, <2>1, <2>3
    <3> HIDE DEF c, last
    <3>2. R[c] = chain[last - c + 1]
      BY <1>3, <2>1, <3>1
    <3> QED
      BY <2>1, <2>3, <3>2 DEF c
  <2> QED
    BY <2>2, <2>3
<1> QED
  BY <1>5, <1>6 DEF R, K, chain, VertexAt

\* The order takes n vertices of a .. b - 1, no vertex twice.
OnceEach(order, n, a, b) ==
  order \in [1 .. n -> a .. b - 1] /\ \A i, j \in 1 .. n : i # j => order[i] # order[j]

\* An order that takes no vertex twice takes them all.
LEMMA ReachesAll ==
  ASSUME NEW a \in Int, NEW b \in Int, NEW n \in Nat, b - a = n, NEW order, OnceEach(order, n, a, b)
  PROVE  \A v \in a .. b - 1 : \E i \in 1 .. n : order[i] = v
<1>1. IsFiniteSet(a .. b - 1) /\ Cardinality(a .. b - 1) = n
  <2>1. b - 1 \in Int /\ (IF a > b - 1 THEN 0 ELSE (b - 1) - a + 1) = n
    OBVIOUS
  <2> QED
    BY <2>1, FS_Interval
<1>2. Cardinality(1 .. n) = n
  <2>1. 1 \in Int /\ n \in Int /\ (IF 1 > n THEN 0 ELSE n - 1 + 1) = n
    OBVIOUS
  <2> QED
    BY <2>1, FS_Interval
<1>3. order \in Injection(1 .. n, a .. b - 1)
  BY DEF Injection, IsInjective, OnceEach
<1>4. order \in Surjection(1 .. n, a .. b - 1)
  BY <1>1, <1>2, <1>3, FS_Injection
<1> QED
  BY <1>4 DEF Surjection

\* Moving vertices leaves an array of the same cells and contents.
LEMMA MovesTyped ==
  ASSUME NEW g, Typed(g), NEW n, NEW order, \A k \in 1 .. n : order[k] \in Vertices, NEW N, NEW on
  PROVE  MovesWithin(g, order, N, on, n, Arrays(g.elem_capacity, CellValues(g)))
<1> DEFINE W == Arrays(g.elem_capacity, CellValues(g))
<1> SUFFICES ASSUME NEW F \in W, NEW k \in 1 .. n
             PROVE  MoveVertex(g, order[k], F, N[order[k]], on[order[k]]) \in W
  BY DEF MovesWithin
<1>1. order[k] \in Vertices
  OBVIOUS
<1>2. LogsTyped(g) /\ Garbage \in CellValues(g)
      /\ LogValues(g.log_[SegmentOf(order[k])]) \subseteq CellValues(g)
  BY <1>1, ContentsHold DEF Typed
<1>3. F \in [0 .. g.elem_capacity - 1 -> CellValues(g)]
  BY DEF Arrays
<1>4. MergeLog(g, order[k], CopyCells(F, F, g.vertices_[order[k]].index, N[order[k]], on[order[k]]),
               N[order[k]]) \in [0 .. g.elem_capacity - 1 -> CellValues(g)]
  BY <1>1, <1>2, <1>3, MoveTyped
<1> QED
  BY <1>4 DEF MoveVertex, Arrays

Indices(g) == [v \in Vertices |-> g.vertices_[v].index]

\* Edge j of v, of which on are in the cells.
EdgeOf(g, v, on, j) ==
  IF j < on THEN g.edges_[g.vertices_[v].index + j] ELSE log_chain(g, v)[g.vertices_[v].degree - j]

\* The cells of array E at N hold the edges of v.
Landed(g, v, on, N, E) ==
  \A j \in 0 .. g.vertices_[v].degree - 1 : E[N + j] = EdgeOf(g, v, on, j)

\* Array E is that of g except in the new places of the vertices a .. b - 1.
Elsewhere(g, a, b, N, E) ==
  \A c \in 0 .. g.elem_capacity - 1 :
    (\A v \in a .. b - 1 : c < N[v] \/ N[v] + g.vertices_[v].degree <= c) => E[c] = g.edges_[c]

\* The vertices a .. b - 1 can move to N in this order.
Shiftable(g, a, b, n, order, N, on) ==
  /\ Typed(g) /\ a \in Nat /\ b \in Nat /\ b <= num_vertices /\ n \in Nat /\ b - a = n
  /\ \A v \in a .. b - 1 : Splits(g, v, on[v], g.vertices_[v].degree)
  /\ SafeOrder(n, order, a .. b - 1, 0 .. g.elem_capacity - 1, Indices(g), on, N, Degrees(g))

\* The edges of the logs by vertex and place.
Tails(g) == [p \in Vertices \X Nat |-> log_chain(g, p[1])[g.vertices_[p[1]].degree - p[2]]]

\* They move as blocks.
LEMMA StepsAreBlocks ==
  ASSUME NEW g, NEW a, NEW b, NEW n, NEW order, NEW N, NEW on, Shiftable(g, a, b, n, order, N, on),
         NEW A \in [0 .. n -> Arrays(g.elem_capacity, CellValues(g))], MoveSteps(g, order, N, on, n, A)
  PROVE  BlockSteps(n, A, 0 .. g.elem_capacity - 1, order, Indices(g), on, N, Degrees(g), Tails(g))
<1> DEFINE W == Arrays(g.elem_capacity, CellValues(g))
           C == 0 .. g.elem_capacity - 1
           V == a .. b - 1
           old == Indices(g)
           deg == Degrees(g)
           tail == Tails(g)
<1>s. /\ Typed(g) /\ a \in Nat /\ b \in Nat /\ b <= num_vertices /\ n \in Nat /\ b - a = n
      /\ \A v \in V : Splits(g, v, on[v], g.vertices_[v].degree)
      /\ SafeOrder(n, order, V, C, old, on, N, deg)
  BY DEF Shiftable
<1>0. C \in SUBSET Int /\ V \subseteq Vertices
  BY <1>s, TreeShape DEF Typed, Vertices
<1>1. /\ order \in [1 .. n -> V]
      /\ \A i, j \in 1 .. n : i # j => order[i] # order[j]
      /\ \A v \in V : old[v] \in Int /\ on[v] \in Nat /\ N[v] \in Int /\ deg[v] \in Nat
                      /\ (\A j \in 0 .. on[v] - 1 : old[v] + j \in C)
                      /\ (\A j \in 0 .. deg[v] - 1 : N[v] + j \in C)
  BY <1>s, Zenon DEF SafeOrder
<1>2. \A v \in V : old[v] = g.vertices_[v].index /\ deg[v] = g.vertices_[v].degree
                   /\ Splits(g, v, on[v], deg[v])
  BY <1>0, <1>s DEF Indices, Degrees
<1>t. \A v \in Vertices : \A j \in Nat : tail[<<v, j>>] = log_chain(g, v)[g.vertices_[v].degree - j]
  BY DEF Tails
<1>4. BlockSteps(n, A, C, order, old, on, N, deg, tail)
  <2> SUFFICES ASSUME NEW k \in 0 .. n - 1
               PROVE  BlockMoved(A[k], A[k + 1], C, order[k + 1], old, on, N, deg, tail)
    BY DEF BlockSteps
  <2> DEFINE v == order[k + 1]
             E == A[k]
             R == MergeLog(g, v, CopyCells(E, E, g.vertices_[v].index, N[v], on[v]), N[v])
  <2>1. k + 1 \in 1 .. n /\ k \in 0 .. n
    BY <1>s
  <2>2. v \in V /\ v \in Vertices
    BY <1>0, <1>1, <2>1
  <2>3. A[k + 1] = R
    BY DEF MoveSteps, MoveVertex
  <2>4. E \in [C -> CellValues(g)]
    BY <2>1 DEF Arrays
  <2> HIDE DEF v, C, V, old, deg, tail
  <2>5. /\ LogsTyped(g) /\ Splits(g, v, on[v], deg[v]) /\ old[v] = g.vertices_[v].index
        /\ deg[v] = g.vertices_[v].degree
        /\ old[v] \in Int /\ on[v] \in Nat /\ N[v] \in Int /\ deg[v] \in Nat /\ on[v] \in Int /\ on[v] <= on[v]
        /\ (\A j \in 0 .. on[v] - 1 : old[v] + j \in C)
        /\ (\A j \in 0 .. deg[v] - 1 : N[v] + j \in C)
    BY <1>1, <1>2, <1>s, <2>2 DEF Typed
  <2>6. \A j \in 0 .. deg[v] - 1 : tail[<<v, j>>] = log_chain(g, v)[deg[v] - j]
    <3> SUFFICES ASSUME NEW j \in 0 .. deg[v] - 1 PROVE tail[<<v, j>>] = log_chain(g, v)[deg[v] - j]
      OBVIOUS
    <3>1. j \in Nat
      BY <2>5
    <3> QED
      BY <1>t, <2>2, <2>5, <3>1
  <2>7. R = MergeLog(g, v, CopyCells(E, E, old[v], N[v], on[v]), N[v])
    BY <2>5
  <2> HIDE DEF E, R
  <2>8. /\ \A c \in C : c < N[v] \/ (on[v] = on[v] /\ N[v] + deg[v] <= c) => R[c] = E[c]
        /\ \A x \in 0 .. deg[v] - 1 :
             N[v] + x \in C /\ (x < on[v] => old[v] + x \in C) =>
               R[N[v] + x] = IF x < on[v] THEN E[old[v] + x] ELSE log_chain(g, v)[deg[v] - x]
    <3> DEFINE o == old[v]
               m == N[v]
               k0 == on[v]
               d == deg[v]
    <3>1. Splits(g, v, k0, d) /\ o \in Int /\ m \in Int /\ k0 \in Nat /\ k0 \in Int /\ k0 <= k0 /\ d \in Nat
          /\ LogsTyped(g)
      BY <2>5
    <3>2. R = MergeLog(g, v, CopyCells(E, E, o, m, k0), m)
      BY <2>7
    <3> HIDE DEF o, m, k0, d
    <3> DEFINE X == MergeLog(g, v, CopyCells(E, E, o, m, k0), m)
    <3>3. VertexAt(g, v, k0, d, C, C, E, E, o, m, k0, X)
      BY <1>0, <2>2, <2>4, <3>1, VertexArrives
    <3> HIDE DEF X
    <3>4. R = X
      BY <3>2 DEF X
    <3> QED
      BY <3>3, <3>4 DEF o, m, k0, d, VertexAt
  <2>9. ASSUME NEW j \in 0 .. deg[v] - 1 PROVE R[N[v] + j] = BlockCell(E, v, j, old, on, tail)
    <3>1. N[v] + j \in C /\ (j < on[v] => j \in 0 .. on[v] - 1)
      BY <2>5
    <3>2. j < on[v] => old[v] + j \in C
      BY <2>5, <3>1
    <3>3. R[N[v] + j] = IF j < on[v] THEN E[old[v] + j] ELSE log_chain(g, v)[deg[v] - j]
      BY <2>8, <3>1, <3>2
    <3> QED
      BY <2>6, <3>3 DEF BlockCell
  <2>10. \A c \in C : c < N[v] \/ N[v] + deg[v] <= c => R[c] = E[c]
    BY <2>8
  <2>11. BlockMoved(E, R, C, v, old, on, N, deg, tail)
    BY <2>9, <2>10 DEF BlockMoved
  <2> QED
    BY <2>3, <2>11 DEF v, E
<1> QED
  BY <1>4

\* Vertices moved in a safe order all arrive.
LEMMA MovesLand ==
  ASSUME NEW g, Typed(g), NEW a \in Nat, NEW b \in Nat, b <= num_vertices, NEW n \in Nat, b - a = n,
         NEW order, NEW N, NEW on, \A v \in a .. b - 1 : Splits(g, v, on[v], g.vertices_[v].degree),
         SafeOrder(n, order, a .. b - 1, 0 .. g.elem_capacity - 1, Indices(g), on, N, Degrees(g))
  PROVE  /\ \A v \in a .. b - 1 : Landed(g, v, on[v], N[v], Moved(g, order, N, on))
         /\ Elsewhere(g, a, b, N, Moved(g, order, N, on))
<1> DEFINE W == Arrays(g.elem_capacity, CellValues(g))
           C == 0 .. g.elem_capacity - 1
           V == a .. b - 1
           old == Indices(g)
           deg == Degrees(g)
           tail == Tails(g)
<1>0. C \in SUBSET Int /\ V \subseteq Vertices
  BY TreeShape DEF Typed, Vertices
<1>1. /\ order \in [1 .. n -> V]
      /\ \A i, j \in 1 .. n : i # j => order[i] # order[j]
      /\ \A v \in V : old[v] \in Int /\ on[v] \in Nat /\ N[v] \in Int /\ deg[v] \in Nat
                      /\ (\A j \in 0 .. on[v] - 1 : old[v] + j \in C)
                      /\ (\A j \in 0 .. deg[v] - 1 : N[v] + j \in C)
  BY Zenon DEF SafeOrder
<1>2. \A v \in V : old[v] = g.vertices_[v].index /\ deg[v] = g.vertices_[v].degree
                   /\ Splits(g, v, on[v], deg[v])
  BY <1>0 DEF Indices, Degrees
<1>3. PICK A \in [0 .. n -> W] : MoveSteps(g, order, N, on, n, A)
  <2>1. DOMAIN order = 1 .. n /\ \A k \in 1 .. n : order[k] \in Vertices
    BY <1>0, <1>1
  <2>2. MovesWithin(g, order, N, on, n, W)
    BY <2>1, MovesTyped
  <2>3. g.edges_ \in W
    BY ContentsHold
  <2> HIDE DEF W
  <2> QED
    BY <2>1, <2>2, <2>3, MovedIs DEF Typed
<1>4. BlockSteps(n, A, C, order, old, on, N, deg, tail)
  <2>1. Shiftable(g, a, b, n, order, N, on)
    BY DEF Shiftable
  <2>2. A \in [0 .. n -> Arrays(g.elem_capacity, CellValues(g))]
    BY <1>3
  <2> QED
    BY <1>3, <2>1, <2>2, StepsAreBlocks
<1>5. A[0] = g.edges_ /\ A[n] = Moved(g, order, N, on)
  BY <1>3 DEF MoveSteps
<1> HIDE DEF W, C, V, old, deg, tail
<1>6. /\ \A i \in 1 .. n : \A j \in 0 .. deg[order[i]] - 1 :
           A[n][N[order[i]] + j] = BlockCell(A[0], order[i], j, old, on, tail)
      /\ \A c \in C :
           (\A i \in 1 .. n : c < N[order[i]] \/ N[order[i]] + deg[order[i]] <= c)
             => A[n][c] = A[0][c]
  <2>1. SafeOrder(n, order, V, C, old, on, N, deg)
    BY DEF C, V, old, deg
  <2>2. BlocksThere(n, A, C, order, old, on, N, deg, tail)
    BY <1>0, <1>4, <2>1, BlocksArrive
  <2> QED
    BY <2>2 DEF BlocksThere
<1>7. \A v \in V : \E i \in 1 .. n : order[i] = v
  <2>1. a \in Int /\ b \in Int
    OBVIOUS
  <2>2. order \in [1 .. n -> a .. b - 1] /\ \A i, j \in 1 .. n : i # j => order[i] # order[j]
    BY <1>1 DEF V
  <2>3. OnceEach(order, n, a, b)
    BY <2>2 DEF OnceEach
  <2>4. n \in Nat /\ b - a = n
    OBVIOUS
  <2>5. \A v \in a .. b - 1 : \E i \in 1 .. n : order[i] = v
    BY ONLY <2>1, <2>3, <2>4, ReachesAll
  <2> QED
    BY <2>5 DEF V
<1>8. ASSUME NEW v \in V PROVE Landed(g, v, on[v], N[v], A[n])
  <2> SUFFICES ASSUME NEW j \in 0 .. g.vertices_[v].degree - 1
               PROVE  A[n][N[v] + j] = EdgeOf(g, v, on[v], j)
    BY DEF Landed
  <2>1. PICK i \in 1 .. n : order[i] = v
    BY <1>7
  <2>2. v \in Vertices /\ deg[v] = g.vertices_[v].degree /\ old[v] = g.vertices_[v].index /\ deg[v] \in Nat
    BY <1>0, <1>1, <1>2
  <2>3. A[n][N[v] + j] = BlockCell(g.edges_, v, j, old, on, tail)
    BY <1>5, <1>6, <2>1, <2>2
  <2>4. j \in Nat
    BY <2>2
  <2>5. tail[<<v, j>>] = log_chain(g, v)[g.vertices_[v].degree - j]
    BY <2>2, <2>4 DEF tail, Tails
  <2> QED
    BY <2>2, <2>3, <2>5 DEF BlockCell, EdgeOf
<1>9. Elsewhere(g, a, b, N, A[n])
  <2> SUFFICES ASSUME NEW c \in C,
                      \A v \in V : c < N[v] \/ N[v] + g.vertices_[v].degree <= c
               PROVE  A[n][c] = g.edges_[c]
    BY DEF Elsewhere, C, V
  <2>1. \A i \in 1 .. n : order[i] \in V
    BY <1>1
  <2>2. \A i \in 1 .. n : c < N[order[i]] \/ N[order[i]] + deg[order[i]] <= c
    BY <1>2, <2>1
  <2> QED
    BY <1>5, <1>6, <2>2
<1> QED
  BY <1>5, <1>8, <1>9 DEF V

-----------------------------------------------------------------------------
(***************************************************************************)
(* A rebalance loses no edge.                                              *)
(***************************************************************************)

\* Positions N keep the vertices a .. b - 1 in order, from where the first of
\* them is to before the cell end.
Fits(g, a, b, N, end) ==
  /\ N \in [a .. b - 1 -> Int] /\ N[a] = g.vertices_[a].index
  /\ \A i \in a .. b - 2 : N[i] + g.vertices_[i].degree <= N[i + 1]
  /\ N[b - 1] + g.vertices_[b - 1].degree <= end

\* Positions that fit lie before the end, and blocks of the degrees that start
\* there do not meet.
LEMMA FitsIs ==
  ASSUME NEW g, g.vertices_ \in [Vertices -> Entry],
         NEW a \in Nat, NEW b \in Nat, a < b, b <= num_vertices, NEW N, NEW end \in Int, Fits(g, a, b, N, end)
  PROVE  /\ \A v \in a .. b - 1 : /\ v \in Vertices /\ N[v] \in Int
                                  /\ N[a] <= N[v] /\ N[v] + g.vertices_[v].degree <= end
                                  /\ g.vertices_[v].degree \in Nat \ {0}
         /\ \A v, w \in a .. b - 1 : v < w => N[v] + g.vertices_[v].degree <= N[w]
<1> DEFINE d == Degrees(g)
<1>0. a .. b - 1 \subseteq Vertices /\ a \in Int /\ b \in Int /\ a \in a .. b - 1 /\ b - 1 \in a .. b - 1
  BY TreeShape DEF Vertices
<1>1. \A v \in a .. b - 1 : d[v] = g.vertices_[v].degree /\ d[v] \in Nat \ {0}
  BY <1>0 DEF Degrees, Entry
<1> HIDE DEF d
<1>2. (\A i \in a .. b - 1 : N[i] \in Int) /\ N[b - 1] + d[b - 1] <= end
  BY <1>0, <1>1 DEF Fits
<1>3. \A i \in a .. b - 2 : d[i] \in Nat /\ N[i] + d[i] <= N[i + 1]
  <2> SUFFICES ASSUME NEW i \in a .. b - 2 PROVE d[i] \in Nat /\ N[i] + d[i] <= N[i + 1]
    OBVIOUS
  <2>1. i \in a .. b - 1
    OBVIOUS
  <2> QED
    BY <1>1, <2>1 DEF Fits
<1>4. Ascends(N, d, a, b)
  BY <1>3 DEF Ascends
<1>5. \A v, w \in a .. b - 1 : v < w => N[v] + d[v] <= N[w]
  BY <1>0, <1>2, <1>3, <1>4, Ascending
<1>6. ASSUME NEW v \in a .. b - 1 PROVE N[a] <= N[v] /\ N[v] + d[v] <= end
  <2>1. a < v => N[a] + d[a] <= N[v]
    BY <1>0, <1>5
  <2>2. v < b - 1 => N[v] + d[v] <= N[b - 1]
    BY <1>0, <1>5
  <2>3. N[a] \in Int /\ N[v] \in Int /\ N[b - 1] \in Int /\ d[a] \in Nat /\ d[b - 1] \in Nat /\ d[v] \in Nat
    BY <1>0, <1>1, <1>2
  <2>4. a = v \/ a < v
    OBVIOUS
  <2>5. v = b - 1 \/ v < b - 1
    OBVIOUS
  <2>6. N[a] <= N[v]
    BY <2>1, <2>3, <2>4
  <2>7. N[v] + d[v] <= end
    BY <1>2, <2>2, <2>3, <2>5
  <2> QED
    BY <2>6, <2>7
<1> QED
  BY <1>0, <1>1, <1>2, <1>5, <1>6

\* The order of rebalance_data_V1 overwrites no cell before it has moved: inside
\* a group the vertices move to the right of the cells that are still to move,
\* and a group ends before the cells of the next one.
LEMMA MoveOrderSafe ==
  ASSUME NEW g, Typed(g), Sound(g), NEW a \in Nat, NEW b \in Nat, a < b, b <= num_vertices,
         NEW N, Fits(g, a, b, N, NextIndex(g, b - 1))
  PROVE  SafeOrder(b - a, MoveOrder(g, a, b, N), a .. b - 1, 0 .. g.elem_capacity - 1, Indices(g),
                   [v \in Vertices |-> onseg_edges(g, v)], N, Degrees(g))
<1> DEFINE order == MoveOrder(g, a, b, N)
           ends == Ends(g, a, b, N)
           V == a .. b - 1
           n == b - a
           C == 0 .. g.elem_capacity - 1
           old == Indices(g)
           on == [v \in Vertices |-> onseg_edges(g, v)]
           deg == Degrees(g)
           end == NextIndex(g, b - 1)
<1>0. V \subseteq Vertices /\ b - 1 \in V /\ a \in V /\ b - 1 \in Vertices /\ a \in Vertices
  BY TreeShape DEF Vertices
<1>1. \A v \in Vertices : old[v] = g.vertices_[v].index /\ deg[v] = g.vertices_[v].degree /\ on[v] = onseg_edges(g, v)
  BY DEF Indices, Degrees
<1>2. /\ order \in [1 .. n -> V]
      /\ \A i, j \in 1 .. n : i < j =>
           \/ \E e \in ends : order[i] <= e /\ e < order[j]
           \/ /\ order[j] < order[i]
              /\ \A e \in order[j] .. order[i] - 1 : e \notin ends
  BY MoveOrderIs
<1>3. g.elem_capacity \in Int /\ end \in Int /\ end <= g.elem_capacity /\ g.vertices_ \in [Vertices -> Entry]
  BY <1>0, SoundIs DEF Typed
<1>4. \A e : e \in ends <=> e \in V /\ (e = b - 1 \/ N[e] + g.vertices_[e].degree <= g.vertices_[e + 1].index)
  BY DEF Ends
<1> HIDE DEF order, ends, C, old, on, deg, end
<1>5. /\ \A v \in V : old[v] \in Int /\ 0 <= old[v] /\ on[v] \in Nat /\ on[v] <= deg[v] /\ deg[v] \in Nat
                      /\ old[v] + on[v] <= g.elem_capacity
      /\ \A v, w \in V : v < w => old[v] + on[v] <= old[w]
  <2>1. /\ \A v \in Vertices :
             /\ old[v] \in 0 .. g.elem_capacity - 1 /\ deg[v] \in Nat /\ on[v] \in Nat /\ on[v] <= deg[v]
             /\ old[v] + on[v] <= NextIndex(g, v) /\ NextIndex(g, v) \in Int /\ NextIndex(g, v) <= g.elem_capacity
        /\ \A v, w \in Vertices : v < w => old[v] + on[v] <= old[w]
    BY <1>1, SoundIs
  <2> SUFFICES ASSUME NEW v \in V PROVE /\ old[v] \in Int /\ 0 <= old[v] /\ old[v] + on[v] <= g.elem_capacity
    BY <1>0, <2>1
  <2>2. v \in Vertices
    BY <1>0
  <2> QED
    BY <1>3, <2>1, <2>2
<1>6. /\ \A v \in V : N[v] \in Int /\ old[a] <= N[v] /\ N[v] + deg[v] <= g.elem_capacity
      /\ \A v, w \in V : v < w => N[v] + deg[v] <= N[w]
  <2>1. Fits(g, a, b, N, end)
    BY DEF end
  <2>2. /\ \A v \in V : N[v] \in Int /\ N[a] <= N[v] /\ N[v] + g.vertices_[v].degree <= end
        /\ \A v, w \in V : v < w => N[v] + g.vertices_[v].degree <= N[w]
    BY <1>3, <2>1, FitsIs
  <2>3. N[a] = old[a]
    BY <1>0, <1>1 DEF Fits
  <2> SUFFICES ASSUME NEW v \in V
               PROVE  /\ N[v] \in Int /\ old[a] <= N[v] /\ N[v] + deg[v] <= g.elem_capacity
                      /\ \A w \in V : v < w => N[v] + deg[v] <= N[w]
    OBVIOUS
  <2>4. v \in Vertices /\ deg[v] = g.vertices_[v].degree /\ deg[v] \in Nat
    BY <1>0, <1>1, <1>5
  <2>5. N[v] \in Int /\ N[v] + deg[v] <= end
    BY <2>2, <2>4
  <2> QED
    BY <1>3, <2>2, <2>3, <2>4, <2>5
<1>7. ASSUME NEW v \in V, NEW w \in V, NEW e \in ends, v <= e, e < w
      PROVE  N[v] + deg[v] <= old[w]
  <2>1. e \in V /\ e # b - 1 /\ e + 1 \in V /\ N[e] + deg[e] <= old[e + 1]
    <3>1. e \in V /\ e \in Int /\ w \in Int /\ w <= b - 1
      BY <1>4
    <3>2. e # b - 1 /\ e + 1 \in V
      BY <1>7, <3>1
    <3> QED
      BY <1>0, <1>1, <1>4, <3>1, <3>2
  <2>2. v = e \/ v < e
    BY <1>7, <2>1
  <2>3. e + 1 = w \/ e + 1 < w
    BY <1>7, <2>1
  <2>4. N[v] + deg[v] <= N[e] + deg[e]
    BY <1>5, <1>6, <2>1, <2>2
  <2>5. old[e + 1] <= old[w]
    BY <1>5, <2>1, <2>3
  <2>6. N[v] \in Int /\ deg[v] \in Nat /\ N[e] \in Int /\ deg[e] \in Nat /\ old[e + 1] \in Int /\ old[w] \in Int
    BY <1>5, <1>6, <2>1
  <2> QED
    BY <2>1, <2>4, <2>5, <2>6
<1>8. ASSUME NEW v \in V, NEW w \in V, w < v, w \notin ends
      PROVE  old[w] + on[w] <= N[v]
  <2>1. w # b - 1 /\ w + 1 \in V
    BY <1>8
  <2>2. ~(N[w] + deg[w] <= old[w + 1])
    BY <1>0, <1>1, <1>4, <1>8, <2>1
  <2>3. old[w] + on[w] <= old[w + 1]
    <3>1. w < w + 1
      OBVIOUS
    <3> QED
      BY <1>5, <2>1, <3>1
  <2>4. N[w] + deg[w] <= N[v]
    BY <1>6, <1>8
  <2>5. N[v] \in Int /\ deg[w] \in Nat /\ N[w] \in Int /\ old[w + 1] \in Int /\ old[w] \in Int /\ on[w] \in Nat
    BY <1>5, <1>6, <2>1
  <2> QED
    BY <2>2, <2>3, <2>4, <2>5
<1>9. \A v \in V : /\ old[v] \in Int /\ on[v] \in Nat /\ N[v] \in Int /\ deg[v] \in Nat /\ on[v] <= deg[v]
                   /\ \A j \in 0 .. deg[v] - 1 : N[v] + j \in C
                   /\ \A j \in 0 .. on[v] - 1 : old[v] + j \in C
  <2> SUFFICES ASSUME NEW v \in V
               PROVE  /\ \A j \in 0 .. deg[v] - 1 : N[v] + j \in C
                      /\ \A j \in 0 .. on[v] - 1 : old[v] + j \in C
    BY <1>5, <1>6
  <2>1. old[v] \in Int /\ 0 <= old[v] /\ on[v] \in Nat /\ deg[v] \in Nat /\ old[v] + on[v] <= g.elem_capacity
        /\ N[v] \in Int /\ N[v] + deg[v] <= g.elem_capacity /\ 0 <= N[v]
    <3>1. 0 <= old[a] /\ old[a] \in Int /\ old[a] <= N[v] /\ N[v] \in Int
      BY <1>0, <1>5, <1>6
    <3> QED
      BY <1>5, <1>6, <3>1
  <2> QED
    BY <1>3, <2>1 DEF C
<1>10. \A i, j \in 1 .. n : i # j => order[i] # order[j]
  <2> SUFFICES ASSUME NEW i \in 1 .. n, NEW j \in 1 .. n, i < j PROVE order[i] # order[j]
    OBVIOUS
  <2>1. order[i] \in Int /\ order[j] \in Int
    BY <1>2
  <2>2. \A e \in ends : e \in Int
    BY <1>4
  <2> QED
    BY <1>2, <2>1, <2>2
<1>11. \A v, w \in V : v # w => N[v] + deg[v] <= N[w] \/ N[w] + deg[w] <= N[v]
  <2> SUFFICES ASSUME NEW v \in V, NEW w \in V, v # w PROVE N[v] + deg[v] <= N[w] \/ N[w] + deg[w] <= N[v]
    OBVIOUS
  <2>1. v < w \/ w < v
    OBVIOUS
  <2> QED
    BY <1>6, <2>1
<1>12. \A i, j \in 1 .. n : i < j =>
         \/ old[order[j]] + on[order[j]] <= N[order[i]]
         \/ N[order[i]] + deg[order[i]] <= old[order[j]]
  <2> SUFFICES ASSUME NEW i \in 1 .. n, NEW j \in 1 .. n, i < j
               PROVE  \/ old[order[j]] + on[order[j]] <= N[order[i]]
                      \/ N[order[i]] + deg[order[i]] <= old[order[j]]
    OBVIOUS
  <2>1. order[i] \in V /\ order[j] \in V
    BY <1>2
  <2>2. CASE \E e \in ends : order[i] <= e /\ e < order[j]
    BY <1>7, <2>1, <2>2
  <2>3. CASE order[j] < order[i] /\ \A e \in order[j] .. order[i] - 1 : e \notin ends
    <3>1. order[j] \in order[j] .. order[i] - 1
      BY <2>1, <2>3
    <3> QED
      BY <1>8, <2>1, <2>3, <3>1
  <2> QED
    BY <1>2, <2>2, <2>3
<1>13. SafeOrder(n, order, V, C, old, on, N, deg)
  BY <1>2, <1>9, <1>10, <1>11, <1>12 DEF SafeOrder
<1> QED
  BY <1>13 DEF order, C, old, on, deg

\* Graph h has the edges of g, in the same order.
SameEdges(g, h) ==
  \A v \in Vertices :
    /\ h.vertices_[v].degree = g.vertices_[v].degree
    /\ \A j \in 0 .. g.vertices_[v].degree - 1 : EdgeAt(h, v, j) = EdgeAt(g, v, j)

\* A vertex without edges in the log has as many cells as edges.
LEMMA AllInCells ==
  ASSUME NEW g, LogsTyped(g), NEW v \in Vertices, g.vertices_[v].offset = -1
  PROVE  onseg_edges(g, v) = g.vertices_[v].degree /\ Len(log_chain(g, v)) = 0
<1>1. log_chain(g, v) = <<>>
  BY ChainOfVertex
<1>2. Len(<<>>) = 0
  BY EmptyLinked
<1> QED
  BY <1>1, <1>2 DEF onseg_edges

\* A rebalance whose positions fit its window keeps every vertex whole, and every
\* edge in its place of the list.
LEMMA RebalanceSound ==
  ASSUME NEW g, Typed(g), Sound(g), NEW left \in Leaves, NEW right \in 1 .. leaf_count, left < right,
         NEW N, Fits(g, first(left), first(right), N, NextIndex(g, first(right) - 1)),
         NEW h, Rebalanced(g, left, right, N, h)
  PROVE  Sound(h) /\ SameEdges(g, h)
<1> DEFINE a == first(left)
           b == first(right)
           V == a .. b - 1
           on == [v \in Vertices |-> onseg_edges(g, v)]
           end == NextIndex(g, b - 1)
<1>0. /\ a \in Nat /\ b \in Nat /\ a < b /\ b <= num_vertices /\ num_vertices \in Nat \ {0}
      /\ V \subseteq Vertices /\ Vertices = 0 .. num_vertices - 1 /\ b - 1 \in V /\ b - 1 \in Vertices /\ a \in V
      /\ 0 \in Vertices
  <2>1. a \in Vertices /\ b \in 0 .. num_vertices /\ a < b /\ num_vertices \in Nat \ {0}
    BY WindowOfLeaves, TreeShape
  <2> HIDE DEF a, b
  <2> QED
    BY <2>1 DEF Vertices
<1>1. \A v \in Vertices : v \in V <=> left <= SegmentOf(v) /\ SegmentOf(v) < right
  <2>1. \A v \in Vertices : a <= v /\ v < b <=> left <= SegmentOf(v) /\ SegmentOf(v) < right
    BY WindowOfLeaves
  <2> HIDE DEF a, b
  <2> QED
    BY <1>0, <2>1
<1>2. /\ Typed(h) /\ h.elem_capacity = g.elem_capacity
      /\ h.vertices_ = [v \in Vertices |-> IF a <= v /\ v < b THEN MovedTo(g.vertices_[v], N[v]) ELSE g.vertices_[v]]
      /\ h.log_ = [s \in Leaves |-> IF left <= s /\ s < right THEN <<>> ELSE g.log_[s]]
      /\ h.edges_ = Moved(g, MoveOrder(g, a, b, N), N, on)
  BY DEF Rebalanced
<1>3. Fits(g, a, b, N, end)
  OBVIOUS
<1> HIDE DEF a, b
<1>4. \A v \in Vertices : v \in V <=> a <= v /\ v < b
  BY <1>0
<1>5. \A v \in V : /\ h.vertices_[v].index = N[v] /\ h.vertices_[v].degree = g.vertices_[v].degree
                   /\ h.vertices_[v].offset = -1
  BY <1>0, <1>2, <1>4 DEF MovedTo
<1>6. \A v \in Vertices \ V : h.vertices_[v] = g.vertices_[v]
  BY <1>2, <1>4
<1>7. end \in Int /\ g.vertices_ \in [Vertices -> Entry]
  BY <1>0, SoundIs DEF Typed
<1>8. /\ \A v \in V : on[v] \in Nat \ {0} /\ on[v] = onseg_edges(g, v)
                      /\ Splits(g, v, on[v], g.vertices_[v].degree)
  <2>1. \A v \in Vertices : onseg_edges(g, v) \in Nat \ {0} /\ onseg_edges(g, v) <= g.vertices_[v].degree
                            /\ Len(log_chain(g, v)) = g.vertices_[v].degree - onseg_edges(g, v)
    BY SoundIs DEF Sound, InPlace
  <2> QED
    BY <1>0, <2>1 DEF Splits
<1>9. /\ \A v \in V : Landed(g, v, on[v], N[v], h.edges_)
      /\ Elsewhere(g, a, b, N, h.edges_)
  <2>1. SafeOrder(b - a, MoveOrder(g, a, b, N), V, 0 .. g.elem_capacity - 1, Indices(g), on, N, Degrees(g))
    BY <1>0, <1>3, MoveOrderSafe
  <2>2. b - a \in Nat
    BY <1>0
  <2> HIDE DEF on
  <2> QED
    BY <1>0, <1>2, <1>8, <2>1, <2>2, MovesLand
<1> HIDE DEF on, end, V
<1>10. /\ \A v \in V : v \in Vertices /\ N[v] \in Int /\ N[a] <= N[v] /\ N[v] + g.vertices_[v].degree <= end
                       /\ g.vertices_[v].degree \in Nat \ {0}
       /\ \A v, w \in V : v < w => N[v] + g.vertices_[v].degree <= N[w]
  BY <1>0, <1>3, <1>7, FitsIs DEF V
<1>11. N[a] = g.vertices_[a].index
  BY <1>3 DEF Fits
<1>12. /\ \A v \in Vertices : /\ g.vertices_[v].index \in 0 .. g.elem_capacity - 1
                              /\ g.vertices_[v].degree \in Nat \ {0} /\ onseg_edges(g, v) \in Nat \ {0}
                              /\ g.vertices_[v].index + onseg_edges(g, v) <= NextIndex(g, v)
                              /\ NextIndex(g, v) \in Int /\ NextIndex(g, v) <= g.elem_capacity
       /\ \A v, w \in Vertices : v < w =>
              /\ g.vertices_[v].index + onseg_edges(g, v) <= g.vertices_[w].index
              /\ NextIndex(g, v) <= g.vertices_[w].index
  BY SoundIs
<1>13. ASSUME NEW v \in V
       PROVE  /\ onseg_edges(h, v) = g.vertices_[v].degree /\ Len(log_chain(h, v)) = 0
              /\ N[v] + g.vertices_[v].degree <= NextIndex(h, v)
  <2>a. v \in Vertices /\ h.vertices_[v].offset = -1
    BY <1>5, <1>10
  <2>b. LogsTyped(h)
    BY <1>2 DEF Typed
  <2>1. LogsTyped(h) /\ v \in Vertices /\ h.vertices_[v].offset = -1 /\ v \in Int
    BY <1>0, <2>a, <2>b
  <2>2. onseg_edges(h, v) = g.vertices_[v].degree /\ Len(log_chain(h, v)) = 0
    BY <1>5, <2>1, AllInCells
  <2>3. CASE v = b - 1
    <3>1. NextIndex(h, v) = end
      <4>1. CASE v >= num_vertices - 1
        BY <1>2, <2>3, <4>1 DEF NextIndex, end
      <4>2. CASE ~(v >= num_vertices - 1)
        <5>1. v + 1 \in Vertices /\ v + 1 \notin V
          BY <1>0, <2>1, <2>3, <4>2 DEF V
        <5> QED
          BY <1>6, <2>3, <4>2, <5>1 DEF NextIndex, end
      <4> QED
        BY <4>1, <4>2
    <3> QED
      BY <1>10, <2>2, <3>1
  <2>4. CASE v # b - 1
    <3>1. v + 1 \in V /\ v < v + 1 /\ ~(v >= num_vertices - 1)
      BY <1>0, <2>1, <2>4 DEF V
    <3>2. NextIndex(h, v) = N[v + 1]
      BY <1>5, <3>1 DEF NextIndex
    <3> QED
      BY <1>10, <2>2, <3>1, <3>2
  <2> QED
    BY <2>2, <2>3, <2>4
<1>14. ASSUME NEW v \in Vertices \ V
       PROVE  /\ NextIndex(h, v) = NextIndex(g, v) /\ onseg_edges(h, v) = onseg_edges(g, v)
              /\ log_chain(h, v) = log_chain(g, v)
              /\ \A j \in 0 .. onseg_edges(g, v) - 1 :
                   h.edges_[g.vertices_[v].index + j] = g.edges_[g.vertices_[v].index + j]
  <2>0. h.vertices_[v] = g.vertices_[v] /\ v \in Int
    BY <1>0, <1>6
  <2>1. NextIndex(h, v) = NextIndex(g, v)
    <3>1. CASE v >= num_vertices - 1
      BY <1>2, <3>1 DEF NextIndex
    <3>2. CASE ~(v >= num_vertices - 1)
      <4>1. v + 1 \in Vertices
        BY <1>0, <2>0, <3>2
      <4>2. v + 1 \in V => v + 1 = a
        BY <1>0, <2>0 DEF V
      <4>3. h.vertices_[v + 1].index = g.vertices_[v + 1].index
        BY <1>5, <1>6, <1>11, <4>1, <4>2
      <4> QED
        BY <3>2, <4>3 DEF NextIndex
    <3> QED
      BY <3>1, <3>2
  <2>2. onseg_edges(h, v) = onseg_edges(g, v)
    BY <2>0, <2>1 DEF onseg_edges
  <2>3. log_chain(h, v) = log_chain(g, v)
    <3>1. SegmentOf(v) \in Leaves /\ ~(left <= SegmentOf(v) /\ SegmentOf(v) < right)
      BY <1>1, LeafOfVertex
    <3>2. h.log_[SegmentOf(v)] = g.log_[SegmentOf(v)]
      BY <1>2, <3>1
    <3> QED
      BY <2>0, <3>2, LogChainIs
  <2>4. ASSUME NEW j \in 0 .. onseg_edges(g, v) - 1
        PROVE  h.edges_[g.vertices_[v].index + j] = g.edges_[g.vertices_[v].index + j]
    <3> DEFINE i == g.vertices_[v].index
               k == onseg_edges(g, v)
               e == g.elem_capacity
    <3>1. i \in Int /\ 0 <= i /\ k \in Nat /\ i + k <= NextIndex(g, v) /\ NextIndex(g, v) \in Int
          /\ NextIndex(g, v) <= e /\ e \in Int
      <4>1. i \in 0 .. e - 1 /\ e \in Int
        BY <1>12 DEF Typed
      <4>2. k \in Nat /\ i + k <= NextIndex(g, v) /\ NextIndex(g, v) \in Int /\ NextIndex(g, v) <= e
        BY <1>12
      <4> HIDE DEF i, k, e
      <4> QED
        BY <4>1, <4>2
    <3>2. ASSUME NEW w \in V PROVE i + j < N[w] \/ N[w] + g.vertices_[w].degree <= i + j
      <4>1. v < a \/ b <= v
        BY <1>0, <2>0 DEF V
      <4>2. v < a => i + k <= g.vertices_[a].index /\ g.vertices_[a].index \in Int
        <5>1. a \in Vertices
          BY <1>0
        <5>2. v < a => i + k <= g.vertices_[a].index
          BY <1>12, <5>1
        <5>3. g.vertices_[a].index \in 0 .. g.elem_capacity - 1 /\ g.elem_capacity \in Int
          BY <1>12, <5>1 DEF Typed
        <5> QED
          BY <5>2, <5>3
      <4>3. b <= v => end <= i
        <5>1. b <= v => b - 1 < v
          BY <1>0, <2>0
        <5> QED
          BY <1>0, <1>12, <5>1 DEF end
      <4>4. N[w] \in Int /\ g.vertices_[w].degree \in Nat /\ N[a] <= N[w] /\ N[w] + g.vertices_[w].degree <= end
        BY <1>10
      <4>5. j \in Int /\ 0 <= j /\ j < k
        BY <3>1
      <4> HIDE DEF i, k
      <4> QED
        BY <1>7, <1>11, <3>1, <4>1, <4>2, <4>3, <4>4, <4>5
    <3>3. i + j \in 0 .. e - 1
      <4>1. j \in Int /\ 0 <= j /\ j < k
        BY <3>1
      <4> HIDE DEF i, k, e
      <4> QED
        BY <3>1, <4>1
    <3> QED
      BY <1>9, <3>2, <3>3 DEF Elsewhere, V
  <2> QED
    BY <2>1, <2>2, <2>3, <2>4
<1>15. ASSUME NEW v \in V
       PROVE  /\ \A j \in 0 .. g.vertices_[v].degree - 1 : EdgeAt(h, v, j) = EdgeAt(g, v, j)
              /\ h.edges_[N[v]] = g.edges_[g.vertices_[v].index]
  <2>1. g.vertices_[v].degree \in Nat \ {0} /\ N[v] \in Int /\ v \in Vertices
        /\ on[v] \in Nat \ {0} /\ on[v] = onseg_edges(g, v) /\ g.vertices_[v].index \in Int
    BY <1>8, <1>10, <1>12
  <2>2. \A j \in 0 .. g.vertices_[v].degree - 1 : h.edges_[N[v] + j] = EdgeAt(g, v, j)
    BY <1>9, <2>1 DEF Landed, EdgeOf, EdgeAt
  <2>3. ASSUME NEW j \in 0 .. g.vertices_[v].degree - 1 PROVE EdgeAt(h, v, j) = EdgeAt(g, v, j)
    <3>1. j < onseg_edges(h, v)
      BY <1>13, <2>1
    <3> QED
      BY <1>5, <2>2, <3>1 DEF EdgeAt
  <2>4. h.edges_[N[v]] = g.edges_[g.vertices_[v].index]
    <3>1. 0 \in 0 .. g.vertices_[v].degree - 1 /\ N[v] + 0 = N[v] /\ 0 < onseg_edges(g, v)
          /\ g.vertices_[v].index + 0 = g.vertices_[v].index
      BY <2>1
    <3> QED
      BY <2>2, <3>1 DEF EdgeAt
  <2> QED
    BY <2>3, <2>4
<1>16. ASSUME NEW v \in Vertices PROVE InPlace(h, v)
  <2>1. InPlace(g, v)
    BY DEF Sound
  <2>2. CASE v \in V
    <3>1. g.vertices_[v].degree \in Nat \ {0} /\ g.vertices_[v].degree - g.vertices_[v].degree = 0
      BY <1>12
    <3>2. g.edges_[g.vertices_[v].index] = -v
      BY <2>1 DEF InPlace
    <3> QED
      BY <1>5, <1>13, <1>15, <2>2, <3>1, <3>2 DEF InPlace
  <2>3. CASE v \notin V
    <3>1. 0 \in 0 .. onseg_edges(g, v) - 1 /\ g.vertices_[v].index + 0 = g.vertices_[v].index
      BY <1>12
    <3>2. h.edges_[g.vertices_[v].index] = g.edges_[g.vertices_[v].index]
      BY <1>14, <2>3, <3>1
    <3>3. h.vertices_[v] = g.vertices_[v]
      BY <1>6, <2>3
    <3> QED
      BY <1>14, <2>1, <2>3, <3>2, <3>3 DEF InPlace
  <2> QED
    BY <2>2, <2>3
<1>17. h.vertices_[0].index = 0
  <2>1. g.vertices_[0].index = 0
    BY DEF Sound
  <2>2. 0 \in V => 0 = a
    BY <1>0 DEF V
  <2> QED
    BY <1>0, <1>5, <1>6, <1>11, <2>1, <2>2
<1>18. ASSUME NEW v \in Vertices
       PROVE  /\ h.vertices_[v].degree = g.vertices_[v].degree
              /\ \A j \in 0 .. g.vertices_[v].degree - 1 : EdgeAt(h, v, j) = EdgeAt(g, v, j)
  <2>1. CASE v \in V
    BY <1>5, <1>15, <2>1
  <2>2. CASE v \notin V
    <3>1. h.vertices_[v] = g.vertices_[v]
      BY <1>6, <2>2
    <3>2. onseg_edges(h, v) = onseg_edges(g, v) /\ log_chain(h, v) = log_chain(g, v)
          /\ \A j \in 0 .. onseg_edges(g, v) - 1 :
                   h.edges_[g.vertices_[v].index + j] = g.edges_[g.vertices_[v].index + j]
      BY <1>14, <2>2
    <3>3. ASSUME NEW j \in 0 .. g.vertices_[v].degree - 1 PROVE EdgeAt(h, v, j) = EdgeAt(g, v, j)
      <4>1. j < onseg_edges(g, v) => j \in 0 .. onseg_edges(g, v) - 1
        BY <1>12
      <4> QED
        BY <3>1, <3>2, <4>1 DEF EdgeAt
    <3> QED
      BY <3>1, <3>3
  <2> QED
    BY <2>1, <2>2
<1> QED
  BY <1>16, <1>17, <1>18 DEF Sound, SameEdges

-----------------------------------------------------------------------------
(***************************************************************************)
(* An insertion adds one edge.                                             *)
(***************************************************************************)

\* Graph h has the edges of g and, after the others of src, one more to dst.
OneEdgeMore(g, src, dst, h) ==
  /\ \A v \in Vertices :
       /\ h.vertices_[v].degree = IF v = src THEN g.vertices_[v].degree + 1 ELSE g.vertices_[v].degree
       /\ \A j \in 0 .. g.vertices_[v].degree - 1 : EdgeAt(h, v, j) = EdgeAt(g, v, j)
  /\ EdgeAt(h, src, g.vertices_[src].degree) = dst

\* A vertex that the insertion does not touch.
LEMMA Untouched ==
  ASSUME NEW g, Typed(g), Sound(g), NEW h, NEW v \in Vertices, h.vertices_[v] = g.vertices_[v],
         NextIndex(h, v) = NextIndex(g, v), log_chain(h, v) = log_chain(g, v),
         \A j \in 0 .. onseg_edges(g, v) - 1 :
           h.edges_[g.vertices_[v].index + j] = g.edges_[g.vertices_[v].index + j]
  PROVE  InPlace(h, v) /\ \A j \in 0 .. g.vertices_[v].degree - 1 : EdgeAt(h, v, j) = EdgeAt(g, v, j)
<1>1. onseg_edges(h, v) = onseg_edges(g, v)
  BY DEF onseg_edges
<1>2. onseg_edges(g, v) \in Nat \ {0} /\ g.vertices_[v].degree \in Nat /\ g.vertices_[v].index \in Int
  BY SoundIs
<1>3. InPlace(g, v)
  BY DEF Sound
<1>4. InPlace(h, v)
  <2>1. 0 \in 0 .. onseg_edges(g, v) - 1 /\ g.vertices_[v].index + 0 = g.vertices_[v].index
    BY <1>2
  <2>2. h.edges_[g.vertices_[v].index] = g.edges_[g.vertices_[v].index]
    BY <2>1
  <2> QED
    BY <1>1, <1>3, <2>2 DEF InPlace
<1>5. ASSUME NEW j \in 0 .. g.vertices_[v].degree - 1 PROVE EdgeAt(h, v, j) = EdgeAt(g, v, j)
  <2>1. j < onseg_edges(g, v) => j \in 0 .. onseg_edges(g, v) - 1
    BY <1>2
  <2> QED
    BY <1>1, <2>1 DEF EdgeAt
<1> QED
  BY <1>4, <1>5

\* do_insertion, after the rebalance it may begin with, keeps every vertex whole
\* and adds the edge at the end of the list of its source, whether it goes to a
\* cell or to the log.
LEMMA InsertSound ==
  ASSUME NEW g, Typed(g), Sound(g), NEW src \in Vertices, NEW dst, NEW h, Inserted(g, src, dst, h)
  PROVE  Sound(h) /\ OneEdgeMore(g, src, dst, h)
<1> DEFINE s == SegmentOf(src)
           x == g.vertices_[src].index
           d == g.vertices_[src].degree
           k == onseg_edges(g, src)
           m == NextIndex(g, src)
           e == g.elem_capacity
           loc == NextCell(g, src)
           entry == [u |-> src, v |-> dst, prev_offset |-> g.vertices_[src].offset]
           chain == log_chain(g, src)
           has == have_space_onseg(g, src, loc)
<1>0. /\ s \in Leaves /\ Vertices = 0 .. num_vertices - 1 /\ num_vertices \in Nat
      /\ g.vertices_ \in [Vertices -> Entry] /\ LogsTyped(g) /\ LogsTyped(h)
      /\ g.edges_ = [c \in 0 .. e - 1 |-> g.edges_[c]]
      /\ e \in Int /\ h.elem_capacity = e /\ g.log_ = [r \in Leaves |-> g.log_[r]]
      /\ loc = x + d /\ (has <=> m > loc)
  <2>1. s \in Leaves /\ Vertices = 0 .. num_vertices - 1 /\ num_vertices \in Nat
    BY LeafOfVertex, TreeShape DEF Vertices
  <2>2. g.vertices_ \in [Vertices -> Entry] /\ LogsTyped(g) /\ e \in Int
    BY DEF Typed
  <2>3. LogsTyped(h) /\ h.elem_capacity = e
    BY DEF Inserted, Typed
  <2>4. g.edges_ = [c \in 0 .. e - 1 |-> g.edges_[c]]
    BY DEF Typed, Arrays
  <2>5. g.log_ = [r \in Leaves |-> g.log_[r]]
    BY DEF Typed, GraphShape
  <2>6. loc = x + d /\ (has <=> m > loc)
    BY DEF NextCell, have_space_onseg
  <2> QED
    BY <2>1, <2>2, <2>3, <2>4, <2>5, <2>6
<1>1. /\ \A v \in Vertices : /\ g.vertices_[v].index \in 0 .. e - 1 /\ g.vertices_[v].degree \in Nat \ {0}
                             /\ onseg_edges(g, v) \in Nat \ {0} /\ onseg_edges(g, v) <= g.vertices_[v].degree
                             /\ g.vertices_[v].index + onseg_edges(g, v) <= NextIndex(g, v)
                             /\ NextIndex(g, v) \in Int /\ NextIndex(g, v) <= e
      /\ \A v, w \in Vertices : v < w =>
            /\ g.vertices_[v].index + onseg_edges(g, v) <= g.vertices_[w].index
            /\ NextIndex(g, v) <= g.vertices_[w].index
  BY SoundIs
<1>2. /\ x \in Int /\ 0 <= x /\ d \in Nat \ {0} /\ k \in Nat \ {0} /\ k <= d /\ x + k <= m /\ m \in Int /\ m <= e
      /\ (g.vertices_[src].offset # -1 => k = m - x) /\ (g.vertices_[src].offset = -1 => k = d)
  <2>1. x \in 0 .. e - 1 /\ d \in Nat \ {0} /\ k \in Nat \ {0} /\ k <= d /\ x + k <= m /\ m \in Int /\ m <= e
    BY <1>1
  <2>2. (g.vertices_[src].offset # -1 => k = m - x) /\ (g.vertices_[src].offset = -1 => k = d)
    BY DEF onseg_edges
  <2> HIDE DEF x, d, k, m, e
  <2> QED
    BY <1>0, <2>1, <2>2
<1>3. InPlace(g, src)
  BY DEF Sound
<1>4. Len(chain) = d - k /\ chain \in Seq(LogValues(g.log_[s]))
  BY <1>0, <1>3, ChainOfVertex DEF InPlace
<1>5. \A v \in Vertices \ {src} : h.vertices_[v] = g.vertices_[v]
  BY <1>0 DEF Inserted
<1>6. h.vertices_[src].index = x /\ h.vertices_[src].degree = d + 1
  BY <1>0 DEF Inserted
<1>7. ASSUME NEW v \in Vertices PROVE NextIndex(h, v) = NextIndex(g, v)
  <2>1. CASE v >= num_vertices - 1
    BY <1>0, <2>1 DEF NextIndex
  <2>2. CASE ~(v >= num_vertices - 1)
    <3>1. v + 1 \in Vertices
      BY <1>0, <2>2
    <3> QED
      BY <1>5, <1>6, <2>2, <3>1 DEF NextIndex
  <2> QED
    BY <2>1, <2>2
<1>8. ASSUME has PROVE Sound(h) /\ OneEdgeMore(g, src, dst, h)
  <2>1. g.vertices_[src].offset = -1 /\ k = d /\ loc < m
    <3> HIDE DEF x, d, k, m, e, loc, has
    <3> QED
      BY <1>0, <1>2, <1>8
  <2>2. /\ h.edges_ = [g.edges_ EXCEPT ![loc] = dst] /\ h.log_ = g.log_
        /\ h.vertices_[src].offset = -1
    BY <1>0, <1>8, <2>1 DEF Inserted
  <2>3. \A v \in Vertices : log_chain(h, v) = log_chain(g, v)
    BY <1>5, <2>1, <2>2, LogChainIs
  <2>4. \A c \in 0 .. e - 1 : h.edges_[c] = IF c = loc THEN dst ELSE g.edges_[c]
    BY <1>0, <2>2
  <2>5. loc \in 0 .. e - 1
    <3> HIDE DEF x, d, k, m, e, loc, has
    <3> QED
      BY <1>0, <1>2, <2>1
  <2>6. ASSUME NEW v \in Vertices, v # src
        PROVE  InPlace(h, v) /\ \A j \in 0 .. g.vertices_[v].degree - 1 : EdgeAt(h, v, j) = EdgeAt(g, v, j)
    <3> SUFFICES ASSUME NEW j \in 0 .. onseg_edges(g, v) - 1
                 PROVE  h.edges_[g.vertices_[v].index + j] = g.edges_[g.vertices_[v].index + j]
      BY <1>5, <1>7, <2>3, <2>6, Untouched
    <3> DEFINE y == g.vertices_[v].index
               q == onseg_edges(g, v)
               c == y + j
    <3>1. y \in 0 .. e - 1 /\ q \in Nat /\ y + q <= NextIndex(g, v) /\ NextIndex(g, v) \in Int /\ NextIndex(g, v) <= e
      BY <1>1
    <3>2. v < src => y + q <= x
      BY <1>1
    <3>3. src < v => m <= y
      BY <1>1
    <3>4. v < src \/ src < v
      BY <1>0, <2>6
    <3> HIDE DEF y, q, x, d, k, m, e, loc, has
    <3>5. j \in Int /\ 0 <= j /\ j < q
      BY <3>1 DEF q
    <3>6. c \in 0 .. e - 1 /\ c # loc
      BY <1>0, <1>2, <2>1, <3>1, <3>2, <3>3, <3>4, <3>5
    <3> QED
      BY <2>4, <3>6 DEF y
  <2>7. onseg_edges(h, src) = d + 1 /\ Len(log_chain(h, src)) = 0
    BY <1>0, <1>6, <2>2, AllInCells
  <2>8. x # loc /\ \A j \in 0 .. d - 1 : x + j \in 0 .. e - 1 /\ x + j # loc /\ j < d + 1 /\ j < k
    <3> HIDE DEF x, d, k, m, e, loc, has
    <3> QED
      BY <1>0, <1>2, <2>1
  <2>9. InPlace(h, src)
    <3>1. h.edges_[x] = g.edges_[x]
      BY <1>1, <2>4, <2>8
    <3>2. g.edges_[x] = -src
      BY <1>3 DEF InPlace
    <3>3. d + 1 >= 1 /\ x + (d + 1) <= m /\ 0 = (d + 1) - (d + 1)
      <4> HIDE DEF x, d, k, m, e, loc, has
      <4> QED
        BY <1>0, <1>2, <2>1
    <3>4. NextIndex(h, src) = m
      BY <1>7
    <3> QED
      BY <1>6, <2>7, <3>1, <3>2, <3>3, <3>4 DEF InPlace
  <2>10. \A j \in 0 .. d - 1 : EdgeAt(h, src, j) = EdgeAt(g, src, j)
    BY <1>6, <2>4, <2>7, <2>8 DEF EdgeAt
  <2>11. EdgeAt(h, src, d) = dst
    <3>1. d < d + 1 /\ x + d = loc
      BY <1>0, <1>2
    <3> QED
      BY <1>6, <2>4, <2>5, <2>7, <3>1 DEF EdgeAt
  <2>12. h.vertices_[0].index = 0
    BY <1>0, <1>5, <1>6 DEF Sound
  <2> QED
    BY <1>5, <1>6, <2>6, <2>9, <2>10, <2>11, <2>12 DEF Sound, OneEdgeMore
<1>9. ASSUME ~has PROVE Sound(h) /\ OneEdgeMore(g, src, dst, h)
  <2> DEFINE log == g.log_[s]
  <2>1. k = m - x
    <3>1. g.vertices_[src].offset = -1 \/ g.vertices_[src].offset # -1
      OBVIOUS
    <3> HIDE DEF x, d, k, m, e, loc, has
    <3> QED
      BY <1>0, <1>2, <1>9, <3>1
  <2>2. /\ h.edges_ = g.edges_ /\ h.log_ = [g.log_ EXCEPT ![s] = Append(@, entry)]
        /\ h.vertices_[src].offset = Len(log)
    BY <1>0, <1>9 DEF Inserted
  <2>3. h.log_[s] = Append(log, entry) /\ \A r \in Leaves \ {s} : h.log_[r] = g.log_[r]
    BY <1>0, <2>2
  <2>4. Linked(log) /\ entry.prev_offset \in -1 .. Len(log) - 1 /\ entry.v = dst
        /\ entry.prev_offset = g.vertices_[src].offset
    BY <1>0 DEF LogsTyped
  <2>5. Len(log) \in Nat
    BY <2>4 DEF Linked, IsSequence
  <2> HIDE DEF entry
  <2>6. /\ \A o \in -1 .. Len(log) - 1 : ChainOf(Append(log, entry), o) = ChainOf(log, o)
        /\ ChainOf(Append(log, entry), Len(log)) = <<entry.v>> \o ChainOf(log, entry.prev_offset)
    BY <2>4, ChainOfAppend
  <2>7. log_chain(h, src) = <<dst>> \o chain
    <3>1. log_chain(h, src) = ChainOf(h.log_[s], h.vertices_[src].offset)
      BY LogChainIs
    <3>2. chain = ChainOf(log, g.vertices_[src].offset)
      BY LogChainIs
    <3> HIDE DEF chain, log
    <3> QED
      BY <2>2, <2>3, <2>4, <2>6, <3>1, <3>2
  <2>8. ASSUME NEW v \in Vertices \ {src} PROVE log_chain(h, v) = log_chain(g, v)
    <3>1. SegmentOf(v) \in Leaves /\ g.vertices_[v].offset \in -1 .. Len(g.log_[SegmentOf(v)]) - 1
      BY <1>0, LeafOfVertex DEF LogsTyped
    <3>2. log_chain(h, v) = ChainOf(h.log_[SegmentOf(v)], g.vertices_[v].offset)
          /\ log_chain(g, v) = ChainOf(g.log_[SegmentOf(v)], g.vertices_[v].offset)
      BY <1>5, LogChainIs
    <3>3. CASE SegmentOf(v) = s
      BY <2>3, <2>6, <3>1, <3>2, <3>3
    <3>4. CASE SegmentOf(v) # s
      BY <2>3, <3>1, <3>2, <3>4
    <3> QED
      BY <3>3, <3>4
  <2>9. ASSUME NEW v \in Vertices, v # src
        PROVE  InPlace(h, v) /\ \A j \in 0 .. g.vertices_[v].degree - 1 : EdgeAt(h, v, j) = EdgeAt(g, v, j)
    BY <1>5, <1>7, <2>2, <2>8, <2>9, Untouched
  <2>10. onseg_edges(h, src) = k
    <3>1. h.vertices_[src].offset # -1 /\ NextIndex(h, src) = m
      BY <1>7, <2>2, <2>5
    <3> QED
      BY <1>6, <2>1, <3>1 DEF onseg_edges
  <2>11. Len(<<dst>> \o chain) = Len(chain) + 1 /\ (<<dst>> \o chain)[1] = dst
         /\ \A i \in 1 .. Len(chain) : (<<dst>> \o chain)[i + 1] = chain[i]
    <3> DEFINE S == LogValues(g.log_[s]) \cup {dst}
    <3>1. chain \in Seq(S) /\ <<dst>> \in Seq(S) /\ Len(<<dst>>) = 1 /\ <<dst>>[1] = dst
      <4>1. chain \in Seq(LogValues(g.log_[s]))
        BY <1>4
      <4> HIDE DEF chain
      <4> QED
        BY <4>1
    <3> HIDE DEF chain, S
    <3> QED
      BY <3>1
  <2>12. InPlace(h, src)
    <3>1. NextIndex(h, src) = m
      BY <1>7
    <3>2. Len(log_chain(h, src)) = (d + 1) - k
      <4>1. Len(log_chain(h, src)) = Len(chain) + 1
        BY <2>7, <2>11
      <4> HIDE DEF chain, d, k
      <4> QED
        BY <1>2, <1>4, <4>1
    <3>3. k >= 1 /\ x + k <= m
      BY <1>2
    <3>4. g.edges_[x] = -src
      BY <1>3 DEF InPlace
    <3> QED
      BY <1>6, <2>2, <2>10, <3>1, <3>2, <3>3, <3>4 DEF InPlace
  <2>13. ASSUME NEW j \in 0 .. d - 1 PROVE EdgeAt(h, src, j) = EdgeAt(g, src, j)
    <3>1. CASE j < k
      BY <1>6, <2>2, <2>10, <3>1 DEF EdgeAt
    <3>2. CASE ~(j < k)
      <4>1. d - j \in 1 .. Len(chain) /\ (d + 1) - j = (d - j) + 1
        <5> HIDE DEF chain, d, k
        <5> QED
          BY <1>2, <1>4, <3>2
      <4>2. EdgeAt(h, src, j) = (<<dst>> \o chain)[(d - j) + 1]
        BY <1>6, <2>7, <2>10, <3>2, <4>1 DEF EdgeAt
      <4>3. EdgeAt(g, src, j) = chain[d - j]
        BY <3>2 DEF EdgeAt
      <4> QED
        BY <2>11, <4>1, <4>2, <4>3
    <3> QED
      BY <3>1, <3>2
  <2>14. EdgeAt(h, src, d) = dst
    <3>1. ~(d < k) /\ (d + 1) - d = 1
      BY <1>2
    <3> QED
      BY <1>6, <2>7, <2>10, <2>11, <3>1 DEF EdgeAt
  <2>15. h.vertices_[0].index = 0
    BY <1>0, <1>5, <1>6 DEF Sound
  <2> QED
    BY <1>5, <1>6, <2>9, <2>12, <2>13, <2>14, <2>15 DEF Sound, OneEdgeMore
<1> QED
  BY <1>8, <1>9

-----------------------------------------------------------------------------
(***************************************************************************)
(* A resize loses no edge.                                                 *)
(***************************************************************************)

\* resize_V1 copies at least the cells a vertex has.
LEMMA CopiesEnough ==
  ASSUME NEW g, Typed(g), Sound(g), NEW v \in Vertices
  PROVE  ResizeCopied(g, v) \in Int /\ onseg_edges(g, v) <= ResizeCopied(g, v)
<1> DEFINE x == g.vertices_[v].index
           k == onseg_edges(g, v)
           m == NextIndex(g, v)
           e == g.elem_capacity
           m2 == NextIndex(Doubled(g), v)
<1>1. x \in Int /\ k \in Nat /\ m \in Int /\ e \in Nat /\ x + k <= m
  BY SoundIs DEF Typed, Entry
<1>2. m2 = m \/ (m2 = 2 * e /\ m = e)
  <2>1. Doubled(g).vertices_ = g.vertices_ /\ Doubled(g).elem_capacity = 2 * g.elem_capacity
    BY DoubledIs DEF Typed
  <2> QED
    BY <2>1 DEF NextIndex
<1>3. ResizeCopied(g, v) = IF g.vertices_[v].offset # -1 THEN m2 - x ELSE g.vertices_[v].degree
  BY DEF ResizeCopied, Doubled
<1>4. g.vertices_[v].offset = -1 => k = g.vertices_[v].degree
  BY DEF onseg_edges
<1>5. CASE g.vertices_[v].offset = -1
  <2>1. ResizeCopied(g, v) = k
    BY <1>3, <1>4, <1>5
  <2> HIDE DEF k
  <2>2. ResizeCopied(g, v) \in Int /\ k <= ResizeCopied(g, v)
    BY <1>1, <2>1
  <2> QED
    BY <2>2 DEF k
<1>6. CASE g.vertices_[v].offset # -1
  <2>1. ResizeCopied(g, v) = m2 - x
    BY <1>3, <1>6
  <2> HIDE DEF x, k, m, e, m2
  <2>2. ResizeCopied(g, v) \in Int /\ k <= ResizeCopied(g, v)
    BY <1>1, <1>2, <2>1
  <2> QED
    BY <2>2 DEF k
<1> QED
  BY <1>5, <1>6

\* The copy of a vertex brings it to its place, and no cell before that changes.
LEMMA CopyLands ==
  ASSUME NEW g, Typed(g), Sound(g), NEW N \in [Vertices -> Int], NEW v \in Vertices,
         NEW E \in Arrays(2 * g.elem_capacity, CellValues(g)),
         0 <= N[v], N[v] + g.vertices_[v].degree <= 2 * g.elem_capacity
  PROVE  /\ Landed(g, v, onseg_edges(g, v), N[v], CopyVertex(g, v, E, N))
         /\ \A c \in 0 .. 2 * g.elem_capacity - 1 : c < N[v] => CopyVertex(g, v, E, N)[c] = E[c]
<1> DEFINE i == g.vertices_[v].index
           j == N[v]
           on == onseg_edges(g, v)
           deg == g.vertices_[v].degree
           k == ResizeCopied(g, v)
           e == g.elem_capacity
           I == 0 .. 2 * e - 1
           J == 0 .. e - 1
           R == MergeLog(g, v, CopyCells(g.edges_, E, i, j, k), j)
<1>1. R = CopyVertex(g, v, E, N)
  BY DEF CopyVertex
<1>2. /\ LogsTyped(g) /\ i \in Int /\ 0 <= i /\ j \in Int /\ on \in Nat /\ deg \in Nat /\ on <= deg
      /\ k \in Int /\ on <= k /\ e \in Nat /\ i + on <= e
  <2>1. i \in 0 .. e - 1 /\ on \in Nat /\ deg \in Nat /\ on <= deg
        /\ i + on <= NextIndex(g, v) /\ NextIndex(g, v) \in Int /\ NextIndex(g, v) <= e
    BY SoundIs
  <2>2. e \in Nat /\ LogsTyped(g)
    BY DEF Typed
  <2>3. k \in Int /\ on <= k
    BY CopiesEnough
  <2> HIDE DEF i, on, deg, k, e
  <2> QED
    BY <2>1, <2>2, <2>3
<1>3. Splits(g, v, on, deg)
  BY <1>2 DEF Splits, Sound, InPlace
<1>4. I \in SUBSET Int /\ J \in SUBSET Int /\ E \in [I -> CellValues(g)] /\ g.edges_ \in [J -> CellValues(g)]
  <2>1. g.edges_ \in Arrays(g.elem_capacity, CellValues(g))
    BY ContentsHold
  <2> QED
    BY <2>1 DEF Arrays
<1>5. 0 <= j /\ j + deg <= 2 * e
  OBVIOUS
<1>6. \A x \in 0 .. deg - 1 : EdgeOf(g, v, on, x) = IF x < on THEN g.edges_[i + x] ELSE log_chain(g, v)[deg - x]
  BY DEF EdgeOf
<1>7. \A F : Landed(g, v, on, j, F) <=> \A x \in 0 .. deg - 1 : F[j + x] = EdgeOf(g, v, on, x)
  BY DEF Landed
<1> HIDE DEF i, j, on, deg, k, e, I, J
<1>8. VertexAt(g, v, on, deg, I, J, g.edges_, E, i, j, k, R)
  BY <1>2, <1>3, <1>4, VertexArrives
<1> HIDE DEF R
<1>9. Landed(g, v, on, j, R)
  <2> SUFFICES ASSUME NEW x \in 0 .. deg - 1 PROVE R[j + x] = EdgeOf(g, v, on, x)
    BY <1>7
  <2>1. j + x \in I /\ (x < on => i + x \in J)
    BY <1>2, <1>5 DEF I, J
  <2> QED
    BY <1>6, <1>8, <2>1 DEF VertexAt
<1>10. \A c \in I : c < j => R[c] = E[c]
  BY <1>8 DEF VertexAt
<1> QED
  BY <1>1, <1>9, <1>10 DEF I, j, on, e

\* All vertices have come to their places.
LEMMA CopiesLand ==
  ASSUME NEW g, Typed(g), Sound(g), NEW N \in [Vertices -> Int],
         Fits(g, 0, num_vertices, N, 2 * g.elem_capacity)
  PROVE  \A v \in Vertices : Landed(g, v, onseg_edges(g, v), N[v], Copied(g, N))
<1> DEFINE W == Arrays(2 * g.elem_capacity, CellValues(g))
           n == num_vertices
           e2 == 2 * g.elem_capacity
           on == [v \in Vertices |-> onseg_edges(g, v)]
<1>0. n \in Nat \ {0} /\ Vertices = 0 .. n - 1 /\ e2 \in Int /\ g.vertices_ \in [Vertices -> Entry]
  BY TreeShape DEF Vertices, Typed
<1>1. PICK A \in [0 .. n -> W] : CopySteps(g, N, n, A)
  <2>1. Zeroed(g) \in W
    <3>1. 0 \in CellValues(g)
      BY ContentsHold
    <3> QED
      BY <3>1 DEF Zeroed, Arrays
  <2>2. CopiesWithin(g, N, n, W)
    <3> SUFFICES ASSUME NEW F \in W, NEW v \in 0 .. n - 1 PROVE CopyVertex(g, v, F, N) \in W
      BY DEF CopiesWithin
    <3>1. v \in Vertices
      BY <1>0
    <3>2. LogsTyped(g) /\ Garbage \in CellValues(g)
          /\ LogValues(g.log_[SegmentOf(v)]) \subseteq CellValues(g)
          /\ g.edges_ \in [0 .. g.elem_capacity - 1 -> CellValues(g)]
      BY <3>1, ContentsHold DEF Typed, Arrays
    <3>3. F \in [0 .. 2 * g.elem_capacity - 1 -> CellValues(g)]
      BY DEF Arrays
    <3>4. MergeLog(g, v, CopyCells(g.edges_, F, g.vertices_[v].index, N[v], ResizeCopied(g, v)), N[v])
            \in [0 .. 2 * g.elem_capacity - 1 -> CellValues(g)]
      BY <3>1, <3>2, <3>3, MoveTyped
    <3> QED
      BY <3>4 DEF CopyVertex, Arrays
  <2>3. n = num_vertices /\ n \in Nat
    BY <1>0
  <2> HIDE DEF W, n
  <2> QED
    BY <2>1, <2>2, <2>3, CopiedIs
<1>2. /\ \A v \in Vertices : /\ N[v] \in Int /\ 0 <= N[v] /\ N[v] + g.vertices_[v].degree <= e2
                             /\ g.vertices_[v].degree \in Nat
      /\ \A v, w \in Vertices : v < w => N[v] + g.vertices_[v].degree <= N[w]
  <2>1. 0 \in Nat /\ n \in Nat /\ 0 < n /\ n <= num_vertices
    BY <1>0
  <2>2. /\ \A v \in 0 .. n - 1 : /\ v \in Vertices /\ N[v] \in Int
                                 /\ N[0] <= N[v] /\ N[v] + g.vertices_[v].degree <= e2
                                 /\ g.vertices_[v].degree \in Nat \ {0}
        /\ \A v, w \in 0 .. n - 1 : v < w => N[v] + g.vertices_[v].degree <= N[w]
    <3>1. Fits(g, 0, n, N, e2)
      OBVIOUS
    <3> HIDE DEF n, e2
    <3> QED
      BY <1>0, <2>1, <3>1, FitsIs
  <2>3. N[0] = 0
    BY DEF Fits, Sound
  <2> QED
    BY <1>0, <2>2, <2>3
<1> DEFINE Here(k) == \A v \in Vertices : v < k => Landed(g, v, on[v], N[v], A[k])
           D == {k \in Nat : k <= n => Here(k)}
<1>3. 0 \in D
  <2>1. \A v \in Vertices : ~(v < 0)
    BY <1>0
  <2> QED
    BY <2>1
<1>4. \A k \in Nat : k \in D => k + 1 \in D
  <2> SUFFICES ASSUME NEW k \in Nat, k \in D PROVE k + 1 \in D
    OBVIOUS
  <2>0. k + 1 \in Nat
    OBVIOUS
  <2> SUFFICES ASSUME k + 1 <= n PROVE Here(k + 1)
    BY <2>0, Zenon
  <2>1. k \in Vertices /\ k \in 0 .. n /\ k \in 0 .. n - 1 /\ k <= n
    BY <1>0
  <2>2. Here(k)
    BY <2>1
  <2>3. A[k + 1] = CopyVertex(g, k, A[k], N) /\ A[k] \in W
    BY <1>1, <2>1 DEF CopySteps
  <2>4. 0 <= N[k] /\ N[k] + g.vertices_[k].degree <= 2 * g.elem_capacity
    BY <1>2, <2>1
  <2>5. /\ Landed(g, k, onseg_edges(g, k), N[k], CopyVertex(g, k, A[k], N))
        /\ \A c \in 0 .. 2 * g.elem_capacity - 1 : c < N[k] => CopyVertex(g, k, A[k], N)[c] = A[k][c]
    BY <2>1, <2>3, <2>4, CopyLands
  <2> DEFINE E == A[k]
             R == A[k + 1]
  <2>6. Landed(g, k, on[k], N[k], R) /\ \A c \in 0 .. e2 - 1 : c < N[k] => R[c] = E[c]
    BY <2>1, <2>3, <2>5
  <2> HIDE DEF E, R, on, e2, D, W
  <2>7. ASSUME NEW v \in Vertices, v < k + 1 PROVE Landed(g, v, on[v], N[v], R)
    <3>1. v < k \/ v = k
      BY <1>0, <2>7
    <3>2. CASE v < k
      <4> SUFFICES ASSUME NEW j \in 0 .. g.vertices_[v].degree - 1
                   PROVE  R[N[v] + j] = EdgeOf(g, v, on[v], j)
        BY DEF Landed
      <4>1. E[N[v] + j] = EdgeOf(g, v, on[v], j)
        BY <2>2, <3>2 DEF Landed, E
      <4> DEFINE m == N[v]
                 d == g.vertices_[v].degree
                 q == N[k]
                 f == g.vertices_[k].degree
      <4>2. m \in Int /\ 0 <= m /\ d \in Nat /\ q \in Int /\ f \in Nat /\ q + f <= e2 /\ m + d <= q
        BY <1>2, <2>1, <3>2
      <4>d. j \in 0 .. d - 1
        OBVIOUS
      <4> HIDE DEF m, d, q, f
      <4>e. e2 \in Int /\ j \in Int /\ 0 <= j /\ j < d
        BY <1>0, <4>2, <4>d
      <4>3. m + j \in 0 .. e2 - 1 /\ m + j < q
        BY <4>2, <4>e
      <4> QED
        BY <2>6, <4>1, <4>3 DEF m, q
    <3> QED
      BY <2>6, <3>1, <3>2
  <2> QED
    BY <2>7 DEF R
<1> HIDE DEF D
<1>5. Nat \subseteq D
  BY <1>3, <1>4, Induction
<1>6. n \in D /\ n <= n
  BY <1>0, <1>5
<1>7. Here(n)
  BY <1>6 DEF D
<1>8. A[n] = Copied(g, N)
  BY <1>1 DEF CopySteps
<1>9. \A v \in Vertices : v < n
  BY <1>0
<1> QED
  BY <1>7, <1>8, <1>9

\* Vertices that have all come to fitting places are whole, and have their edges.
LEMMA AllArrived ==
  ASSUME NEW g, Typed(g), Sound(g), NEW h, Typed(h), NEW N \in [Vertices -> Int],
         Fits(g, 0, num_vertices, N, h.elem_capacity),
         \A v \in Vertices : h.vertices_[v] = MovedTo(g.vertices_[v], N[v]),
         \A v \in Vertices : Landed(g, v, onseg_edges(g, v), N[v], h.edges_)
  PROVE  Sound(h) /\ SameEdges(g, h)
<1> DEFINE n == num_vertices
           e2 == h.elem_capacity
<1>0. n \in Nat \ {0} /\ Vertices = 0 .. n - 1 /\ e2 \in Int /\ g.vertices_ \in [Vertices -> Entry] /\ 0 \in Vertices
  BY TreeShape DEF Vertices, Typed
<1>1. LogsTyped(h) /\ N[0] = g.vertices_[0].index
  BY DEF Fits, Typed
<1>2. ASSUME NEW v \in Vertices
      PROVE  /\ h.vertices_[v].index = N[v] /\ h.vertices_[v].degree = g.vertices_[v].degree
             /\ h.vertices_[v].offset = -1
  <2>1. h.vertices_[v] = MovedTo(g.vertices_[v], N[v])
    OBVIOUS
  <2> QED
    BY <2>1 DEF MovedTo
<1>3. \A v \in Vertices : Landed(g, v, onseg_edges(g, v), N[v], h.edges_)
  OBVIOUS
<1>4. \A v \in Vertices : onseg_edges(h, v) = g.vertices_[v].degree /\ Len(log_chain(h, v)) = 0
  BY <1>1, <1>2, AllInCells
<1>5. \A v \in Vertices : /\ g.vertices_[v].degree \in Nat \ {0} /\ onseg_edges(g, v) \in Nat \ {0}
                          /\ g.vertices_[v].index \in Int
  BY SoundIs DEF Typed, Entry
<1>6. ASSUME NEW v \in Vertices PROVE N[v] + g.vertices_[v].degree <= NextIndex(h, v)
  <2>1. CASE v = n - 1
    <3>1. NextIndex(h, v) = e2
      BY <1>0, <1>1, <2>1 DEF NextIndex
    <3> QED
      BY <2>1, <3>1 DEF Fits
  <2>2. CASE v # n - 1
    <3>1. v \in 0 .. n - 2 /\ v + 1 \in Vertices /\ ~(v >= n - 1)
      BY <1>0, <2>2
    <3>2. NextIndex(h, v) = N[v + 1]
      BY <1>2, <3>1 DEF NextIndex
    <3> QED
      BY <3>1, <3>2 DEF Fits
  <2> QED
    BY <2>1, <2>2
<1>7. ASSUME NEW v \in Vertices
      PROVE  /\ \A j \in 0 .. g.vertices_[v].degree - 1 : EdgeAt(h, v, j) = EdgeAt(g, v, j)
             /\ h.edges_[N[v]] = g.edges_[g.vertices_[v].index]
  <2>1. g.vertices_[v].degree \in Nat \ {0} /\ N[v] \in Int /\ onseg_edges(g, v) \in Nat \ {0}
        /\ g.vertices_[v].index \in Int
    BY <1>1, <1>5
  <2>2. \A j \in 0 .. g.vertices_[v].degree - 1 : h.edges_[N[v] + j] = EdgeAt(g, v, j)
    BY <1>3 DEF Landed, EdgeOf, EdgeAt
  <2>3. ASSUME NEW j \in 0 .. g.vertices_[v].degree - 1 PROVE EdgeAt(h, v, j) = EdgeAt(g, v, j)
    <3>1. j < onseg_edges(h, v)
      BY <1>4, <2>1
    <3> QED
      BY <1>2, <2>2, <3>1 DEF EdgeAt
  <2>4. h.edges_[N[v]] = g.edges_[g.vertices_[v].index]
    <3>1. 0 \in 0 .. g.vertices_[v].degree - 1 /\ N[v] + 0 = N[v] /\ 0 < onseg_edges(g, v)
          /\ g.vertices_[v].index + 0 = g.vertices_[v].index
      BY <2>1
    <3> QED
      BY <2>2, <3>1 DEF EdgeAt
  <2> QED
    BY <2>3, <2>4
<1>8. ASSUME NEW v \in Vertices PROVE InPlace(h, v)
  <2>1. g.edges_[g.vertices_[v].index] = -v
    BY DEF Sound, InPlace
  <2>2. g.vertices_[v].degree \in Nat \ {0} /\ g.vertices_[v].degree - g.vertices_[v].degree = 0
    BY <1>5
  <2> QED
    BY <1>2, <1>4, <1>6, <1>7, <2>1, <2>2 DEF InPlace
<1>9. h.vertices_[0].index = 0
  BY <1>0, <1>1, <1>2 DEF Sound
<1> QED
  BY <1>2, <1>7, <1>8, <1>9 DEF Sound, SameEdges

\* A resize whose positions fit the new array keeps every vertex whole, and every
\* edge in its place of the list.
LEMMA ResizeSound ==
  ASSUME NEW g, Typed(g), Sound(g), NEW N, Fits(g, 0, num_vertices, N, 2 * g.elem_capacity),
         NEW h, Resized(g, N, h)
  PROVE  Sound(h) /\ SameEdges(g, h)
<1>1. /\ Typed(h) /\ N \in [Vertices -> Int] /\ h.elem_capacity = 2 * g.elem_capacity
      /\ h.edges_ = Copied(g, N)
      /\ \A v \in Vertices : h.vertices_[v] = MovedTo(g.vertices_[v], N[v])
  BY DEF Resized
<1>2. \A v \in Vertices : Landed(g, v, onseg_edges(g, v), N[v], Copied(g, N))
  BY <1>1, CopiesLand
<1> QED
  BY <1>1, <1>2, AllArrived

-----------------------------------------------------------------------------
(***************************************************************************)
(* The base graph has the edges of the edge list.                          *)
(***************************************************************************)

\* The packed vertices follow one another without gaps.
LEMMA PackedInOrder ==
  /\ \A v \in Vertices :
       /\ Packed.vertices_[v].index = PackedIndex(v) /\ Packed.vertices_[v].degree = PackedDegree(v)
       /\ Packed.vertices_[v].offset = -1
       /\ PackedIndex(v) \in Nat /\ PackedDegree(v) \in Nat \ {0} /\ PackedIndex(v + 1) \in Nat
       /\ PackedIndex(v + 1) = PackedIndex(v) + PackedDegree(v)
       /\ PackedIndex(v + 1) <= initial_capacity
  /\ \A v, w \in Vertices : v < w => PackedIndex(v) + PackedDegree(v) <= PackedIndex(w)
<1> DEFINE n == num_vertices
           f == [i \in 0 .. num_vertices |-> PackedIndex(i)]
           d == [v \in Vertices |-> PackedDegree(v)]
           m == Len(edge_list)
<1>0. n \in Nat \ {0} /\ Vertices = 0 .. n - 1 /\ m \in Nat /\ initial_capacity = (m + n) * 4
      /\ n + 1 \in Int /\ 0 \in Int /\ (n + 1) - 1 = n /\ (n + 1) - 2 = n - 1
  BY TreeShape, PackedIs DEF Vertices, initial_capacity, max_sparseness
<1>1. ASSUME NEW v \in Vertices
      PROVE  /\ Packed.vertices_[v].index = PackedIndex(v)
             /\ Packed.vertices_[v].degree = PackedDegree(v)
             /\ Packed.vertices_[v].offset = -1
  <2>1. Packed.vertices_[v] = [index |-> PackedIndex(v), degree |-> PackedDegree(v), offset |-> -1]
    BY PackedIs
  <2> QED
    BY <2>1
<1>2. CellsBefore(Packed, 0, n, f) /\ PackedIndex(n) = m + n
  BY PackedIs
<1>3. \A i \in 0 .. n : f[i] = PackedIndex(i)
  OBVIOUS
<1>4. \A v \in Vertices : d[v] = PackedDegree(v)
  OBVIOUS
<1>5. \A v \in Vertices : PackedDegree(v) \in Nat \ {0}
  <2>1. Packed.vertices_ \in [Vertices -> Entry]
    BY PackedIs DEF Typed
  <2> QED
    BY <1>1, <2>1 DEF Entry
<1> HIDE DEF f, d
<1>6. /\ f \in [0 .. n -> Nat] /\ \A i \in Vertices : f[i + 1] = f[i] + d[i]
  BY <1>0, <1>1, <1>2, <1>4 DEF CellsBefore
<1>7. Ascends(f, d, 0, n + 1)
  <2> SUFFICES ASSUME NEW i \in 0 .. (n + 1) - 2 PROVE f[i] + d[i] <= f[i + 1]
    BY DEF Ascends
  <2>1. i \in Vertices /\ i + 1 \in 0 .. n
    BY <1>0
  <2>2. f[i + 1] \in Nat /\ f[i + 1] = f[i] + d[i]
    BY <1>6, <2>1
  <2> QED
    BY <2>2
<1>8. \A v, w \in 0 .. n : v < w => f[v] + d[v] <= f[w]
  <2>1. \A i \in 0 .. (n + 1) - 1 : f[i] \in Int
    BY <1>0, <1>6
  <2>2. \A i \in 0 .. (n + 1) - 2 : d[i] \in Nat
    BY <1>0, <1>4, <1>5
  <2>3. \A v, w \in 0 .. (n + 1) - 1 : v < w => f[v] + d[v] <= f[w]
    BY <1>0, <1>7, <2>1, <2>2, Ascending
  <2> QED
    BY <1>0, <2>3
<1>9. ASSUME NEW v \in Vertices
      PROVE  /\ PackedIndex(v) \in Nat /\ PackedIndex(v + 1) \in Nat
             /\ PackedIndex(v + 1) = PackedIndex(v) + PackedDegree(v)
             /\ PackedIndex(v + 1) <= initial_capacity
  <2>1. v \in 0 .. n /\ v + 1 \in 0 .. n /\ n \in 0 .. n
    BY <1>0
  <2>2. f[v] = PackedIndex(v) /\ f[v + 1] = PackedIndex(v + 1) /\ f[n] = m + n
    BY <1>2, <1>3, <2>1
  <2>3. f[v] \in Nat /\ f[v + 1] \in Nat /\ f[v + 1] = f[v] + d[v]
    BY <1>6, <2>1
  <2>4. f[v + 1] <= m + n
    <3>1. v + 1 = n \/ v + 1 < n
      BY <1>0
    <3>2. CASE v + 1 = n
      BY <1>0, <2>2, <2>3, <3>2
    <3>3. CASE v + 1 < n
      <4>1. f[v + 1] + d[v + 1] <= f[n]
        BY <1>8, <2>1, <3>3
      <4>2. v + 1 \in Vertices
        BY <1>0, <3>3
      <4>3. d[v + 1] \in Nat
        BY <1>4, <1>5, <4>2
      <4> QED
        BY <1>0, <2>2, <2>3, <4>1, <4>3
    <3> QED
      BY <3>1, <3>2, <3>3
  <2>5. f[v + 1] <= initial_capacity
    BY <1>0, <2>3, <2>4
  <2> QED
    BY <1>4, <2>2, <2>3, <2>5
<1>10. ASSUME NEW v \in Vertices, NEW w \in Vertices, v < w
       PROVE  PackedIndex(v) + PackedDegree(v) <= PackedIndex(w)
  <2>1. v \in 0 .. n /\ w \in 0 .. n
    BY <1>0
  <2> QED
    BY <1>3, <1>4, <1>8, <1>10, <2>1
<1> QED
  BY <1>1, <1>5, <1>9, <1>10

\* insert(edge_list) gives every vertex its pivot and its edges of the list.
LEMMA PackedCellIs ==
  ASSUME NEW v \in Vertices, NEW j \in 0 .. PackedDegree(v) - 1
  PROVE  PackedCell(PackedIndex(v) + j) =
           IF j = 0 THEN -v ELSE edge_list[(PackedIndex(v) + j) - v].v
<1> DEFINE c == PackedIndex(v) + j
           W == {w \in Vertices : PackedIndex(w) <= c}
<1>1. PackedIndex(v) \in Nat /\ PackedDegree(v) \in Nat
  BY PackedInOrder
<1>2. c \in Nat /\ PackedIndex(v) <= c /\ c < PackedIndex(v) + PackedDegree(v) /\ (c = PackedIndex(v) <=> j = 0)
  BY <1>1
<1>3. \A w \in Vertices : v \in Int /\ w \in Int
  BY TreeShape DEF Vertices
<1> HIDE DEF c
<1>4. v \in W
  BY <1>2
<1>5. \A w \in W : w <= v
  <2> SUFFICES ASSUME NEW w \in Vertices, PackedIndex(w) <= c, v < w PROVE FALSE
    BY <1>3
  <2>1. PackedIndex(v) + PackedDegree(v) <= PackedIndex(w) /\ PackedIndex(w) \in Nat
    BY PackedInOrder
  <2> QED
    BY <1>1, <1>2, <2>1
<1>6. Max(W) = v
  <2>1. W \in SUBSET Int
    BY <1>3
  <2>2. \A w \in W : v >= w
    BY <1>3, <1>5
  <2>3. \A x \in W : (\A y \in W : x >= y) => x = v
    BY <1>3, <1>4, <1>5
  <2> HIDE DEF W
  <2>4. \E x \in W : \A y \in W : x >= y
    BY <1>4, <2>2
  <2>5. Max(W) = CHOOSE x \in W : \A y \in W : x >= y
    BY DEF Max
  <2> QED
    BY <2>3, <2>4, <2>5
<1>7. PackedCell(c) = IF c = PackedIndex(v) THEN -v
                      ELSE IF c < PackedIndex(v) + PackedDegree(v) THEN edge_list[c - v].v ELSE 0
  BY <1>6, Zenon DEF PackedCell, W
<1>8. PackedCell(c) = IF j = 0 THEN -v ELSE edge_list[c - v].v
  BY <1>2, <1>7
<1> QED
  BY <1>8 DEF c

\* The packed graph is sound.
LEMMA PackedSound == Sound(Packed)
<1>0. /\ num_vertices \in Nat \ {0} /\ Vertices = 0 .. num_vertices - 1 /\ 0 \in Vertices
      /\ Packed.elem_capacity = initial_capacity /\ LogsTyped(Packed)
  BY TreeShape, PackedIs DEF Vertices, Typed
<1>1. Packed.vertices_[0].index = 0
  BY <1>0, PackedInOrder, PackedIs
<1>2. ASSUME NEW v \in Vertices PROVE InPlace(Packed, v)
  <2>1. /\ Packed.vertices_[v].index = PackedIndex(v) /\ Packed.vertices_[v].degree = PackedDegree(v)
        /\ Packed.vertices_[v].offset = -1
        /\ PackedIndex(v) \in Nat /\ PackedDegree(v) \in Nat \ {0} /\ PackedIndex(v + 1) \in Nat
        /\ PackedIndex(v + 1) = PackedIndex(v) + PackedDegree(v) /\ PackedIndex(v + 1) <= initial_capacity
    BY PackedInOrder
  <2>2. onseg_edges(Packed, v) = PackedDegree(v) /\ Len(log_chain(Packed, v)) = 0
    BY <1>0, <2>1, AllInCells
  <2>3. PackedIndex(v) + PackedDegree(v) <= NextIndex(Packed, v)
    <3>1. CASE v >= num_vertices - 1
      BY <1>0, <2>1, <3>1 DEF NextIndex
    <3>2. CASE ~(v >= num_vertices - 1)
      <4>1. v + 1 \in Vertices
        BY <1>0, <3>2
      <4>2. NextIndex(Packed, v) = PackedIndex(v + 1)
        BY <3>2, <4>1, PackedInOrder DEF NextIndex
      <4> QED
        BY <2>1, <4>2
    <3> QED
      BY <3>1, <3>2
  <2>4. Packed.edges_[PackedIndex(v)] = -v
    <3>1. 0 \in 0 .. PackedDegree(v) - 1 /\ PackedIndex(v) + 0 = PackedIndex(v)
      BY <2>1
    <3>2. PackedCell(PackedIndex(v)) = -v
      BY <3>1, PackedCellIs
    <3>3. PackedIndex(v) \in 0 .. initial_capacity - 1
      BY <2>1, TreeShape
    <3>4. Packed.edges_ = [c \in 0 .. initial_capacity - 1 |-> PackedCell(c)]
      BY Zenon DEF Packed
    <3> QED
      BY <3>2, <3>3, <3>4
  <2>5. PackedDegree(v) >= 1 /\ 0 = PackedDegree(v) - PackedDegree(v)
    BY <2>1
  <2> QED
    BY <2>1, <2>2, <2>3, <2>4, <2>5 DEF InPlace
<1> QED
  BY <1>1, <1>2 DEF Sound

\* Where there is no gap f is not ahead of h, which may leave gaps.
LEMMA NotAhead ==
  ASSUME NEW n \in Nat, NEW f, NEW h, NEW d, f[0] <= h[0],
         \A i \in 0 .. n : f[i] \in Int /\ h[i] \in Int /\ d[i] \in Int,
         \A i \in 0 .. n - 1 : f[i + 1] = f[i] + d[i] /\ h[i] + d[i] <= h[i + 1]
  PROVE  \A i \in 0 .. n : f[i] <= h[i]
<1> DEFINE D == {i \in Nat : i <= n => f[i] <= h[i]}
<1>1. 0 \in D
  OBVIOUS
<1>2. \A i \in Nat : i \in D => i + 1 \in D
  <2> SUFFICES ASSUME NEW i \in Nat, i \in D PROVE i + 1 \in D
    OBVIOUS
  <2>0. i + 1 \in Nat
    OBVIOUS
  <2> SUFFICES ASSUME i + 1 <= n PROVE f[i + 1] <= h[i + 1]
    BY <2>0, Zenon
  <2>1. i \in 0 .. n /\ i + 1 \in 0 .. n /\ i \in 0 .. n - 1 /\ i <= n
    OBVIOUS
  <2>2. f[i] <= h[i]
    BY <2>1
  <2>3. f[i + 1] = f[i] + d[i] /\ h[i] + d[i] <= h[i + 1] /\ f[i] \in Int /\ h[i] \in Int /\ d[i] \in Int
        /\ h[i + 1] \in Int
    BY <2>1
  <2> HIDE DEF D
  <2> QED
    BY <2>2, <2>3
<1> HIDE DEF D
<1>3. Nat \subseteq D
  BY <1>1, <1>2, Induction
<1> SUFFICES ASSUME NEW i \in 0 .. n PROVE f[i] <= h[i]
  OBVIOUS
<1>4. i \in Nat /\ i <= n
  OBVIOUS
<1>5. i \in D
  BY <1>3, <1>4
<1> QED
  BY <1>4, <1>5 DEF D

\* The positions of the base graph fit, and no vertex moves to the left.
LEMMA BaseFits ==
  /\ Fits(Packed, 0, num_vertices, BasePositions, initial_capacity)
  /\ \A v \in Vertices : PackedIndex(v) <= BasePositions[v]
<1> DEFINE n == num_vertices
           N == BasePositions
           m == Len(edge_list)
           gaps == Packed.elem_capacity - Packed.num_edges_
           total == Packed.num_edges_
           S == [i \in 0 .. num_vertices |-> PackedIndex(i)]
           M == calculate_positions(Packed, 0, n, gaps, total)
<1>0. n \in Nat \ {0} /\ Vertices = 0 .. n - 1 /\ m \in Nat /\ initial_capacity = (m + n) * 4 /\ initial_capacity \in Nat
      /\ Packed.elem_capacity = initial_capacity /\ total = m + n /\ Packed.vertices_ \in [Vertices -> Entry]
      /\ PackedIndex(0) = 0
  BY TreeShape, PackedIs DEF Vertices, initial_capacity, max_sparseness, Typed
<1>1. gaps \in Nat /\ total \in Nat /\ total + gaps = initial_capacity
  BY <1>0
<1>2. CellsBefore(Packed, 0, n, S) /\ S[n] = total
  <2>1. n \in 0 .. n
    BY <1>0
  <2> QED
    BY <2>1, PackedIs
<1>3. N = M
  BY DEF BasePositions
<1>4. N \in [Vertices -> Int] /\ N[0] = 0
  BY BaseIs
<1>5. 0 \in Vertices /\ Packed.vertices_[0].index = 0
  BY <1>0, PackedInOrder
<1> HIDE DEF gaps, total, S, n, N
<1>6. /\ \A i \in 0 .. n - 2 : M[i] + Packed.vertices_[i].degree <= M[i + 1]
      /\ M[n - 1] + Packed.vertices_[n - 1].degree <= Packed.vertices_[0].index + total + gaps
  <2>1. 0 \in Nat /\ n \in Nat /\ 0 < n /\ n <= num_vertices
    BY <1>0 DEF n
  <2> QED
    BY <1>0, <1>1, <1>2, <2>1, PositionsFit
<1> HIDE DEF M
<1>7. Fits(Packed, 0, n, N, initial_capacity)
  <2>1. Packed.vertices_[0].index + total + gaps = initial_capacity
    BY <1>1, <1>5
  <2> QED
    BY <1>0, <1>3, <1>4, <1>5, <1>6, <2>1 DEF Fits
<1>8. \A v \in Vertices : PackedIndex(v) <= N[v]
  <2> DEFINE f == [v \in Vertices |-> PackedIndex(v)]
             d == [v \in Vertices |-> PackedDegree(v)]
             k == n - 1
  <2>1. k \in Nat /\ 0 .. k = Vertices /\ 0 .. k - 1 = 0 .. n - 2
    BY <1>0
  <2>2. f[0] <= N[0]
    BY <1>0, <1>4, <1>5
  <2>3. \A i \in 0 .. k : f[i] \in Int /\ N[i] \in Int /\ d[i] \in Int
    BY <1>4, <2>1, PackedInOrder
  <2>4. ASSUME NEW i \in 0 .. k - 1 PROVE f[i + 1] = f[i] + d[i] /\ N[i] + d[i] <= N[i + 1]
    <3>1. i \in Vertices /\ i + 1 \in Vertices /\ i \in 0 .. n - 2
      BY <1>0, <2>1
    <3>2. PackedIndex(i + 1) = PackedIndex(i) + PackedDegree(i) /\ Packed.vertices_[i].degree = PackedDegree(i)
      BY <3>1, PackedInOrder
    <3> QED
      BY <1>3, <1>6, <3>1, <3>2
  <2> HIDE DEF f, d, k
  <2>5. \A i \in 0 .. k : f[i] <= N[i]
    BY <2>1, <2>2, <2>3, <2>4, NotAhead
  <2> QED
    BY <2>1, <2>5 DEF f
<1> QED
  BY <1>7, <1>8 DEF n, N

\* Moved from right to left, and never to the left, no vertex overwrites another.
LEMMA SpreadSafe ==
  SafeOrder(num_vertices - 1, BaseOrder, 1 .. num_vertices - 1, 0 .. Packed.elem_capacity - 1,
            Indices(Packed), Degrees(Packed), BasePositions, Degrees(Packed))
<1> DEFINE n == num_vertices
           N == BasePositions
           V == 1 .. n - 1
           C == 0 .. Packed.elem_capacity - 1
           old == Indices(Packed)
           deg == Degrees(Packed)
           order == BaseOrder
           e == initial_capacity
<1>0. n \in Nat \ {0} /\ Vertices = 0 .. n - 1 /\ V \subseteq Vertices /\ e \in Nat /\ C = 0 .. e - 1
      /\ Packed.vertices_ \in [Vertices -> Entry]
  BY TreeShape, PackedIs DEF Vertices, Typed
<1>1. /\ \A v \in Vertices : /\ old[v] \in Int /\ 0 <= old[v] /\ deg[v] \in Nat /\ old[v] + deg[v] <= e
                             /\ old[v] <= N[v]
      /\ \A v, w \in Vertices : v < w => old[v] + deg[v] <= old[w]
  <2>1. \A v \in Vertices : old[v] = PackedIndex(v) /\ deg[v] = PackedDegree(v)
    BY PackedInOrder DEF Indices, Degrees
  <2>2. \A v \in Vertices : /\ PackedIndex(v) \in Nat /\ PackedDegree(v) \in Nat /\ PackedIndex(v) + PackedDegree(v) <= e
                            /\ PackedIndex(v) <= N[v]
    BY PackedInOrder, BaseFits
  <2>3. \A v, w \in Vertices : v < w => PackedIndex(v) + PackedDegree(v) <= PackedIndex(w)
    BY PackedInOrder
  <2> HIDE DEF old, deg, N, e
  <2> QED
    BY <2>1, <2>2, <2>3
<1>2. /\ \A v \in Vertices : N[v] \in Int /\ N[v] + deg[v] <= e
      /\ \A v, w \in Vertices : v < w => N[v] + deg[v] <= N[w]
  <2>1. 0 \in Nat /\ n \in Nat /\ 0 < n /\ n <= num_vertices /\ e \in Int
    BY <1>0
  <2>2. Fits(Packed, 0, n, N, e)
    BY BaseFits
  <2>3. \A v \in Vertices : deg[v] = Packed.vertices_[v].degree
    BY DEF Degrees
  <2> HIDE DEF n, N, e
  <2>4. /\ \A v \in 0 .. n - 1 : N[v] \in Int /\ N[v] + Packed.vertices_[v].degree <= e
        /\ \A v, w \in 0 .. n - 1 : v < w => N[v] + Packed.vertices_[v].degree <= N[w]
    BY <1>0, <2>1, <2>2, FitsIs
  <2> QED
    BY <1>0, <2>3, <2>4
<1>3. /\ order \in [1 .. n - 1 -> V] /\ \A k \in 1 .. n - 1 : order[k] = n - k
  BY <1>0 DEF BaseOrder
<1> HIDE DEF n, N, C, old, deg, order, e
<1>4. \A i, j \in 1 .. n - 1 : i # j => order[i] # order[j]
  BY <1>0, <1>3
<1>5. \A v \in V : /\ old[v] \in Int /\ deg[v] \in Nat /\ N[v] \in Int /\ deg[v] <= deg[v]
                   /\ \A j \in 0 .. deg[v] - 1 : N[v] + j \in C
                   /\ \A j \in 0 .. deg[v] - 1 : old[v] + j \in C
  <2> SUFFICES ASSUME NEW v \in V
               PROVE  /\ old[v] \in Int /\ deg[v] \in Nat /\ N[v] \in Int /\ deg[v] <= deg[v]
                      /\ \A j \in 0 .. deg[v] - 1 : N[v] + j \in C
                      /\ \A j \in 0 .. deg[v] - 1 : old[v] + j \in C
    OBVIOUS
  <2>1. v \in Vertices
    BY <1>0
  <2>2. old[v] \in Int /\ 0 <= old[v] /\ deg[v] \in Nat /\ old[v] + deg[v] <= e /\ old[v] <= N[v]
        /\ N[v] \in Int /\ N[v] + deg[v] <= e
    BY <1>1, <1>2, <2>1
  <2> DEFINE o == old[v]
             d == deg[v]
             m == N[v]
  <2>3. o \in Int /\ 0 <= o /\ d \in Nat /\ o + d <= e /\ o <= m /\ m \in Int /\ m + d <= e
    BY <2>2
  <2> HIDE DEF o, d, m
  <2>4. ASSUME NEW j \in 0 .. d - 1 PROVE m + j \in C /\ o + j \in C
    <3>1. j \in Int /\ 0 <= j /\ j < d
      BY <2>3
    <3> QED
      BY <1>0, <2>3, <3>1
  <2>5. d <= d
    BY <2>3
  <2> QED
    BY <2>3, <2>4, <2>5 DEF o, d, m
<1>6. \A v, w \in V : v # w => N[v] + deg[v] <= N[w] \/ N[w] + deg[w] <= N[v]
  <2> SUFFICES ASSUME NEW v \in V, NEW w \in V, v # w PROVE N[v] + deg[v] <= N[w] \/ N[w] + deg[w] <= N[v]
    OBVIOUS
  <2>1. v \in Vertices /\ w \in Vertices /\ (v < w \/ w < v)
    BY <1>0
  <2> QED
    BY <1>2, <2>1
<1>7. \A i, j \in 1 .. n - 1 : i < j => old[order[j]] + deg[order[j]] <= N[order[i]]
  <2> SUFFICES ASSUME NEW i \in 1 .. n - 1, NEW j \in 1 .. n - 1, i < j
               PROVE  old[order[j]] + deg[order[j]] <= N[order[i]]
    OBVIOUS
  <2> DEFINE v == order[i]
             w == order[j]
  <2>1. w \in Vertices /\ v \in Vertices /\ w < v
    BY <1>0, <1>3
  <2> HIDE DEF v, w
  <2>2. old[w] + deg[w] <= old[v] /\ old[v] <= N[v]
    BY <1>1, <2>1
  <2>3. old[w] \in Int /\ deg[w] \in Nat /\ old[v] \in Int /\ N[v] \in Int
    BY <1>1, <1>2, <2>1
  <2>4. old[w] + deg[w] <= N[v]
    BY <2>2, <2>3
  <2> QED
    BY <2>4 DEF v, w
<1>8. SafeOrder(n - 1, order, V, C, old, deg, N, deg)
  BY <1>3, <1>4, <1>5, <1>6, <1>7, Zenon DEF SafeOrder
<1> QED
  BY <1>8 DEF n, N, C, old, deg, order

\* The base graph is sound and has the edges of the packed one.
LEMMA BaseSound == Sound(BaseGraph) /\ SameEdges(Packed, BaseGraph)
<1> DEFINE n == num_vertices
           N == BasePositions
           h == BaseGraph
           e == initial_capacity
           on == Degrees(Packed)
<1>0. n \in Nat \ {0} /\ Vertices = 0 .. n - 1 /\ e \in Nat /\ 0 \in Vertices
      /\ Packed.elem_capacity = e /\ Typed(Packed) /\ LogsTyped(Packed) /\ Packed.vertices_ \in [Vertices -> Entry]
  BY TreeShape, PackedIs DEF Vertices, Typed
<1>1. /\ Typed(h) /\ N \in [Vertices -> Int] /\ N[0] = 0 /\ h.elem_capacity = e
      /\ h.edges_ = Moved(Packed, BaseOrder, N, on)
      /\ \A v \in Vertices : h.vertices_[v] = MovedTo(Packed.vertices_[v], N[v])
  BY BaseIs
<1>2. /\ Sound(Packed) /\ Fits(Packed, 0, n, N, e)
  BY PackedSound, BaseFits
<1>3. \A v \in Vertices : /\ on[v] = Packed.vertices_[v].degree /\ on[v] \in Nat
                          /\ onseg_edges(Packed, v) = on[v]
                          /\ Splits(Packed, v, on[v], Packed.vertices_[v].degree)
  <2> SUFFICES ASSUME NEW v \in Vertices
               PROVE  /\ on[v] = Packed.vertices_[v].degree /\ on[v] \in Nat
                      /\ onseg_edges(Packed, v) = on[v]
                      /\ Splits(Packed, v, on[v], Packed.vertices_[v].degree)
    OBVIOUS
  <2>1. on[v] = Packed.vertices_[v].degree /\ Packed.vertices_[v].degree \in Nat
    BY <1>0, PackedInOrder DEF Degrees
  <2>2. onseg_edges(Packed, v) = Packed.vertices_[v].degree /\ Len(log_chain(Packed, v)) = 0
    BY <1>0, PackedInOrder, AllInCells
  <2> HIDE DEF on
  <2> QED
    BY <2>1, <2>2 DEF Splits
<1>4. /\ \A v \in 1 .. n - 1 : Landed(Packed, v, on[v], N[v], h.edges_)
      /\ Elsewhere(Packed, 1, n, N, h.edges_)
  <2>1. SafeOrder(n - 1, BaseOrder, 1 .. n - 1, 0 .. Packed.elem_capacity - 1, Indices(Packed), on, N, Degrees(Packed))
    BY SpreadSafe
  <2>2. /\ 1 \in Nat /\ n \in Nat /\ n <= num_vertices /\ n - 1 \in Nat /\ n - 1 = n - 1
        /\ \A v \in 1 .. n - 1 : Splits(Packed, v, on[v], Packed.vertices_[v].degree)
    BY <1>0, <1>3
  <2> HIDE DEF n, N, on
  <2>3. /\ \A v \in 1 .. n - 1 : Landed(Packed, v, on[v], N[v], Moved(Packed, BaseOrder, N, on))
        /\ Elsewhere(Packed, 1, n, N, Moved(Packed, BaseOrder, N, on))
    BY <1>0, <2>1, <2>2, MovesLand DEF n
  <2> QED
    BY <1>1, <2>3
<1>5. ASSUME NEW v \in Vertices PROVE Landed(Packed, v, onseg_edges(Packed, v), N[v], h.edges_)
  <2>1. CASE v # 0
    <3>1. v \in 1 .. n - 1
      BY <1>0, <2>1
    <3> QED
      BY <1>3, <1>4, <3>1
  <2>2. CASE v = 0
    <3> DEFINE d == Packed.vertices_[0].degree
    <3>1. d \in Nat /\ d <= e /\ Packed.vertices_[0].index = 0 /\ on[0] = d /\ onseg_edges(Packed, 0) = d
      <4>1. PackedIndex(0) = 0 /\ PackedIndex(0 + 1) \in Nat /\ PackedIndex(0 + 1) = PackedIndex(0) + PackedDegree(0)
            /\ PackedIndex(0 + 1) <= initial_capacity /\ PackedDegree(0) \in Nat
            /\ d = PackedDegree(0) /\ Packed.vertices_[0].index = PackedIndex(0)
        BY <1>0, PackedIs, PackedInOrder
      <4> HIDE DEF d
      <4>2. on[0] = d /\ onseg_edges(Packed, 0) = d
        BY <1>0, <1>3 DEF d
      <4> QED
        BY <1>0, <4>1, <4>2
    <3>2. \A w \in 1 .. n - 1 : d <= N[w] /\ N[w] \in Int
      <4>1. 0 \in Nat /\ n \in Nat /\ 0 < n /\ n <= num_vertices /\ e \in Int
        BY <1>0
      <4>2. \A x, w \in 0 .. n - 1 : x < w => N[x] + Packed.vertices_[x].degree <= N[w]
        <5> HIDE DEF n, N, e
        <5> QED
          BY <1>0, <1>2, <4>1, FitsIs
      <4> SUFFICES ASSUME NEW w \in 1 .. n - 1 PROVE d <= N[w] /\ N[w] \in Int
        OBVIOUS
      <4>3. w \in 0 .. n - 1 /\ 0 \in 0 .. n - 1 /\ 0 < w /\ w \in Vertices
        BY <1>0
      <4>4. N[0] + d <= N[w] /\ N[w] \in Int
        BY <1>1, <4>2, <4>3
      <4> QED
        BY <1>1, <3>1, <4>4
    <3> HIDE DEF d
    <3>3. ASSUME NEW j \in 0 .. d - 1 PROVE h.edges_[N[0] + j] = EdgeOf(Packed, 0, d, j)
      <4>1. j \in Int /\ 0 <= j /\ j < d /\ N[0] + j = j /\ Packed.vertices_[0].index + j = j
            /\ j \in 0 .. Packed.elem_capacity - 1
        BY <1>0, <1>1, <3>1
      <4>2. \A w \in 1 .. n - 1 : j < N[w]
        BY <3>1, <3>2, <4>1
      <4>3. h.edges_[j] = Packed.edges_[j]
        BY <1>4, <4>1, <4>2 DEF Elsewhere
      <4> QED
        BY <4>1, <4>3 DEF EdgeOf
    <3> QED
      BY <2>2, <3>1, <3>3 DEF Landed, d
  <2> QED
    BY <2>1, <2>2
<1> HIDE DEF N, h, e, on
<1> QED
  BY <1>0, <1>1, <1>2, <1>5, AllArrived DEF h

-----------------------------------------------------------------------------
(***************************************************************************)
(* The positions fit whenever the assertions of the code hold.             *)
(***************************************************************************)

\* A product with a positive factor and a positive quotient is not negative.
LEMMA QuotientPositive ==
  ASSUME NEW gaps \in Int, NEW p \in Nat \ {0}, NEW n \in Nat \ {0}, (gaps * p) \div n > 0
  PROVE  gaps \in Nat
<1> SUFFICES ASSUME gaps < 0 PROVE FALSE
  OBVIOUS
<1> DEFINE m == gaps * p
           q == m \div n
<1>1. m \in Int /\ m < 0
  <2>1. gaps * p \in Int
    OBVIOUS
  <2>2. gaps * p <= (-1) * p
    OBVIOUS
  <2> QED
    BY <2>1, <2>2
<1>2. q > 0
  OBVIOUS
<1> HIDE DEF m
<1>3. q \in Int /\ q * n <= m
  BY <1>1
<1> HIDE DEF q
<1>4. q * n >= n
  BY <1>2, <1>3
<1> QED
  BY <1>1, <1>3, <1>4

\* Positions fit where there are gaps to share out.
LEMMA GapsFit ==
  ASSUME NEW g, g.vertices_ \in [Vertices -> Entry],
         NEW a \in Nat, NEW b \in Nat, a < b, b <= num_vertices, NEW gaps \in Int, NEW total \in Nat,
         NEW S, CellsBefore(g, a, b, S), S[b] = total, PositionStep(a, b, gaps, total) > 0,
         NEW end \in Int, g.vertices_[a].index + total + gaps = end
  PROVE  Fits(g, a, b, calculate_positions(g, a, b, gaps, total), end)
<1>1. gaps \in Nat
  <2>1. total + b - a \in Nat \ {0} /\ precision_pos \in Nat \ {0}
    BY PmaAssumption
  <2> QED
    BY <2>1, QuotientPositive DEF PositionStep
<1> DEFINE N == calculate_positions(g, a, b, gaps, total)
<1>2. /\ \A i \in a .. b - 2 : N[i] + g.vertices_[i].degree <= N[i + 1]
      /\ N[b - 1] + g.vertices_[b - 1].degree <= g.vertices_[a].index + total + gaps
  BY <1>1, PositionsFit
<1>3. N \in [a .. b - 1 -> Int] /\ N[a] = g.vertices_[a].index
  BY PositionsAre
<1> HIDE DEF N
<1>4. Fits(g, a, b, N, end)
  BY <1>2, <1>3 DEF Fits
<1> QED
  BY <1>4 DEF N

\* So do those of a rebalance, in the cells its window has.
LEMMA WindowFits ==
  ASSUME NEW g, Typed(g), CountsOf(g), NEW left \in Leaves, NEW right \in 1 .. leaf_count, left < right,
         NEW used, used = SumOver(g.segment_edges_actual, left .. right - 1),
         NEW total, total = SumOver(g.segment_edges_total, left .. right - 1),
         PositionStep(first(left), first(right), total - used, used) > 0
  PROVE  Fits(g, first(left), first(right),
              calculate_positions(g, first(left), first(right), total - used, used),
              NextIndex(g, first(right) - 1))
<1> DEFINE a == first(left)
           b == first(right)
           gaps == total - used
           end == NextIndex(g, b - 1)
<1>1. /\ used \in Nat /\ total = FirstIndex(g, right) - FirstIndex(g, left)
      /\ FirstIndex(g, right) \in Int /\ FirstIndex(g, left) \in Int
      /\ \E S : CellsBefore(g, a, b, S) /\ S[b] = used
  BY WindowUse
<1>2. PICK S : CellsBefore(g, a, b, S) /\ S[b] = used
  BY <1>1
<1>3. a \in Nat /\ b \in Nat /\ a < b /\ b <= num_vertices /\ gaps \in Int
  BY <1>1, WindowOfLeaves, TreeShape DEF Vertices
<1>4. end = FirstIndex(g, right)
  <2>1. right - 1 \in Leaves /\ (right - 1) + 1 = right
    BY TreeShape DEF Leaves
  <2> QED
    BY <2>1, LeafEnd
<1>5. g.vertices_[a].index = FirstIndex(g, left)
  BY LeafEnd DEF first
<1>6. end \in Int /\ g.vertices_[a].index + used + gaps = end
  BY <1>1, <1>4, <1>5
<1>7. g.vertices_ \in [Vertices -> Entry]
  BY DEF Typed
<1> HIDE DEF a, b, gaps, end
<1>8. PositionStep(a, b, gaps, used) > 0
  BY DEF a, b, gaps
<1>9. Fits(g, a, b, calculate_positions(g, a, b, gaps, used), end)
  BY <1>1, <1>2, <1>3, <1>6, <1>7, <1>8, GapsFit
<1> QED
  BY <1>9 DEF a, b, gaps, end

\* And those of a resize, in twice the cells.
LEMMA GrownFits ==
  ASSUME NEW g, Typed(g), CountsOf(g), Sound(g),
         PositionStep(0, num_vertices, 2 * g.elem_capacity - g.num_edges_, g.num_edges_) > 0
  PROVE  Fits(g, 0, num_vertices, ResizePositions(g), 2 * g.elem_capacity)
<1> DEFINE d == Doubled(g)
           end == 2 * g.elem_capacity
           used == g.num_edges_
           gaps == end - used
           b == num_vertices
<1>1. PICK S : CellsBefore(g, 0, b, S) /\ S[b] = used
  BY AllCells
<1>2. used \in Nat /\ end \in Int /\ b \in Nat /\ 0 < b /\ b <= num_vertices
  BY AllCells, TreeShape DEF Typed
<1>3. d.vertices_ = g.vertices_ /\ ResizePositions(g) = calculate_positions(d, 0, b, gaps, used)
  BY DoubledIs DEF Typed
<1>4. g.vertices_ \in [Vertices -> Entry] /\ g.vertices_[0].index = 0
  BY DEF Typed, Sound
<1> HIDE DEF d, b, used, end
<1>5. CellsBefore(d, 0, b, S)
  BY <1>1, <1>3 DEF CellsBefore
<1>6. gaps \in Int /\ 0 + used + gaps = end
  BY <1>2
<1>7. PositionStep(0, b, gaps, used) > 0
  BY DEF b, used, end
<1> HIDE DEF gaps
<1>8. Fits(d, 0, b, calculate_positions(d, 0, b, gaps, used), end)
  BY <1>1, <1>2, <1>3, <1>4, <1>5, <1>6, <1>7, GapsFit
<1>9. Fits(g, 0, b, ResizePositions(g), end)
  BY <1>3, <1>8 DEF Fits
<1> QED
  BY <1>9 DEF b, end

\* A rebalance whose assertions hold keeps every vertex whole, and all edges.
LEMMA AssertedRebalance ==
  ASSUME NEW g, Typed(g), CountsOf(g), Sound(g),
         NEW left \in Leaves, NEW right \in 1 .. leaf_count, left < right,
         NEW used, used = SumOver(g.segment_edges_actual, left .. right - 1),
         NEW total, total = SumOver(g.segment_edges_total, left .. right - 1),
         RebalanceAsserted(g, left * segment_size, right * segment_size, used, total)
  PROVE  LET h == rebalance_weighted(g, left * segment_size, right * segment_size, used, total)
         IN Sound(h) /\ SameEdges(g, h)
<1> DEFINE h == rebalance_weighted(g, left * segment_size, right * segment_size, used, total)
           N == calculate_positions(g, first(left), first(right), total - used, used)
<1>1. PositionStep(first(left), first(right), total - used, used) > 0
  BY DEF RebalanceAsserted, PositionsAsserted, first
<1>2. Fits(g, first(left), first(right), N, NextIndex(g, first(right) - 1))
  BY <1>1, WindowFits
<1>3. used \in Nat /\ total \in Int
  BY WindowUse
<1>4. Rebalanced(g, left, right, N, h)
  BY <1>3, RebalanceIs
<1> HIDE DEF N, h
<1>5. Sound(h) /\ SameEdges(g, h)
  BY <1>2, <1>4, RebalanceSound
<1> QED
  BY <1>5 DEF h

\* So does an insertion, which adds its edge.
LEMMA AssertedInsertion ==
  ASSUME NEW g, Typed(g), CountsOf(g), Sound(g), NEW src \in Vertices, NEW dst,
         InsertionAsserted(g, src)
  PROVE  Sound(do_insertion(g, src, dst)) /\ OneEdgeMore(g, src, dst, do_insertion(g, src, dst))
<1> DEFINE s == SegmentOf(src)
           f == Ready(g, src)
           h == do_insertion(g, src, dst)
<1>1. Typed(f) /\ Inserted(f, src, dst, h)
  BY InsertionIs
<1>2. Sound(f) /\ SameEdges(g, f)
  <2>1. CASE LogIsFull(g, src)
    <3> DEFINE used == g.segment_edges_actual[s]
               total == g.segment_edges_total[s]
    <3>1. s \in Leaves
      BY LeafOfVertex
    <3>2. /\ s + 1 \in 1 .. leaf_count /\ s < s + 1
          /\ used = SumOver(g.segment_edges_actual, s .. (s + 1) - 1)
          /\ total = SumOver(g.segment_edges_total, s .. (s + 1) - 1)
      BY <3>1, LeafUse
    <3>3. RebalanceAsserted(g, s * segment_size, (s + 1) * segment_size, used, total)
      BY <2>1 DEF InsertionAsserted
    <3>4. f = rebalance_weighted(g, s * segment_size, (s + 1) * segment_size, used, total)
      BY <2>1 DEF Ready, RebalanceLeaf
    <3> HIDE DEF s, used, total, f
    <3> QED
      BY <3>1, <3>2, <3>3, <3>4, AssertedRebalance
  <2>2. CASE ~LogIsFull(g, src)
    BY <2>2 DEF Ready, SameEdges
  <2> QED
    BY <2>1, <2>2
<1> HIDE DEF f, h
<1>3. Sound(h) /\ OneEdgeMore(f, src, dst, h)
  BY <1>1, <1>2, InsertSound
<1>4. \A v \in Vertices : /\ f.vertices_[v].degree = g.vertices_[v].degree
                          /\ \A j \in 0 .. g.vertices_[v].degree - 1 : EdgeAt(f, v, j) = EdgeAt(g, v, j)
  BY <1>2 DEF SameEdges
<1>5. OneEdgeMore(g, src, dst, h)
  BY <1>3, <1>4 DEF OneEdgeMore
<1> QED
  BY <1>3, <1>5 DEF h

\* And a resize.
LEMMA AssertedResize ==
  ASSUME NEW g, Typed(g), CountsOf(g), Sound(g),
         PositionsAsserted([g EXCEPT !.elem_capacity = 2 * @], 0, num_vertices,
                           2 * g.elem_capacity - g.num_edges_, g.num_edges_)
  PROVE  Sound(resize_V1(g)) /\ SameEdges(g, resize_V1(g))
<1>1. PositionStep(0, num_vertices, 2 * g.elem_capacity - g.num_edges_, g.num_edges_) > 0
  BY DEF PositionsAsserted
<1> QED
  BY <1>1, GrownFits, ResizeIs, ResizeSound

-----------------------------------------------------------------------------
(***************************************************************************)
(* Every entry of a log is in the chain of its vertex.                     *)
(***************************************************************************)
EntriesOf(log, v) == {i \in DOMAIN log : log[i].u = v}

\* The log of leaf s has as many entries of each vertex as their chain.
LeafLogCounted(g, s) ==
  \A v \in Vertices :
    Cardinality(EntriesOf(g.log_[s], v)) = IF SegmentOf(v) = s THEN Len(log_chain(g, v)) ELSE 0

LogsCounted(g) == \A s \in Leaves : LeafLogCounted(g, s)

\* An empty log has no entries, and its vertices no chains.
LEMMA EmptyCounted ==
  ASSUME NEW g, LogsTyped(g), NEW s \in Leaves, g.log_[s] = <<>>
  PROVE  LeafLogCounted(g, s)
<1> SUFFICES ASSUME NEW v \in Vertices
             PROVE  Cardinality(EntriesOf(g.log_[s], v)) =
                      IF SegmentOf(v) = s THEN Len(log_chain(g, v)) ELSE 0
  BY DEF LeafLogCounted
<1>1. Cardinality(EntriesOf(g.log_[s], v)) = 0
  <2>1. EntriesOf(<<>>, v) = {}
    BY DEF EntriesOf
  <2> QED
    BY <2>1, FS_EmptySet
<1>2. CASE SegmentOf(v) = s
  <2>1. g.vertices_[v].offset \in -1 .. Len(g.log_[s]) - 1
    BY <1>2 DEF LogsTyped
  <2>2. g.vertices_[v].offset = -1
    BY <2>1, EmptyLinked
  <2>3. log_chain(g, v) = <<>>
    BY <2>2, ChainOfVertex
  <2> QED
    BY <1>1, <1>2, <2>3, EmptyLinked
<1> QED
  BY <1>1, <1>2

\* Releasing logs whose edges have been merged leaves the others counted.
LEMMA ReleasedCounted ==
  ASSUME NEW g, Typed(g), NEW h, Typed(h), LogsCounted(g), NEW W,
         h.log_ = [s \in Leaves |-> IF s \in W THEN <<>> ELSE g.log_[s]],
         \A v \in Vertices : SegmentOf(v) \notin W => h.vertices_[v].offset = g.vertices_[v].offset
  PROVE  LogsCounted(h)
<1> SUFFICES ASSUME NEW s \in Leaves PROVE LeafLogCounted(h, s)
  BY DEF LogsCounted
<1>1. CASE s \in W
  BY <1>1, EmptyCounted DEF Typed
<1>2. CASE s \notin W
  <2> SUFFICES ASSUME NEW v \in Vertices
               PROVE  Cardinality(EntriesOf(h.log_[s], v)) =
                        IF SegmentOf(v) = s THEN Len(log_chain(h, v)) ELSE 0
    BY DEF LeafLogCounted
  <2>1. h.log_[s] = g.log_[s]
    BY <1>2
  <2>2. SegmentOf(v) = s => log_chain(h, v) = log_chain(g, v)
    BY <1>2, <2>1, LogChainIs
  <2>3. Cardinality(EntriesOf(g.log_[s], v)) = IF SegmentOf(v) = s THEN Len(log_chain(g, v)) ELSE 0
    BY DEF LogsCounted, LeafLogCounted
  <2> QED
    BY <2>1, <2>2, <2>3
<1> QED
  BY <1>1, <1>2

\* The entries of v in a log with one entry more.
LEMMA EntriesAppended ==
  ASSUME NEW log, IsSequence(log), NEW e, NEW v
  PROVE  Cardinality(EntriesOf(Append(log, e), v)) =
           IF e.u = v THEN Cardinality(EntriesOf(log, v)) + 1 ELSE Cardinality(EntriesOf(log, v))
<1> DEFINE n == Len(log)
           more == Append(log, e)
<1>1. /\ n \in Nat /\ DOMAIN log = 1 .. n /\ DOMAIN more = 1 .. n + 1
      /\ more[n + 1] = e /\ \A i \in 1 .. n : more[i] = log[i]
  BY DEF IsSequence
<1>2. IsFiniteSet(EntriesOf(log, v)) /\ n + 1 \notin EntriesOf(log, v)
  <2>1. IsFiniteSet(1 .. n)
    BY <1>1, FS_Interval
  <2>2. EntriesOf(log, v) \in SUBSET (1 .. n)
    BY <1>1 DEF EntriesOf
  <2> QED
    BY <1>1, <2>1, <2>2, FS_Subset
<1> HIDE DEF n, more
<1>3. CASE e.u = v
  <2>1. EntriesOf(more, v) = EntriesOf(log, v) \cup {n + 1}
    BY <1>1, <1>3 DEF EntriesOf
  <2> QED
    BY <1>2, <1>3, <2>1, FS_AddElement DEF more
<1>4. CASE e.u # v
  <2>1. EntriesOf(more, v) = EntriesOf(log, v)
    BY <1>1, <1>4 DEF EntriesOf
  <2> QED
    BY <1>4, <2>1 DEF more
<1> QED
  BY <1>3, <1>4

\* An edge that goes to the log is linked to the chain of its source.
LEMMA InsertedLogs ==
  ASSUME NEW g, Typed(g), NEW src \in Vertices, NEW dst, NEW h, Inserted(g, src, dst, h), LogsCounted(g)
  PROVE  LogsCounted(h)
<1> DEFINE r == SegmentOf(src)
           e == g.vertices_[src]
           entry == [u |-> src, v |-> dst, prev_offset |-> e.offset]
           old == g.log_[r]
<1>0. r \in Leaves /\ Typed(h)
  BY LeafOfVertex DEF Inserted
<1>a. /\ g.vertices_ \in [Vertices -> Entry] /\ g.log_ = [s \in Leaves |-> g.log_[s]]
      /\ Linked(old) /\ e.offset \in -1 .. Len(old) - 1
  BY <1>0 DEF Typed, GraphShape, LogsTyped
<1>1. CASE /\ h.log_ = g.log_
           /\ h.vertices_ = [g.vertices_ EXCEPT ![src] =
                [index |-> e.index, degree |-> e.degree + 1, offset |-> e.offset]]
  <2>1. \A v \in Vertices : h.vertices_[v].offset = g.vertices_[v].offset
    BY <1>a, <1>1
  <2>2. \A v \in Vertices : log_chain(h, v) = log_chain(g, v)
    BY <1>1, <2>1, LogChainIs
  <2> QED
    BY <1>1, <2>2 DEF LogsCounted, LeafLogCounted
<1>2. CASE /\ h.log_ = [g.log_ EXCEPT ![r] = Append(@, entry)]
           /\ h.vertices_ = [g.vertices_ EXCEPT ![src] =
                [index |-> e.index, degree |-> e.degree + 1, offset |-> Len(old)]]
  <2>0. h.log_[r] = Append(old, entry) /\ \A s \in Leaves \ {r} : h.log_[s] = g.log_[s]
    BY <1>0, <1>a, <1>2
  <2>1. h.vertices_[src].offset = Len(old) /\ \A v \in Vertices \ {src} : h.vertices_[v].offset = g.vertices_[v].offset
    BY <1>a, <1>2
  <2>2. /\ \A o \in -1 .. Len(old) - 1 : ChainOf(Append(old, entry), o) = ChainOf(old, o)
        /\ ChainOf(Append(old, entry), Len(old)) = <<dst>> \o ChainOf(old, e.offset)
    BY <1>a, ChainOfAppend
  <2>3. \A v \in Vertices \ {src} : log_chain(h, v) = log_chain(g, v)
    <3> SUFFICES ASSUME NEW v \in Vertices, v # src PROVE log_chain(h, v) = log_chain(g, v)
      OBVIOUS
    <3>1. SegmentOf(v) \in Leaves /\ g.vertices_[v].offset \in -1 .. Len(g.log_[SegmentOf(v)]) - 1
      BY LeafOfVertex DEF Typed, LogsTyped
    <3>2. CASE SegmentOf(v) = r
      BY <2>0, <2>1, <2>2, <3>1, <3>2, LogChainIs
    <3>3. CASE SegmentOf(v) # r
      BY <2>0, <2>1, <3>1, <3>3, LogChainIs
    <3> QED
      BY <3>2, <3>3
  <2>4. Len(log_chain(h, src)) = Len(log_chain(g, src)) + 1
    <3>1. log_chain(g, src) \in Seq(LogValues(old))
      BY ChainOfVertex DEF Typed
    <3>2. log_chain(h, src) = <<dst>> \o log_chain(g, src)
      BY <2>0, <2>1, <2>2, LogChainIs
    <3> HIDE DEF old
    <3>3. IsSequence(log_chain(g, src))
      BY <3>1 DEF IsSequence
    <3> DEFINE c == log_chain(g, src)
    <3> HIDE DEF c
    <3>4. PICK S : c \in Seq(S)
      BY <3>3 DEF IsSequence, c
    <3>5. Len(<<dst>> \o c) = Len(c) + 1
      <4>1. <<dst>> \in Seq({dst} \cup S) /\ c \in Seq({dst} \cup S)
        BY <3>4
      <4> QED
        BY <4>1
    <3> QED
      BY <3>2, <3>5 DEF c
  <2> SUFFICES ASSUME NEW s \in Leaves, NEW v \in Vertices
               PROVE  Cardinality(EntriesOf(h.log_[s], v)) =
                        IF SegmentOf(v) = s THEN Len(log_chain(h, v)) ELSE 0
    BY DEF LogsCounted, LeafLogCounted
  <2>5. Cardinality(EntriesOf(g.log_[s], v)) = IF SegmentOf(v) = s THEN Len(log_chain(g, v)) ELSE 0
    BY DEF LogsCounted, LeafLogCounted
  <2>6. CASE s # r
    <3>1. v = src => SegmentOf(v) # s
      BY <2>6
    <3> QED
      BY <2>0, <2>3, <2>5, <2>6, <3>1
  <2>7. CASE s = r
    <3>1. Cardinality(EntriesOf(h.log_[s], v)) =
            IF v = src THEN Cardinality(EntriesOf(g.log_[s], v)) + 1 ELSE Cardinality(EntriesOf(g.log_[s], v))
      <4>1. IsSequence(old) /\ entry.u = src
        BY <1>a DEF Linked
      <4> HIDE DEF old, entry
      <4>2. Cardinality(EntriesOf(Append(old, entry), v)) =
              IF entry.u = v THEN Cardinality(EntriesOf(old, v)) + 1 ELSE Cardinality(EntriesOf(old, v))
        BY <4>1, EntriesAppended
      <4> QED
        BY <2>0, <2>7, <4>1, <4>2 DEF old
    <3> QED
      BY <2>3, <2>4, <2>5, <2>7, <3>1
  <2> QED
    BY <2>6, <2>7
<1> QED
  BY <1>1, <1>2 DEF Inserted

\* A rebalance empties the logs of its leaves.
LEMMA RebalancedLogs ==
  ASSUME NEW g, Typed(g), LogsCounted(g), NEW left \in Leaves, NEW right \in 1 .. leaf_count, left < right,
         NEW used \in Nat, NEW total \in Int
  PROVE  LogsCounted(rebalance_weighted(g, left * segment_size, right * segment_size, used, total))
<1> DEFINE N == calculate_positions(g, first(left), first(right), total - used, used)
           h == rebalance_weighted(g, left * segment_size, right * segment_size, used, total)
           W == {s \in Leaves : left <= s /\ s < right}
<1>1. Rebalanced(g, left, right, N, h)
  BY RebalanceIs
<1> HIDE DEF N, h
<1>2. Typed(h) /\ h.log_ = [s \in Leaves |-> IF s \in W THEN <<>> ELSE g.log_[s]]
  BY <1>1 DEF Rebalanced
<1>3. ASSUME NEW v \in Vertices, SegmentOf(v) \notin W PROVE h.vertices_[v].offset = g.vertices_[v].offset
  <2>1. ~(first(left) <= v /\ v < first(right))
    BY <1>3, WindowOfLeaves, LeafOfVertex
  <2> QED
    BY <1>1, <2>1 DEF Rebalanced
<1> HIDE DEF W
<1>4. LogsCounted(h)
  BY <1>2, <1>3, ReleasedCounted
<1> QED
  BY <1>4 DEF h

\* An insertion, with the rebalance it may begin with, keeps the logs counted.
LEMMA InsertionLogs ==
  ASSUME NEW g, Typed(g), CountsOf(g), LogsCounted(g), NEW src \in Vertices, NEW dst
  PROVE  LogsCounted(do_insertion(g, src, dst))
<1> DEFINE s == SegmentOf(src)
           f == Ready(g, src)
           h == do_insertion(g, src, dst)
<1>1. Typed(f) /\ Inserted(f, src, dst, h)
  BY InsertionIs
<1>2. LogsCounted(f)
  <2>1. CASE LogIsFull(g, src)
    <3> DEFINE used == g.segment_edges_actual[s]
               total == g.segment_edges_total[s]
    <3>1. s \in Leaves /\ s + 1 \in 1 .. leaf_count /\ s < s + 1
      BY LeafOfVertex, LeafUse
    <3>2. used \in Nat /\ total \in Int
      <4>1. used = SumOver(g.segment_edges_actual, s .. (s + 1) - 1)
        BY <3>1, LeafUse
      <4> QED
        BY <3>1, <4>1, WindowUse DEF Typed
    <3>3. f = rebalance_weighted(g, s * segment_size, (s + 1) * segment_size, used, total)
      BY <2>1 DEF Ready, RebalanceLeaf
    <3> HIDE DEF s, used, total, f
    <3> QED
      BY <3>1, <3>2, <3>3, RebalancedLogs
  <2>2. CASE ~LogIsFull(g, src)
    BY <2>2 DEF Ready
  <2> QED
    BY <2>1, <2>2
<1> HIDE DEF f, h
<1> QED
  BY <1>1, <1>2, InsertedLogs DEF h
=============================================================================
