-------------------------------- MODULE Pma --------------------------------
(***************************************************************************)
(* The data structure of dgap/src/graph.h and the algorithms on it, as      *)
(* operators.  A graph g is a record of the fields of CSRGraph:             *)
(*                                                                         *)
(*   vertices_             [vertex -> [index, degree, offset]]              *)
(*   edges_                the edge array, cells 0 .. elem_capacity - 1     *)
(*   log_                  [segment -> sequence of [u, v, prev_offset]]; an *)
(*                         offset o is position o + 1, and the length is    *)
(*                         log_segment_idx_                                 *)
(*   elem_capacity, num_edges_                                              *)
(*   segment_edges_actual, segment_edges_total   per leaf segment           *)
(*                                                                         *)
(* The cell at index of vertex v is its pivot, -v; the degree counts it.    *)
(* Segments are the leaves, 0 .. leaf_count - 1 (the source numbers them    *)
(* from segment_count, after the inner nodes, whose counts it never uses).  *)
(*                                                                         *)
(* As in SegmentLocks, a definition named Faulty... is a deliberately wrong *)
(* variant of the one that follows it.                                      *)
(***************************************************************************)
EXTENDS Integers, SequencesExt

CONSTANTS
  n_vertices,       \* vertices of the base graph
  edge_list,        \* its edges, [u, v] records ordered by u
  MAX_LOG_ENTRIES,  \* size of an edge log
  precision_pos,    \* fixed-point scale of calculate_positions
  Garbage           \* what a read past the end of an array returns

ASSUME PmaAssumption ==
  /\ n_vertices \in Nat /\ n_vertices > 1
  /\ MAX_LOG_ENTRIES \in Nat \ {0}
  /\ precision_pos \in Nat \ {0}
  /\ edge_list \in Seq([u : 0 .. n_vertices - 1, v : 0 .. n_vertices - 1])
  /\ \A i, j \in DOMAIN edge_list : i < j => edge_list[i].u <= edge_list[j].u

-----------------------------------------------------------------------------
(***************************************************************************)
(* util.h and compute_capacity: the shape of the PMA tree.                  *)
(***************************************************************************)
last_bit_set(x) == Cardinality({b \in 0 .. 30 : 2 ^ b <= x})
floor_log2(x) == last_bit_set(x) - 1
ceil_log2(x) == last_bit_set(x - 1)
ceil_div(x, y) == IF x = 0 THEN 0 ELSE 1 + ((x - 1) \div y)
hyperfloor(x) == 2 ^ floor_log2(x)

leaf_count == hyperfloor(ceil_div(n_vertices, ceil_log2(n_vertices)))
segment_size == ceil_div(n_vertices, leaf_count)
num_vertices == leaf_count * segment_size
tree_height == floor_log2(leaf_count)
max_sparseness == 4
initial_capacity == (Len(edge_list) + num_vertices) * max_sparseness

Vertices == 0 .. num_vertices - 1
Leaves == 0 .. leaf_count - 1
SegmentOf(v) == v \div segment_size
VerticesOf(s) == {v \in Vertices : SegmentOf(v) = s}

-----------------------------------------------------------------------------
(***************************************************************************)
(* Reading the structure.                                                   *)
(***************************************************************************)

\* Where the cells of vertex v end: the index of the next vertex.
NextIndex(g, v) == IF v >= num_vertices - 1 THEN g.elem_capacity
                   ELSE g.vertices_[v + 1].index

\* A vertex with edges in the log fills its cells (onseg_num_edges).
onseg_edges(g, v) == IF g.vertices_[v].offset # -1
                     THEN NextIndex(g, v) - g.vertices_[v].index
                     ELSE g.vertices_[v].degree

\* The log entries of v, newest first, following prev_offset from offset.
log_chain(g, v) ==
  LET log == g.log_[SegmentOf(v)]
      chain[o \in -1 .. Len(log) - 1] ==
        IF o = -1 THEN <<>> ELSE <<log[o + 1].v>> \o chain[log[o + 1].prev_offset]
  IN chain[g.vertices_[v].offset]

\* The cells of v after its pivot.
onseg_dsts(g, v) ==
  [i \in 1 .. onseg_edges(g, v) - 1 |-> g.edges_[g.vertices_[v].index + i]]

\* What iterating over out_neigh(v) yields: nothing unless degree > 1, then
\* the cells, then the log chain if the degree exceeds them.
out_neigh(g, v) ==
  IF g.vertices_[v].degree <= 1 THEN <<>>
  ELSE onseg_dsts(g, v) \o
         (IF g.vertices_[v].degree > onseg_edges(g, v) THEN log_chain(g, v) ELSE <<>>)

FaultyHaveSpace(g, src, loc) == NextIndex(g, src) >= loc
have_space_onseg(g, src, loc) == NextIndex(g, src) > loc

FaultyLeafIsFull(g, s) == g.segment_edges_actual[s] > g.segment_edges_total[s]

\* density >= up_0 = 1.0 of a leaf.
LeafIsFull(g, s) == g.segment_edges_actual[s] >= g.segment_edges_total[s]

SumOver(f, S) == SumFunctionOnSet(f, S)

\* density < up_height, where up_height = 1 - height * 0.25 / tree_height and
\* density is used / total.  A tree of one leaf has delta_up = infinity.
BelowThreshold(used, total, height) ==
  /\ tree_height > 0
  /\ 4 * tree_height * used < (4 * tree_height - height) * total

-----------------------------------------------------------------------------
(***************************************************************************)
(* Positions and counts.                                                    *)
(***************************************************************************)

\* The per-edge share of the gaps, truncated to the fixed precision and scaled
\* by it.
PositionStep(start_vertex, end_vertex, gaps, total_degree) ==
  (gaps * precision_pos) \div (total_degree + end_vertex - start_vertex)

calculate_positions(g, start_vertex, end_vertex, gaps, total_degree) ==
  LET step == PositionStep(start_vertex, end_vertex, gaps, total_degree)
      degree(i) == g.vertices_[i].degree
      new_index[i \in start_vertex .. end_vertex - 1] ==
        IF i = start_vertex THEN g.vertices_[i].index
        ELSE new_index[i - 1] + degree(i - 1)
               + ((step * (degree(i - 1) + 1)) \div precision_pos)
  IN new_index

\* The assertions of calculate_positions.
PositionsAsserted(g, start_vertex, end_vertex, gaps, total_degree) ==
  LET new_index == calculate_positions(g, start_vertex, end_vertex, gaps, total_degree) IN
  /\ PositionStep(start_vertex, end_vertex, gaps, total_degree) > 0
  /\ \A i \in start_vertex .. end_vertex - 1 :
       new_index[i] + g.vertices_[i].degree <= NextIndex(g, end_vertex - 1)

\* For the leaves left .. right - 1.
recount_segment_total(g, left, right) ==
  [g EXCEPT !.segment_edges_total =
     [s \in Leaves |->
        IF left <= s /\ s < right
        THEN NextIndex(g, (s + 1) * segment_size - 1) - g.vertices_[s * segment_size].index
        ELSE @[s]]]

-----------------------------------------------------------------------------
(***************************************************************************)
(* Moving edges.                                                            *)
(***************************************************************************)

\* n cells of array from are written to array to, from position i to j.
CopyCells(from, to, i, j, n) ==
  [c \in DOMAIN to |->
     IF j <= c /\ c < j + n
     THEN IF i + c - j \in DOMAIN from THEN from[i + c - j] ELSE Garbage
     ELSE to[c]]

\* The chain is written upwards, newest edge first.
FaultyMergeLog(g, v, cells, index) ==
  LET chain == log_chain(g, v)
      first == index + g.vertices_[v].degree - Len(chain)
  IN [c \in DOMAIN cells |->
        IF c - first \in 0 .. Len(chain) - 1 THEN chain[c - first + 1] ELSE cells[c]]

\* The log chain of v is written to cells, downwards from the last one of v,
\* whose pivot is (to be) at cell index.
MergeLog(g, v, cells, index) ==
  LET chain == log_chain(g, v)
      last == index + g.vertices_[v].degree - 1
  IN [c \in DOMAIN cells |->
        IF last - c \in 0 .. Len(chain) - 1 THEN chain[last - c + 1] ELSE cells[c]]

release_log(g, left, right) ==
  [g EXCEPT !.log_ = [s \in Leaves |-> IF left <= s /\ s < right THEN <<>> ELSE @[s]]]

\* One vertex of rebalance_data_V1: its onseg cells are shifted to index, its
\* log chain is appended ...
MoveVertex(g, v, cells, index, onseg) ==
  MergeLog(g, v, CopyCells(cells, cells, g.vertices_[v].index, index, onseg), index)

\* ... and its entry tells where it is.
MovedTo(entry, index) == [index |-> index, degree |-> entry.degree, offset |-> -1]

\* The vertices are moved from left to right whatever room there is.
FaultyMoveOrder(g, start_vertex, end_vertex, new_index) ==
  [k \in 1 .. end_vertex - start_vertex |-> start_vertex + k - 1]

\* rebalance_data_V1 takes the vertices in groups that end at the first vertex
\* with room to its right, and the vertices of a group from right to left.
MoveOrder(g, start_vertex, end_vertex, new_index) ==
  LET ends == {i \in start_vertex .. end_vertex - 1 :
                 \/ i = end_vertex - 1
                 \/ new_index[i] + g.vertices_[i].degree <= g.vertices_[i + 1].index}
      group_end(v) == Min({e \in ends : e >= v})
      group_start(v) == Max({start_vertex} \cup {e + 1 : e \in {x \in ends : x < v}})
  IN [k \in 1 .. end_vertex - start_vertex |->
        LET v == start_vertex + k - 1 IN group_start(v) + group_end(v) - v]

\* The edge array after the vertices of order, each with onseg[v] cells, have
\* moved one after the other.
Moved(g, order, new_index, onseg) ==
  LET move(h, v) == [h EXCEPT !.edges_ = MoveVertex(g, v, @, new_index[v], onseg[v])]
  IN FoldLeft(move, g, order).edges_

rebalance_data_V1(g, start_vertex, end_vertex, new_index) ==
  release_log(
    [g EXCEPT
       !.edges_ = Moved(g, MoveOrder(g, start_vertex, end_vertex, new_index), new_index,
                        [v \in Vertices |-> onseg_edges(g, v)]),
       !.vertices_ = [v \in Vertices |->
          IF start_vertex <= v /\ v < end_vertex THEN MovedTo(@[v], new_index[v]) ELSE @[v]]],
    SegmentOf(start_vertex), end_vertex \div segment_size)

rebalance_weighted(g, start_vertex, end_vertex, used_space, total_space) ==
  recount_segment_total(
    rebalance_data_V1(g, start_vertex, end_vertex,
      calculate_positions(g, start_vertex, end_vertex, total_space - used_space, used_space)),
    SegmentOf(start_vertex), end_vertex \div segment_size)

\* The assertions of rebalance_weighted and of what it calls.
RebalanceAsserted(g, start_vertex, end_vertex, used_space, total_space) ==
  /\ NextIndex(g, end_vertex - 1) > g.vertices_[start_vertex].index
  /\ total_space = NextIndex(g, end_vertex - 1) - g.vertices_[start_vertex].index
  /\ PositionsAsserted(g, start_vertex, end_vertex, total_space - used_space, used_space)

\* The pivot is not counted.
FaultyResizeCopied(g, v) == g.vertices_[v].degree - 1

\* The number of cells resize_V1 copies for v.  elem_capacity is doubled before
\* the loop, so the last vertex takes the new capacity for its boundary.
ResizeCopied(g, v) ==
  IF g.vertices_[v].offset # -1
  THEN NextIndex([g EXCEPT !.elem_capacity = 2 * @], v) - g.vertices_[v].index
  ELSE g.vertices_[v].degree

ResizePositions(g) ==
  calculate_positions([g EXCEPT !.elem_capacity = 2 * @], 0, num_vertices,
                      2 * g.elem_capacity - g.num_edges_, g.num_edges_)

\* The new edge array, to which the vertices are copied from left to right.
Copied(g, new_indices) ==
  LET zeroed == [c \in 0 .. 2 * g.elem_capacity - 1 |-> 0]
      copy(cells, v) ==
        MergeLog(g, v, CopyCells(g.edges_, cells, g.vertices_[v].index, new_indices[v],
                                 ResizeCopied(g, v)), new_indices[v])
  IN FoldLeft(copy, zeroed, [k \in 1 .. num_vertices |-> k - 1])

\* The graph in its new edge array.
Grown(g) ==
  LET new_indices == ResizePositions(g)
  IN [g EXCEPT
        !.elem_capacity = 2 * @,
        !.edges_ = Copied(g, new_indices),
        !.vertices_ = [v \in Vertices |-> MovedTo(@[v], new_indices[v])]]

resize_V1(g) ==
  release_log(recount_segment_total(Grown(g), 0, leaf_count), 0, leaf_count)

-----------------------------------------------------------------------------
(***************************************************************************)
(* Inserting an edge.                                                       *)
(***************************************************************************)

\* The new entry is not linked to the older ones of its source.
FaultyInsertIntoLog(g, s, src, dst) ==
  [g EXCEPT
     !.log_[s] = Append(@, [u |-> src, v |-> dst, prev_offset |-> -1]),
     !.vertices_[src].offset = Len(g.log_[s])]

insert_into_log(g, s, src, dst) ==
  [g EXCEPT
     !.log_[s] = Append(@, [u |-> src, v |-> dst, prev_offset |-> g.vertices_[src].offset]),
     !.vertices_[src].offset = Len(g.log_[s])]

\* The edge goes to the cell after the last one of src, or to the log.
PlaceEdge(g, src, dst) ==
  LET loc == g.vertices_[src].index + g.vertices_[src].degree IN
  IF have_space_onseg(g, src, loc) THEN [g EXCEPT !.edges_[loc] = dst]
  ELSE insert_into_log(g, SegmentOf(src), src, dst)

FaultyLogIsFull(g, src) == FALSE

\* do_insertion rebalances the leaf first when it finds the log full.
LogIsFull(g, src) ==
  /\ ~have_space_onseg(g, src, g.vertices_[src].index + g.vertices_[src].degree)
  /\ Len(g.log_[SegmentOf(src)]) >= MAX_LOG_ENTRIES

\* The range goes on into the next segment, whose mutex is not held.
FaultyRebalanceLeaf(g, s) ==
  LET both == {s, s + 1} \cap Leaves IN
  rebalance_weighted(g, s * segment_size, (Max(both) + 1) * segment_size,
                     SumOver(g.segment_edges_actual, both),
                     SumOver(g.segment_edges_total, both))

RebalanceLeaf(g, s) ==
  rebalance_weighted(g, s * segment_size, (s + 1) * segment_size,
                     g.segment_edges_actual[s], g.segment_edges_total[s])

\* An edge that goes to the log is not counted in its segment.
FaultyInsertion(g, src, dst) ==
  LET s == SegmentOf(src)
      ready == IF LogIsFull(g, src) THEN RebalanceLeaf(g, s) ELSE g
      logged == ~have_space_onseg(ready, src, ready.vertices_[src].index + ready.vertices_[src].degree)
  IN [PlaceEdge(ready, src, dst) EXCEPT
        !.vertices_[src].degree = @ + 1,
        !.segment_edges_actual[s] = IF logged THEN @ ELSE @ + 1,
        !.num_edges_ = @ + 1]

do_insertion(g, src, dst) ==
  LET s == SegmentOf(src)
      ready == IF LogIsFull(g, src) THEN RebalanceLeaf(g, s) ELSE g
  IN [PlaceEdge(ready, src, dst) EXCEPT
        !.vertices_[src].degree = @ + 1,
        !.segment_edges_actual[s] = @ + 1,
        !.num_edges_ = @ + 1]

\* The assertions of insert_into_log, and of the rebalance before it.
InsertionAsserted(g, src) ==
  LET s == SegmentOf(src) IN
  /\ LogIsFull(g, src) =>
       RebalanceAsserted(g, s * segment_size, (s + 1) * segment_size,
                         g.segment_edges_actual[s], g.segment_edges_total[s])
  /\ ~LogIsFull(g, src) /\ ~have_space_onseg(g, src, g.vertices_[src].index + g.vertices_[src].degree) =>
       /\ Len(g.log_[s]) < MAX_LOG_ENTRIES
       /\ g.vertices_[src].offset < MAX_LOG_ENTRIES

-----------------------------------------------------------------------------
(***************************************************************************)
(* The base graph.                                                          *)
(***************************************************************************)

\* insert(edge_list) packs pivots and edges from cell 0 on.
PackedIndex(v) == v + Cardinality({i \in DOMAIN edge_list : edge_list[i].u < v})
PackedDegree(v) == 1 + Cardinality({i \in DOMAIN edge_list : edge_list[i].u = v})
PackedCell(c) ==
  LET v == Max({w \in Vertices : PackedIndex(w) <= c}) IN
  IF c = PackedIndex(v) THEN -v
  ELSE IF c < PackedIndex(v) + PackedDegree(v) THEN edge_list[c - v].v ELSE 0

Packed ==
  [vertices_ |-> [v \in Vertices |->
      [index |-> PackedIndex(v), degree |-> PackedDegree(v), offset |-> -1]],
   edges_ |-> [c \in 0 .. initial_capacity - 1 |-> PackedCell(c)],
   log_ |-> [s \in Leaves |-> <<>>],
   elem_capacity |-> initial_capacity,
   num_edges_ |-> Len(edge_list) + num_vertices,
   segment_edges_actual |->
     [s \in Leaves |-> SumOver([v \in Vertices |-> PackedDegree(v)], VerticesOf(s))],
   segment_edges_total |-> [s \in Leaves |-> 0]]

\* spread_weighted moves the vertices, the last one first, to their positions;
\* vertex 0 is at its own.
spread_weighted(g) ==
  LET new_positions == calculate_positions(g, 0, num_vertices,
                                           g.elem_capacity - g.num_edges_, g.num_edges_)
  IN recount_segment_total(
       [g EXCEPT
          !.edges_ = Moved(g, [k \in 1 .. num_vertices - 1 |-> num_vertices - k], new_positions,
                           [v \in Vertices |-> g.vertices_[v].degree]),
          !.vertices_ = [v \in Vertices |-> MovedTo(@[v], new_positions[v])]],
       0, leaf_count)

BaseGraph == spread_weighted(Packed)
=============================================================================
