-------------------------------- MODULE Dgap --------------------------------
(***************************************************************************)
(* Concurrent edge insertion into DGAP: the lock protocol of SegmentLocks   *)
(* driving the data structure of Pma.  Every action is an action of         *)
(* SegmentLocks together with what the same lines of CSRGraph::insert do to *)
(* the graph; the densities SegmentLocks leaves open are computed here.     *)
(*                                                                         *)
(* A step that works on the graph is one action.  This is the granularity   *)
(* of the mutexes: DataExclusive of SegmentLocks says that no other thread  *)
(* works on the same segments meanwhile, and BoundaryFixed below that the   *)
(* one field of another segment such a step reads, the index of the next    *)
(* segment's first vertex, does not move under it.                          *)
(***************************************************************************)
EXTENDS SegmentLocks, Pma

CONSTANTS
  Sources,   \* Sources[t]: the sources of the edges thread t is handed
  Dsts       \* their destinations

ASSUME DgapAssumption ==
  /\ segment_count = leaf_count
  /\ Sources \in [Threads -> SUBSET Vertices]

VARIABLES
  graph,     \* the fields of the CSRGraph object
  arg        \* the arguments (src, dst) of each thread's insert()

dataVars == <<graph, arg>>
vars == <<lockVars, dataVars>>

Init ==
  /\ LocksInit
  /\ graph = BaseGraph
  /\ arg = [t \in Threads |-> [src |-> 0, dst |-> 0]]

Window(t) == left_segment[t] .. right_segment[t] - 1

\* seg_meta, the counts lock_in_batch sums up while it takes the mutexes.
UsedSpace(t) == SumOver(graph.segment_edges_actual, Window(t))
TotalSpace(t) == SumOver(graph.segment_edges_total, Window(t))

-----------------------------------------------------------------------------
InsertCall(t, src, dst) ==
  /\ Call(t, SegmentOf(src))
  /\ arg' = [arg EXCEPT ![t] = [src |-> src, dst |-> dst]]
  /\ UNCHANGED graph

InsertEdge(t) ==
  LET g == do_insertion(graph, arg[t].src, arg[t].dst) IN
  /\ graph' = g
  /\ DoInsertion(t, LeafIsFull(g, current_segment[t]))
  /\ UNCHANGED arg

TestWindow(t) ==
  /\ Decide(t, BelowThreshold(UsedSpace(t), TotalSpace(t), floor_log2(span[t])))
  /\ UNCHANGED dataVars

RebalanceWindow(t) ==
  /\ Rebalance(t)
  /\ graph' = IF LeafIsFull(graph, current_segment[t])
              THEN rebalance_weighted(graph, left_segment[t] * segment_size,
                                      right_segment[t] * segment_size,
                                      UsedSpace(t), TotalSpace(t))
              ELSE graph
  /\ UNCHANGED arg

\* The density is read without the mutex.  While another thread is inside
\* resize_V1, recount_segment_total may just have zeroed the totals: then the
\* leaf looks full whatever it holds.
TestLeafAgain(t) ==
  /\ \E dense \in {LeafIsFull(graph, current_segment[t])} \cup
                  {d \in {TRUE} : \E u \in Threads \ {t} : pc[u] = "resize"} :
       NoSpace(t, dense)
  /\ UNCHANGED dataVars

ResizeGraph(t) ==
  /\ Resize(t)
  /\ graph' = resize_V1(graph)
  /\ UNCHANGED arg

\* The steps that only take, count and release.
LockStep(t) ==
  /\ \/ EnterLeaf(t)
     \/ WaitForRebalance(t)
     \/ ReadCounter(t)
     \/ WriteCounter(t)
     \/ Climb(t)
     \/ CountIn(t)
     \/ LockOne(t)
     \/ CountOut(t)
     \/ UnlockOne(t)
  /\ UNCHANGED dataVars

\* What thread t does inside insert(), of its own accord.
Proceed(t) ==
  \/ InsertEdge(t)
  \/ TestWindow(t)
  \/ RebalanceWindow(t)
  \/ TestLeafAgain(t)
  \/ ResizeGraph(t)
  \/ LockStep(t)

\* What the standard allows a condition variable to do.
Spurious(t) == SpuriousWakeup(t) /\ UNCHANGED dataVars

Finished == \A t \in Threads : pc[t] = "idle" /\ todo[t] = 0

\* The parallel loop has ended.
Terminated == Finished /\ UNCHANGED vars

Next ==
  \/ \E t \in Threads :
       \/ \E src \in Sources[t], dst \in Dsts : InsertCall(t, src, dst)
       \/ Proceed(t)
       \/ Spurious(t)
  \/ Terminated

Spec == Init /\ [][Next]_vars

\* A thread goes on with its part of the edge list whenever it can.  Nothing is
\* assumed of spurious wakeups: a waiter must be notified.
Fairness ==
  \A t \in Threads :
    WF_vars((\E src \in Sources[t], dst \in Dsts : InsertCall(t, src, dst)) \/ Proceed(t))

FairSpec == Spec /\ Fairness

-----------------------------------------------------------------------------
(***************************************************************************)
(* Properties of the data structure.                                        *)
(***************************************************************************)

\* Every field of the graph has its type, and the cells of the edge array are
\* exactly those below elem_capacity.
GraphTypeOK ==
  /\ DOMAIN graph.vertices_ = Vertices
  /\ \A v \in Vertices :
       /\ graph.vertices_[v].index \in 0 .. graph.elem_capacity - 1
       /\ graph.vertices_[v].degree \in Nat \ {0}
       /\ graph.vertices_[v].offset \in -1 .. MAX_LOG_ENTRIES - 1
  /\ DOMAIN graph.edges_ = 0 .. graph.elem_capacity - 1
  /\ \A s \in Leaves : Len(graph.log_[s]) <= MAX_LOG_ENTRIES
  /\ DOMAIN arg = Threads

\* The vertices lie in the edge array in order, each starting at its pivot,
\* and what edges_ holds of a vertex ends before the next one starts.  This is
\* what edge_list_boundary_sanity_checker looks for, with the edges of the log
\* left out, and in every state of every interleaving.
Layout ==
  \A v \in Vertices :
    LET e == graph.vertices_[v] IN
    /\ onseg_edges(graph, v) >= 1
    /\ e.index + onseg_edges(graph, v) <= NextIndex(graph, v)
    /\ NextIndex(graph, v) <= graph.elem_capacity
    /\ graph.edges_[e.index] = -v

\* The counts do_insertion, rebalance_weighted and resize_V1 maintain step by
\* step are the sums of the degrees and the distances between the first vertices
\* of the segments, which reconstruct_pma_tree would compute from scratch.
CountsExact ==
  /\ graph.segment_edges_actual =
       [s \in Leaves |-> SumOver([v \in Vertices |-> graph.vertices_[v].degree], VerticesOf(s))]
  /\ \A s \in Leaves :
       LET first(r) == IF r = leaf_count THEN graph.elem_capacity
                       ELSE graph.vertices_[r * segment_size].index
       IN graph.segment_edges_total[s] = first(s + 1) - first(s)
  /\ graph.num_edges_ = SumOver(graph.segment_edges_actual, Leaves)

\* The edges of v in the log of its segment are a chain of degree - onseg
\* entries that belong to v, and every entry of a log is in such a chain.
LogExact ==
  /\ \A v \in Vertices :
       Len(log_chain(graph, v)) = graph.vertices_[v].degree - onseg_edges(graph, v)
  /\ \A s \in Leaves : \A v \in Vertices :
       Cardinality({i \in DOMAIN graph.log_[s] : graph.log_[s][i].u = v}) =
         IF SegmentOf(v) = s THEN Len(log_chain(graph, v)) ELSE 0

\* The assertions of insert_into_log, calculate_positions, rebalance_weighted
\* hold whenever a thread is about to run that code.
AssertionsHold ==
  \A t \in Threads :
    /\ pc[t] = "insert" => InsertionAsserted(graph, arg[t].src)
    /\ pc[t] = "rebalance" /\ LeafIsFull(graph, current_segment[t]) =>
         RebalanceAsserted(graph, left_segment[t] * segment_size,
                           right_segment[t] * segment_size, UsedSpace(t), TotalSpace(t))
    /\ pc[t] = "resize" =>
         PositionsAsserted([graph EXCEPT !.elem_capacity = 2 * @], 0, num_vertices,
                           2 * graph.elem_capacity - graph.num_edges_, graph.num_edges_)

\* The index of the first vertex of segment s, which do_insertion of the
\* segment before also reads, changes only in a step of a thread that owns the
\* mutexes of both segments.
BoundaryFixed ==
  [][\A s \in Leaves \ {0} :
       graph'.vertices_[s * segment_size].index # graph.vertices_[s * segment_size].index =>
         \E t \in Threads : {s - 1, s} \subseteq HeldSegments(t) /\ pc'[t] # pc[t]]_vars

-----------------------------------------------------------------------------
(***************************************************************************)
(* Properties of the calls.                                                 *)
(***************************************************************************)

\* Every call of insert() returns: no thread waits for ever for a mutex or for
\* the end of a rebalance (lost wakeups, leaked registrations or mutexes, and
\* deadlocks between batches would all show here).
EveryInsertReturns == \A t \in Threads : pc[t] # "idle" ~> pc[t] = "idle"

\* A thread that is not inside insert() owns no mutex.
NoLockKept ==
  \A t \in Threads : pc[t] = "idle" => \A s \in Segments : lock[s] # t

\* on_rebalance counts the rebalances that involve a segment, each of which is
\* counted in before it is counted out.
CounterNotNegative == \A s \in Segments : on_rebalance[s] >= 0

\* resize_V1 copies, for each vertex, the cells it has in the old array.
ResizeCopiesCells ==
  (\E t \in Threads : pc[t] = "resize") =>
    \A v \in Vertices : ResizeCopied(graph, v) = onseg_edges(graph, v)

-----------------------------------------------------------------------------
(***************************************************************************)
(* Refinement: insertion is GraphStore's.                                   *)
(***************************************************************************)

\* The edges of v, oldest first, as a reader of out_neigh(v) can tell: the
\* iteration visits the cells in order and then the log from its newest entry.
Adjacency(v) ==
  LET visited == out_neigh(graph, v)
      cells == onseg_edges(graph, v) - 1
  IN SubSeq(visited, 1, cells) \o Reverse(SubSeq(visited, cells + 1, Len(visited)))

\* The base graph's edges of v, which edge_list has one after the other.
BaseAdjacency(v) ==
  LET before == Cardinality({i \in DOMAIN edge_list : edge_list[i].u < v})
      mine == {i \in DOMAIN edge_list : edge_list[i].u = v}
  IN [i \in 1 .. Cardinality(mine) |-> edge_list[before + i].v]

CallOf(t) ==
  IF pc[t] = "idle" THEN [busy |-> FALSE]
  ELSE [busy |-> TRUE, u |-> arg[t].src, v |-> arg[t].dst,
        added |-> pc[t] \notin {"lock", "wait", "insert"}]

Store == INSTANCE GraphStore WITH
  Callers <- Threads,
  Nodes <- Vertices,
  Targets <- Dsts,
  BaseAdj <- [v \in Vertices |-> BaseAdjacency(v)],
  adj <- [v \in Vertices |-> Adjacency(v)],
  calls <- [t \in Threads |-> CallOf(t)]

\* Every insert(src, dst) appends its edge to the list of src exactly once
\* between call and return; waiting, searching, rebalancing, merging logs and
\* resizing by any thread lose, duplicate, reorder or invent no edge.
StoreRefined == Store!StoreSpec
=============================================================================
