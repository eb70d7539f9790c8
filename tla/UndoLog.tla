------------------------------ MODULE UndoLog ------------------------------
(***************************************************************************)
(* rebalance_data_V1 cell by cell, with the persistent memory under the     *)
(* edge array and the per-thread undo log.  Pma treats a rebalance as one   *)
(* step; here it is the loop of dgap/src/graph.h, so that a crash between   *)
(* two writes can be looked at.  One thread is enough: a rebalance owns its *)
(* segments (DataExclusive of SegmentLocks) and has its own undo log.       *)
(*                                                                         *)
(* Persistent memory is modelled by what a power failure may leave in a     *)
(* cell: any value written since the cell was last flushed, or the flushed  *)
(* one, because a cache may evict a line at any time.  A flush is clwb and  *)
(* sfence (flush_clwb_nolog).  A killed process leaves the values written.  *)
(***************************************************************************)
EXTENDS Pma

CONSTANTS
  MAX_ULOG_ENTRIES,  \* cells of an undo log
  Sources,           \* the sources of the inserted edges
  Inserts            \* bound on the number of insertions

ASSUME UndoLogAssumption ==
  /\ MAX_ULOG_ENTRIES \in Nat \ {0}
  /\ Sources \subseteq 0 .. n_vertices - 1
  /\ Inserts \in Nat

VARIABLES
  graph,      \* the CSRGraph object (Pma)
  media,      \* media[c]: what cell c of edges_ may hold after a power failure
  task,       \* the rebalance in progress, or Idle
  ulog,       \* its undo log and the range [st, nd) it thinks it has saved
  inserted    \* how many edges have been inserted

rebalanceVars == <<graph, media, task, ulog, inserted>>

\* No rebalance is in progress.  next: the sources the next edge may have, a
\* single one when do_insertion has just made room for its edge.  due: the
\* source whose insertion has filled its leaf, until insert() has dealt with it.
IdleFor(next) == [active |-> FALSE, next |-> next, due |-> {}]
Idle == IdleFor(Sources)
Free == ~task.active /\ task.due = {}

\* The cells a power failure may undo.
Dirty == {c \in DOMAIN media : media[c] # {graph.edges_[c]}}

\* The edges and pivots of graph g in the cells C or in a log.
Contents(g, C) ==
  {g.edges_[c] : c \in C} \cup
  UNION {{g.log_[s][i].v : i \in DOMAIN g.log_[s]} : s \in Leaves}

\* The cells that belong to a vertex; the others hold nothing, or copies a
\* rebalance has left behind.
LiveCells(g) ==
  UNION {g.vertices_[v].index .. g.vertices_[v].index + onseg_edges(g, v) - 1 : v \in Vertices}

Flushed(cells) == [c \in DOMAIN cells |-> {cells[c]}]

NoRange == [st |-> 0, nd |-> 0, oplog |-> 0, saved |-> <<>>]

UndoInit ==
  /\ graph = BaseGraph
  /\ media = Flushed(BaseGraph.edges_)
  /\ task = Idle
  /\ ulog = NoRange
  /\ inserted = 0

-----------------------------------------------------------------------------
(***************************************************************************)
(* Which rebalance an insertion of src asks for.                            *)
(***************************************************************************)
WindowAt(src, height) ==
  LET size == 2 ^ height
      left == (SegmentOf(src) \div size) * size
  IN left .. Min({left + size, leaf_count}) - 1

Used(g, window) == SumOver(g.segment_edges_actual, window)
Total(g, window) == SumOver(g.segment_edges_total, window)

\* The heights at which insert() finds a window it may rebalance.
GoodHeights(g, src) ==
  {h \in 1 .. tree_height :
     BelowThreshold(Used(g, WindowAt(src, h)), Total(g, WindowAt(src, h)), h)}

\* The task that rebalances the leaves of window of graph g.
NewTask(g, window, next) ==
  LET start_vertex == Min(window) * segment_size
      end_vertex == (Max(window) + 1) * segment_size
      new_index == calculate_positions(g, start_vertex, end_vertex,
                                       Total(g, window) - Used(g, window), Used(g, window))
  IN [active |-> TRUE, before |-> g, window |-> window, new_index |-> new_index,
      order |-> MoveOrder(g, start_vertex, end_vertex, new_index), written |-> 0,
      unflushed |-> Dirty, next |-> next,
      durable |-> Contents(g, LiveCells(g) \ Dirty)]

-----------------------------------------------------------------------------
(***************************************************************************)
(* The writes of one vertex.                                                *)
(***************************************************************************)

\* A left shift that starts with the last cell.
FaultyShiftWrites(index, to, cells) ==
  [i \in 1 .. cells |-> [left |-> to < index, from |-> index + cells - i, to |-> to + cells - i]]

\* cells cells starting at index go to the cells starting at to: upwards from
\* the first one if that is to the left, downwards from the last one if it is
\* to the right.
ShiftWrites(index, to, cells) ==
  IF to < index
  THEN [i \in 1 .. cells |-> [left |-> TRUE, from |-> index + i - 1, to |-> to + i - 1]]
  ELSE IF to > index
  THEN [i \in 1 .. cells |-> [left |-> FALSE, from |-> index + cells - i, to |-> to + cells - i]]
  ELSE <<>>

\* The log chain, downwards from the last cell of v.
MergeWrites(g, v, to) ==
  LET chain == log_chain(g, v) IN
  [i \in DOMAIN chain |->
     [left |-> FALSE, value |-> chain[i], to |-> to + g.vertices_[v].degree - i]]

VertexWrites(v) ==
  LET to == task.new_index[v] IN
  ShiftWrites(graph.vertices_[v].index, to, onseg_edges(task.before, v))
    \o MergeWrites(graph, v, to)

\* The value a write puts in its cell.
WrittenValue(g, w) == IF "value" \in DOMAIN w THEN w.value ELSE g.edges_[w.from]

-----------------------------------------------------------------------------
(***************************************************************************)
(* load_into_ulog.                                                          *)
(***************************************************************************)
InRange(w) == ulog.st <= w.to /\ w.to < ulog.nd

\* The interval is flushed without its last cell.
FaultyFlushRange(cells) ==
  [c \in DOMAIN media |-> IF ulog.st <= c /\ c < ulog.nd THEN {cells[c]} ELSE media[c]]

\* The flush covers ulog.nd - ulog.st + 1 cells.
FlushRange(cells) ==
  [c \in DOMAIN media |->
     IF ulog.st # ulog.nd /\ ulog.st <= c /\ c <= ulog.nd THEN {cells[c]} ELSE media[c]]

Read(cells, c) == IF c \in DOMAIN cells THEN cells[c] ELSE Garbage

\* The range is taken to reach to the end, or to the start, of the array.
FaultyRangeFor(w) ==
  [st |-> IF w.left THEN w.to ELSE 0,
   nd |-> IF w.left THEN graph.elem_capacity ELSE w.to,
   oplog |-> IF w.left THEN w.to ELSE 0,
   saved |-> [c \in (IF w.left THEN w.to .. graph.elem_capacity - 1 ELSE 0 .. w.to - 1) |->
                Read(graph.edges_, c)]]

\* What is saved before write w, and the range taken to be saved.  A left shift
\* saves upwards from the cell it writes, the others save below it.  The copy is
\* stored in the pool but not flushed: the flush is of the table of pointers to
\* the logs, &ulog_ptr_[tid], so no property counts it as durable.
RangeFor(w) ==
  LET load_sz == IF w.left THEN Min({MAX_ULOG_ENTRIES, graph.elem_capacity - w.to})
                 ELSE IF w.to - MAX_ULOG_ENTRIES >= 0 THEN MAX_ULOG_ENTRIES ELSE w.to
      load_st == IF w.left THEN w.to ELSE w.to - MAX_ULOG_ENTRIES
  IN [st |-> IF w.left THEN w.to ELSE Max({load_st, 0}),
      nd |-> IF w.left THEN w.to + load_sz ELSE w.to,
      oplog |-> load_st,
      saved |-> [c \in load_st .. load_st + load_sz - 1 |-> Read(graph.edges_, c)]]

-----------------------------------------------------------------------------
(***************************************************************************)
(* The actions.                                                             *)
(***************************************************************************)

\* An edge every destination of which is a number of its own (insert() never
\* looks at a destination), greater than every vertex.
FreshDst == num_vertices + inserted

\* do_insertion with room in place or in the log: the cell is stored and
\* flushed, then counted, and insert() looks at the density of the leaf.
InsertNow(src) ==
  LET g == do_insertion(graph, src, FreshDst)
      loc == graph.vertices_[src].index + graph.vertices_[src].degree
      in_place == have_space_onseg(graph, src, loc)
  IN
  /\ Free /\ src \in task.next /\ inserted < Inserts
  /\ ~LogIsFull(graph, src)
  /\ graph' = g
  /\ media' = IF in_place THEN [media EXCEPT ![loc] = {FreshDst}] ELSE media
  /\ inserted' = inserted + 1
  /\ task' = [Idle EXCEPT !.due = IF LeafIsFull(g, SegmentOf(src)) THEN {src} ELSE {}]
  /\ UNCHANGED ulog

Begin(window, next) ==
  /\ task' = NewTask(graph, window, next)
  /\ ulog' = [NoRange EXCEPT !.st = NextIndex(graph, (Max(window) + 1) * segment_size - 1),
                             !.nd = NextIndex(graph, (Max(window) + 1) * segment_size - 1)]
  /\ UNCHANGED <<graph, media, inserted>>

\* do_insertion rebalances the leaf when its log is full.
BeginLeaf(src) ==
  /\ Free /\ src \in task.next /\ inserted < Inserts
  /\ LogIsFull(graph, src)
  /\ Begin({SegmentOf(src)}, {src})

\* insert() rebalances the smallest window that is sparse enough when the leaf
\* is full; the leaf may be full after that too, until the next insertion.
BeginWindow(src) ==
  /\ ~task.active /\ src \in task.due
  /\ GoodHeights(graph, src) # {}
  /\ Begin(WindowAt(src, Min(GoodHeights(graph, src))), Sources)

\* The next cell, after saving and flushing if it is outside the range.
WriteCell ==
  /\ task.active /\ task.order # <<>>
  /\ LET v == Head(task.order) IN
     /\ task.written < Len(VertexWrites(v))
     /\ LET w == VertexWrites(v)[task.written + 1]
            value == WrittenValue(graph, w)
            flushed == IF InRange(w) THEN media ELSE FlushRange(graph.edges_)
        IN /\ ulog' = IF InRange(w) THEN ulog ELSE RangeFor(w)
           /\ graph' = [graph EXCEPT !.edges_[w.to] = value]
           /\ media' = [flushed EXCEPT ![w.to] = @ \cup {value}]
  /\ task' = [task EXCEPT !.written = @ + 1]
  /\ UNCHANGED inserted

\* The vertex has arrived.
FinishVertex ==
  /\ task.active /\ task.order # <<>>
  /\ LET v == Head(task.order) IN
     /\ task.written = Len(VertexWrites(v))
     /\ graph' = [graph EXCEPT !.vertices_[v].index = task.new_index[v],
                               !.vertices_[v].offset = -1]
  /\ task' = [task EXCEPT !.order = Tail(@), !.written = 0]
  /\ UNCHANGED <<media, ulog, inserted>>

\* The logs of the window are released and its totals recounted.  The flush in
\* release_log is of the pointer table, not of the log.
FinishRebalance ==
  /\ task.active /\ task.order = <<>>
  /\ LET left == Min(task.window)
         right == Max(task.window) + 1
     IN graph' = recount_segment_total(release_log(graph, left, right), left, right)
  /\ task' = IdleFor(task.next)
  /\ UNCHANGED <<media, ulog, inserted>>

RebalanceStep == WriteCell \/ FinishVertex \/ FinishRebalance

-----------------------------------------------------------------------------
(***************************************************************************)
(* Properties.                                                              *)
(***************************************************************************)

\* The loop of rebalance_data_V1, cell after cell and vertex after vertex in
\* groups, has the effect Pma gives it as one step.
LoopIsOneStep ==
  [][FinishRebalance =>
       graph' = rebalance_weighted(task.before, Min(task.window) * segment_size,
                                   (Max(task.window) + 1) * segment_size,
                                   Used(task.before, task.window),
                                   Total(task.before, task.window))]_rebalanceVars

\* Whenever it stops, a power failure can undo nothing a rebalance has written
\* outside the range it is working on: load_into_ulog has flushed every earlier
\* range, first cells of right shifts included.
EarlierRangesFlushed ==
  task.active => Dirty \subseteq task.unflushed \cup ulog.st .. ulog.nd

\* Of what was durable when a rebalance began, a power failure can lose no more
\* than one range of cells, however long the rebalance and wherever it stops: the
\* cells written since the last flush all lie in that range, and what they held
\* before is nowhere else only if it was moved within it.  The undo log does not
\* count, as load_into_ulog does not flush it.
LossBounded ==
  task.active =>
    Cardinality(task.durable \ Contents(graph, DOMAIN media \ Dirty)) <= MAX_ULOG_ENTRIES

\* Every cell of the range the loop takes to be saved is in the undo log, under
\* the address the oplog entry records: "make an entry in the oplog to track
\* the @edge_array range saved in the ulog" (graph.h:1305).
RangeSaved == task.active => ulog.st .. ulog.nd - 1 \subseteq DOMAIN ulog.saved
=============================================================================
