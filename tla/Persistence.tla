---------------------------- MODULE Persistence ----------------------------
(***************************************************************************)
(* The life of a database file of dgap: ingestion, shutdown (~CSRGraph),    *)
(* the death of the process at any moment, and the constructor that opens   *)
(* the file again, from the backups if the flag backed_up_ is set, by       *)
(* recovery() if not.  Ingestion is that of UndoLog; a resize is the durable *)
(* steps of resize_V1, which are actions of this module.                    *)
(*                                                                         *)
(* vertices_, the counts and log_segment_idx_ live in DRAM and have backups *)
(* in the pool; edges_, the logs and the root object live in the pool.      *)
(* root is the root object with the backups it names; rootMedia[f] is what  *)
(* a power failure may leave in field f, as media is for the edge array.    *)
(* The field edges_oid_ is the number of cells of the array it names, 0 for *)
(* OID_NULL.                                                                *)
(***************************************************************************)
EXTENDS UndoLog, FiniteSets

CONSTANTS
  Uninitialised,  \* what a field of a block fresh from malloc may hold
  Beyond          \* how many cells behind the edge array the next zero may be

\* The pool is mapped and has a zero somewhere behind the array.
ASSUME PersistenceAssumption ==
  /\ Uninitialised \subseteq Int /\ Uninitialised # {}
  /\ Beyond \subseteq Nat /\ Beyond # {}

VARIABLES
  phase,      \* ingesting, freed, installed (the inside of a resize), closing,
              \* off, open (read-only, after a reopen), or failed
  root,       \* the root object and the backups
  rootMedia,  \* rootMedia[f]: what f may hold after a power failure
  closing,    \* the fields ~CSRGraph has still to write, and whether the first
              \* of them is copied but not flushed
  last        \* the pool when ingestion stopped, and how it stopped

persistVars == <<graph, media, task, ulog, inserted, phase, root, rootMedia, closing, last>>
poolVars == <<phase, root, rootMedia, closing, last>>

\* What ~CSRGraph writes, in this order.
CloseOrder == <<"vertices_", "log_segment_idx_", "segment_edges_actual",
                "segment_edges_total", "num_edges_", "elem_capacity", "backed_up_">>

NothingToClose == [todo |-> <<>>, copied |-> FALSE]

log_segment_idx_(g) == [s \in Leaves |-> Len(g.log_[s])]

Backup(g, f) ==
  CASE f = "backed_up_" -> TRUE
    [] f = "log_segment_idx_" -> log_segment_idx_(g)
    [] OTHER -> g[f]

\* What the constructor leaves in a new file: zeroed blocks, and the number of
\* edges of the edge list.
NewRoot ==
  [edges_oid_ |-> initial_capacity,
   elem_capacity |-> initial_capacity,
   num_edges_ |-> Len(edge_list),
   vertices_ |-> [v \in Vertices |-> [index |-> 0, degree |-> 0, offset |-> 0]],
   log_segment_idx_ |-> [s \in Leaves |-> 0],
   segment_edges_actual |-> [s \in Leaves |-> 0],
   segment_edges_total |-> [s \in Leaves |-> 0],
   backed_up_ |-> FALSE]

PersistInit ==
  /\ UndoInit
  /\ phase = "ingesting"
  /\ root = NewRoot
  /\ rootMedia = [f \in DOMAIN NewRoot |-> {NewRoot[f]}]
  /\ closing = NothingToClose
  /\ last = [pool |-> graph, quiet |-> TRUE]

-----------------------------------------------------------------------------
(***************************************************************************)
(* Ingestion.                                                               *)
(***************************************************************************)
Ingest ==
  /\ phase = "ingesting"
  /\ \/ \E src \in Sources : InsertNow(src) \/ BeginLeaf(src) \/ BeginWindow(src)
     \/ RebalanceStep
  /\ UNCHANGED poolVars

\* Field f of the root object is stored and flushed.
Store(f, value) ==
  /\ root' = [root EXCEPT ![f] = value]
  /\ rootMedia' = [rootMedia EXCEPT ![f] = {value}]

\* The leaf of src is full, and so is every window around it.
NoRoomFor(src) == ~task.active /\ src \in task.due /\ GoodHeights(graph, src) = {}

\* The new size is recorded while the old array is still in place.
FaultyResizeFree ==
  /\ phase = "ingesting"
  /\ \E src \in Sources : NoRoomFor(src)
  /\ phase' = "freed"
  /\ Store("elem_capacity", 2 * graph.elem_capacity)
  /\ UNCHANGED <<rebalanceVars, closing, last>>

\* resize_V1 has filled and flushed a new array; the old one is freed, which
\* clears the field that names it ...
ResizeFree ==
  /\ phase = "ingesting"
  /\ \E src \in Sources : NoRoomFor(src)
  /\ phase' = "freed"
  /\ Store("edges_oid_", 0)
  /\ UNCHANGED <<rebalanceVars, closing, last>>

\* ... the new one takes its place ...
ResizeInstall ==
  /\ phase = "freed"
  /\ phase' = "installed"
  /\ graph' = [resize_V1(graph) EXCEPT !.log_ = graph.log_]
  /\ media' = Flushed(resize_V1(graph).edges_)
  /\ Store("edges_oid_", 2 * graph.elem_capacity)
  /\ UNCHANGED <<task, ulog, inserted, closing, last>>

\* ... and its size is recorded.
ResizeRecord ==
  /\ phase = "installed"
  /\ phase' = "ingesting"
  /\ Store("elem_capacity", graph.elem_capacity)
  /\ graph' = release_log(graph, 0, leaf_count)
  /\ task' = Idle
  /\ UNCHANGED <<media, ulog, inserted, closing, last>>

-----------------------------------------------------------------------------
(***************************************************************************)
(* Shutdown and death.                                                      *)
(***************************************************************************)

\* The flag is written before what it vouches for.
FaultyCloseFields == <<"backed_up_">> \o SelectSeq(CloseOrder, LAMBDA f : f # "backed_up_")

CloseFields == CloseOrder

\* The program returns from main, after ingestion or after an analysis of a
\* file it has found.
Close ==
  /\ \/ phase = "ingesting" /\ Free /\ inserted = Inserts
     \/ phase = "open"
  /\ phase' = "closing"
  /\ closing' = [todo |-> CloseFields, copied |-> FALSE]
  /\ last' = IF phase = "ingesting" THEN [pool |-> graph, quiet |-> TRUE] ELSE last
  /\ UNCHANGED <<rebalanceVars, root, rootMedia>>

\* The next field is copied ...
CopyField ==
  /\ phase = "closing" /\ closing.todo # <<>> /\ ~closing.copied
  /\ LET f == Head(closing.todo) IN
     /\ root' = [root EXCEPT ![f] = Backup(graph, f)]
     /\ rootMedia' = [rootMedia EXCEPT ![f] = @ \cup {Backup(graph, f)}]
  /\ closing' = [closing EXCEPT !.copied = TRUE]
  /\ UNCHANGED <<rebalanceVars, phase, last>>

\* ... and flushed.
FlushField ==
  /\ phase = "closing" /\ closing.copied
  /\ LET f == Head(closing.todo) IN rootMedia' = [rootMedia EXCEPT ![f] = {root[f]}]
  /\ closing' = [todo |-> Tail(closing.todo), copied |-> FALSE]
  /\ UNCHANGED <<rebalanceVars, phase, root, last>>

CloseDone ==
  /\ phase = "closing" /\ closing = NothingToClose
  /\ phase' = "off"
  /\ UNCHANGED <<rebalanceVars, root, rootMedia, closing, last>>

\* The process is killed; what it has stored in the pool stays.  A file that is
\* open for reading is only killed in its shutdown: before that nothing is
\* stored.
Kill ==
  /\ phase \in {"ingesting", "freed", "installed", "closing"}
  /\ phase' = "off"
  /\ last' = IF phase = "closing" THEN last ELSE [pool |-> graph, quiet |-> ~task.active]
  /\ closing' = NothingToClose
  /\ task' = Idle
  /\ UNCHANGED <<graph, media, ulog, inserted, root, rootMedia>>

-----------------------------------------------------------------------------
(***************************************************************************)
(* recovery().                                                              *)
(***************************************************************************)

\* The cells at which the scan of vertex 0 may end.
EmptyAfter0(cells) == {c \in DOMAIN cells : c >= 1 /\ cells[c] = 0}

\* The pivot of vertex 0 looks like an empty cell, so its cells are counted up
\* to the first empty one, whatever they hold.  The loop looks at no bound: when
\* the array has no empty cell it goes on behind it, over over cells.
EndOfVertex0(cells, over) ==
  IF EmptyAfter0(cells) = {} THEN Cardinality(DOMAIN cells) + over ELSE Min(EmptyAfter0(cells))

\* The vertex the scan counts cell c for, when vertex 0 ends at cell end: that of
\* the last pivot it has met.
ScannedOwner(cells, end, c) ==
  LET pivots == {d \in end .. c : cells[d] < 0}
  IN IF pivots = {} THEN 0 ELSE -cells[Max(pivots)]

\* The non-empty cells from end on, of the cap cells, that are counted for one of
\* the vertices vs.
CountedFor(cells, end, cap, vs) ==
  {c \in end .. cap - 1 : cells[c] # 0 /\ ScannedOwner(cells, end, c) \in vs}

\* The pivot itself is not counted.
FaultyRecoveredVertex(cells, end, cap, v, junk) ==
  LET pivots == {c \in end .. cap - 1 : cells[c] = -v} IN
  IF v = 0 THEN [index |-> 0, degree |-> end - 1, offset |-> junk]
  ELSE IF pivots = {} THEN [index |-> junk, degree |-> junk, offset |-> junk]
  ELSE [index |-> Max(pivots), offset |-> junk,
        degree |-> Cardinality({c \in CountedFor(cells, end, cap, {v}) : c > Max(pivots)})]

\* A pivot starts its vertex anew.  The offset is never set, nor is a vertex
\* without a pivot.
RecoveredVertex(cells, end, cap, v, junk) ==
  LET pivots == {c \in end .. cap - 1 : cells[c] = -v} IN
  IF v = 0
  THEN [index |-> 0, offset |-> junk,
        degree |-> end + Cardinality(CountedFor(cells, end, cap, {0}))]
  ELSE IF pivots = {} THEN [index |-> junk, degree |-> junk, offset |-> junk]
  ELSE [index |-> Max(pivots), offset |-> junk,
        degree |-> Cardinality({c \in CountedFor(cells, end, cap, {v}) : c >= Max(pivots)})]

\* log_segment_idx_ is the position of the last entry before the first that has
\* a zero in it; it is not set when that is the first of all.  A log whose count is
\* below zero reads as an empty one.
RecoveredLogIdx(log, junk) ==
  LET complete(i) == log[i].u # 0 /\ log[i].v # 0 /\ log[i].prev_offset # 0
      scanned == {n \in 0 .. Len(log) : \A i \in 1 .. n : complete(i)}
  IN IF Max(scanned) = 0 THEN junk ELSE Max(scanned) - 1

\* The graph recovery() makes of the edge array and the logs of pool, when it
\* takes vertex 0 to end at cell end and looks at cap cells.
recovery(pool, end, cap, junk) ==
  LET cells == pool.edges_
      counted(vs) == Cardinality(CountedFor(cells, end, cap, vs))
  IN recount_segment_total(
       [pool EXCEPT
          !.elem_capacity = cap,
          !.vertices_ = [v \in Vertices |-> RecoveredVertex(cells, end, cap, v, junk)],
          !.num_edges_ = end + counted(Vertices),
          !.segment_edges_actual =
             [s \in Leaves |-> (IF s = 0 THEN end ELSE 0) + counted(VerticesOf(s))],
          !.log_ = [s \in Leaves |-> SubSeq(@[s], 1, RecoveredLogIdx(@[s], junk))]],
       0, leaf_count)

\* The counts of the logs are taken for those of a new file.
FaultyRestored(pool) ==
  [pool EXCEPT
     !.vertices_ = root.vertices_,
     !.segment_edges_actual = root.segment_edges_actual,
     !.segment_edges_total = root.segment_edges_total,
     !.num_edges_ = root.num_edges_, !.elem_capacity = root.elem_capacity,
     !.log_ = [s \in Leaves |-> <<>>]]

\* The graph the constructor makes of the backups.
Restored(pool) ==
  [pool EXCEPT
     !.vertices_ = root.vertices_,
     !.segment_edges_actual = root.segment_edges_actual,
     !.segment_edges_total = root.segment_edges_total,
     !.num_edges_ = root.num_edges_, !.elem_capacity = root.elem_capacity,
     !.log_ = [s \in Leaves |-> SubSeq(@[s], 1, root.log_segment_idx_[s])]]

\* The constructor finds the file.  MakeGraph inserts nothing after that.
ReopenBackup ==
  /\ phase = "off" /\ root.backed_up_
  /\ phase' = "open"
  /\ graph' = Restored(last.pool)
  /\ UNCHANGED <<media, task, ulog, inserted, root, rootMedia, closing, last>>

ReopenRecovery ==
  /\ phase = "off" /\ ~root.backed_up_ /\ root.edges_oid_ # 0
  /\ phase' = "open"
  /\ \E junk \in Uninitialised, over \in Beyond :
       LET end == EndOfVertex0(last.pool.edges_, over)
           g == recovery(last.pool, end, root.elem_capacity, junk)
       IN
       /\ graph' = g
       /\ Store("num_edges_", g.num_edges_)
  /\ UNCHANGED <<media, task, ulog, inserted, closing, last>>

\* There is no array to scan.
ReopenFails ==
  /\ phase = "off" /\ ~root.backed_up_ /\ root.edges_oid_ = 0
  /\ phase' = "failed"
  /\ UNCHANGED <<rebalanceVars, root, rootMedia, closing, last>>

PersistNext ==
  \/ Ingest \/ ResizeFree \/ ResizeInstall \/ ResizeRecord
  \/ Close \/ CopyField \/ FlushField \/ CloseDone
  \/ Kill
  \/ ReopenBackup \/ ReopenRecovery \/ ReopenFails

PersistSpec == PersistInit /\ [][PersistNext]_persistVars

-----------------------------------------------------------------------------
(***************************************************************************)
(* Properties.                                                              *)
(***************************************************************************)

\* The vertex a scan of the edge array takes cell c for: the last one whose
\* pivot it has met.  The pivot of vertex 0 looks like an empty cell.
ScanOwner(c) ==
  LET pivots == {d \in 0 .. c : graph.edges_[d] < 0} IN
  IF pivots = {} THEN 0 ELSE -graph.edges_[Max(pivots)]

\* A process killed between any two writes of a rebalance leaves, of every edge
\* of every vertex, a copy after a pivot of that vertex with no other pivot in
\* between, or the entry in the log; the copy is among the cells that the root
\* object names and counts.  The order of groups, vertices and cells, and
\* releasing the logs last, are what this needs.  It is about what the pool still
\* holds, not about what recovery() makes of it, and about nothing that happens
\* within resize_V1, where the root object names another array or none.
EveryEdgeFound ==
  LET g == IF task.active THEN task.before ELSE graph IN
  phase = "ingesting" =>
    /\ DOMAIN graph.edges_ = 0 .. root.edges_oid_ - 1
    /\ \A v \in Vertices :
      LET edges == out_neigh(g, v) IN
      \A i \in DOMAIN edges :
        \/ \E c \in 0 .. root.elem_capacity - 1 : graph.edges_[c] = edges[i] /\ ScanOwner(c) = v
        \/ \E j \in DOMAIN graph.log_[SegmentOf(v)] :
             /\ graph.log_[SegmentOf(v)][j].u = v
             /\ graph.log_[SegmentOf(v)][j].v = edges[i]

\* No assert() of a rebalance or of resize_V1 fails; those of insert_into_log
\* are about what LogIsFull tests.
AssertionsHold ==
  /\ task.active =>
       RebalanceAsserted(task.before, Min(task.window) * segment_size,
                         (Max(task.window) + 1) * segment_size,
                         Used(task.before, task.window), Total(task.before, task.window))
  /\ phase # "installed" =>
       \A src \in Sources : NoRoomFor(src) =>
         PositionsAsserted([graph EXCEPT !.elem_capacity = 2 * @], 0, num_vertices,
                           2 * graph.elem_capacity - graph.num_edges_, graph.num_edges_)

\* A graph opened from its backups is the graph that was shut down, whatever
\* number of shutdowns lie between: every field the constructor reads has been
\* backed up, logs included.
CleanReopen ==
  [][ReopenBackup => graph' = graph]_persistVars

\* If a power failure may leave the flag set, it leaves every backup complete
\* ("write flag indicating data has been backed up properly", graph.h:354).
FlagMeansComplete ==
  TRUE \in rootMedia["backed_up_"] =>
    \A f \in DOMAIN root \ {"backed_up_", "edges_oid_"} : rootMedia[f] = {Backup(graph, f)}

\* The cells outside the vertices are empty, those of vertex 0 are followed by
\* an empty one, and the logs are empty.
NothingToMistake(g) ==
  /\ \A c \in DOMAIN g.edges_ \ LiveCells(g) : g.edges_[c] = 0
  /\ \A c \in LiveCells(g) : g.edges_[c] # 0 \/ c = 0
  /\ onseg_edges(g, 0) < g.vertices_[1].index
  /\ \A s \in Leaves : g.log_[s] = <<>>

\* What out_neigh() reads at v after recovery(): as the offset is not set, all
\* cells up to the next vertex, unless the memory happened to hold -1.
ReadsRight(g, v) ==
  \/ g.vertices_[v].offset = -1
  \/ g.vertices_[v].degree <= 1
  \/ NextIndex(g, v) - g.vertices_[v].index = g.vertices_[v].degree

\* Of a graph in which no rebalance has left copies behind, outside a resize,
\* recovery() rebuilds the indices and degrees of the vertices and the counts of
\* the segments, but not the offsets: a vertex that has edges and a gap behind
\* them is read with the cells of the gap, as edges to vertex 0, if its offset is
\* anything but -1, and the other vertices are read as they were.  What recovery()
\* makes of copies left behind is the matter of RecoveredDegrees.
RecoveryExact ==
  [][ReopenRecovery /\ last.quiet /\ NothingToMistake(last.pool)
       /\ root.elem_capacity = last.pool.elem_capacity =>
     /\ \A v \in Vertices :
          /\ graph'.vertices_[v].index = last.pool.vertices_[v].index
          /\ graph'.vertices_[v].degree = last.pool.vertices_[v].degree
          /\ out_neigh(graph', v) = out_neigh(last.pool, v) <=> ReadsRight(graph', v)
     /\ graph'.num_edges_ = last.pool.num_edges_
     /\ graph'.segment_edges_actual = last.pool.segment_edges_actual
     /\ graph'.segment_edges_total = last.pool.segment_edges_total]_persistVars

\* "rebuild vertices_ by scanning edges_" (graph.h:558): the degrees of a graph
\* whose edges are all in the edge array.
RecoveredDegrees ==
  [][ReopenRecovery /\ last.quiet /\ root.elem_capacity = last.pool.elem_capacity
       /\ (\A s \in Leaves : last.pool.log_[s] = <<>>) =>
     \A v \in Vertices : graph'.vertices_[v].degree = last.pool.vertices_[v].degree]_persistVars

\* "initialize log_segment_idx_ by scanning the log_ptr_[sid]" (graph.h:605).
RecoveredLogs ==
  [][ReopenRecovery => log_segment_idx_(graph') = log_segment_idx_(last.pool)]_persistVars

\* "size of the edges_ array" (graph.h:151): the size of the array the
\* root object names, whenever the process may have died.
CapacityOfArray == phase = "off" => root.elem_capacity = root.edges_oid_

\* If the array has an empty cell behind the pivot of vertex 0, the loop that
\* counts vertex 0 ends within the array and so does the scan behind it, at
\* whatever step of resize_V1 the process has died: the size that is recorded is
\* never more than that of the array.  Without an empty cell nothing stops the
\* first loop (ScanStops).
ScanInside ==
  phase = "off" /\ ~root.backed_up_ /\ root.edges_oid_ # 0 /\ EmptyAfter0(last.pool.edges_) # {} =>
    \A over \in Beyond :
      /\ EndOfVertex0(last.pool.edges_, over) \in 0 .. root.edges_oid_ - 1
      /\ EndOfVertex0(last.pool.edges_, over) .. root.elem_capacity - 1
           \subseteq 0 .. root.edges_oid_ - 1

\* "rebuild vertices_ by scanning edges_" (graph.h:558): the scan of vertex 0 stays
\* in the array.
ScanStops ==
  phase = "off" /\ ~root.backed_up_ /\ root.edges_oid_ # 0 => EmptyAfter0(last.pool.edges_) # {}

\* After a shutdown everything has been written: the cells of the vertices too.
ShutdownDurable ==
  phase = "off" /\ TRUE \in rootMedia["backed_up_"] =>
    \A c \in LiveCells(last.pool) : media[c] = {last.pool.edges_[c]}

\* "pmem db-file already exists, no needs to ingest data into pmem"
\* (builder.h:79): a graph that is opened has all its edges.
OpenedIsIngested == phase = "open" => inserted = Inserts
=============================================================================
