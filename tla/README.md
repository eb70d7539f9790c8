# DGAP: a TLA+ verification project

DGAP keeps a dynamic graph in one mutable compressed-sparse-row structure on
persistent memory: an edge array with gaps (a packed memory array, PMA), a small
edge log per PMA leaf, and a vertex table. Several OpenMP threads insert edges at
the same time; parallel kernels then analyse the graph; the file can be opened
again later. This project models these parts, and the two structures the
repository compares DGAP with, model-checks them with TLC, and proves with TLAPS the
locking discipline, that concurrent insertion keeps the structure and is the insertion
of an abstract store, shutdown and reopening, breadth-first search, connected
components and the two baselines. Line numbers refer to `src/dgap/src/graph.h`
unless another file is named.

## 1. Inventory

| Component | State | Operations | Talks to |
|---|---|---|---|
| Segment locks (`PMALeafSegment`) | per leaf: mutex, condition variable, counter `on_rebalance` | `wait_for_rebalance`, `lock_in_batch`, two `unlock_in_batch`, the control flow of `insert(src, dst)` | shared by all inserting threads |
| PMA and edge logs (`CSRGraph`) | `vertices_` (index, degree, offset), `edges_`, `log_ptr_`/`log_segment_idx_`, `elem_capacity`, `num_edges_`, `segment_edges_actual`, `segment_edges_total` | base-graph `insert(EdgeList)` and `spread_weighted`, `do_insertion`, `insert_into_log`, `rebalance_weighted`, `rebalance_data_V1`, `resize_V1`, `out_neigh` | called under the mutexes |
| Undo log | per thread: the saved cells, the oplog entry; under the edge array what is durable | `load_into_ulog`, the flushes of a rebalance | called by `rebalance_data_V1` |
| Persistence | the root object, the backups, the flag `backed_up_` | `~CSRGraph`, the constructor on a new and on an old file, `recovery`, the durable steps of `resize_V1` | PMDK; `MakeGraph` |
| Builder (`builder.h`) | the sorted base edge list and the dynamic edge list | `MakeGraph`: base load, then a parallel loop of `insert`; nothing if the file exists | calls `CSRGraph` |
| Kernels (`bfs.cc`, `cc_sv.cc`, `bc.cc`, `pr.cc`) | per-vertex arrays, frontier queue and bitmaps | parallel loops over a finished graph through `out_neigh` | `SlidingQueue`, `Bitmap`, compare-and-swap |
| `SlidingQueue`, `Bitmap` | a shared array with a window and per-thread buffers; words of bits | `push_back`, `flush`, `slide_window`; `set_bit`, `set_bit_atomic` | the kernels |
| BAL (`bal/`) | per vertex a lock, a degree and a chain of blocks | `insert`, copies of the vertex table, reopen | the same kernels |
| CSR (`csr/`) | index and neighbour arrays, in DRAM, then in a pool | parallel count, prefix sum, copy, one transaction, reopen | the same kernels |
| Dataset preprocessing (`preprocess/`) | an edge array | mirror, sort, remove repeats, shuffle, split in two files | feeds the builders |
| Readers, writers, command line | none that matters to the graph | file parsing, options | builder |
| `GraphOne/`, `XPGraph/`, `llama/`, `pmdk/` | third-party systems, the vendored library | - | - |

**What is hard here.** `insert` drops the leaf's mutex before it looks for a
window to rebalance, so everything it then does rests on mutexes taken one by
one, on a counter changed partly under the mutex and partly by compare-and-swap,
and on densities some of which are read with no mutex at all. Edges are moved in
place, in groups whose order matters, over memory that becomes durable a range at
a time. Positions come from truncated fixed-point arithmetic. The last vertex
takes its boundary from the capacity, which a resize changes. The process may die
between any two stores and another opens the file, trusting a flag or scanning
what it finds. The kernels read and write labels, parents, counts and bits
without locks, on purpose. `PROJECT.json` lists these hazards at their lines.

**What makes it correct.** No two threads work on one segment at once; the
mutexes are released by their owners; vertices, edges, logs and counts agree with
each other after any interleaving; the assertions of the code hold; every `insert`
appends its edge once and returns. A rebalance never destroys the last copy of an
edge; the flag means complete backups; what is reopened is what was closed. A
search finds levels, a component is one label, a score is what the definition
says, whatever the races.

## 2. Modules

```
GraphStore            what insert() promises
SegmentLocks          mutexes, counters, control flow    SegmentLocksMC
   |    Pma           the structure and its algorithms   PmaProofs
   |   /    \
Dgap         UndoLog  a rebalance cell by cell
DgapMC          |
DgapProofs   Persistence  shutdown, death, reopening     PersistenceMC
                                                         PersistenceProofs

Containers            SlidingQueue, QueueBuffer, words of a Bitmap
   |     \
  Bfs   Brandes                               BfsMC, BfsProofs, BrandesMC
ShiloachVishkin                          ShiloachVishkinMC, ShiloachVishkinProofs

Bal (refines GraphStore)                                 BalMC, BalProofs
Csr                                                      CsrMC, CsrProofs

Induction             induction over sets, recursive functions, finite sums
```

`Dgap` composes SegmentLocks with Pma and refines GraphStore. `PmaProofs` has the lemmas
about the operations of Pma, which `DgapProofs` (SegmentLocks and Dgap) and
`PersistenceProofs` (UndoLog and Persistence) use. `UndoLog` takes the
rebalance of Pma apart. `Persistence` adds to UndoLog the root object, the end of
the process and the next one. The kernels stand beside them: they read a graph
nobody changes any more.

**SegmentLocks.** One action per step of `insert`, `lock_in_batch` and
`unlock_in_batch` that another thread can observe. `pc[t]` is the place in
`insert`; `current_segment`, `window`, `left_segment`, `right_segment`, `seg_id`
are the locals of the same names; `span` is `1 << height`. The two places where a
batch function returns to are in `ret`. `on_rebalance += 1` (975) is two steps,
`ReadCounter` and `WriteCounter`, because the batches change the same counter
without the mutex; the compare-and-swap loops are one step each. The outcome of
every density test is a parameter of its action, so the module allows all of them.
`UnlockOne` joins the release of the mutex and `notify_all`: between the two only
increments of the counter are possible, so a waiter notified by the code and not
by the model would find the counter raised and wait again, which `SpuriousWakeup`
covers. Waiters may also wake spuriously, as the standard allows.

**Pma.** The fields of `CSRGraph` as a record, its functions as operators of the
same names. Segments are numbered from 0 (the source adds `segment_count`). Moving
cells upwards or downwards one at a time is a copy that reads before it writes
(`CopyCells`); the order of vertices, which does matter, is `MoveOrder`. A read
outside an array yields `Garbage`. The double `step` of `calculate_positions` is
already truncated to a fixed precision in the code and is an exact fixed-point
number here.

**Dgap.** Each action is an action of SegmentLocks conjoined with what the same
lines do to the graph. A step on the graph is one action: exclusion is what
`DataExclusive` establishes, and `BoundaryFixed` checks the one field read across
a segment boundary. The density read without a mutex at line 1026 may also see
the totals a concurrent `resize_V1` has just zeroed (`TestLeafAgain`).

**GraphStore.** A list per vertex and the pending calls; a call adds its edge at
the end of its source's list, once, between call and return. `Dgap!StoreRefined`
maps `out_neigh` onto it, with the log part reversed into insertion order.

**UndoLog.** Dgap's rebalance is one action; here each cell written by
`rebalance_data_V1` is (`WriteCell`), with the call of `load_into_ulog` before it
where the code makes one. `task` is the rebalance in progress: the vertices in the
order of `MoveOrder`, the writes of the current vertex still to do. `media[c]` is
the set of values cell `c` may hold after a power failure: what was last flushed
and everything stored since. `ulog` is the saved range. `task.due` names the
source whose insertion has filled its leaf, because `insert` then rebalances until
there is room, or resizes, before the next edge. `load_into_ulog` flushes the cells of the
range before, but not what it has just saved (its second flush is of the table of pointers,
`&ulog_ptr_[tid]`, 1314), so nothing here counts the undo log as durable. A single thread is enough: a
rebalance owns its segments (`DataExclusive`) and its undo log. Insertions outside
rebalances are one step and durable, as `do_insertion` and `insert_into_log` flush
what they store. `LoopIsOneStep` ties the module back to Pma: cell by cell, the
loop ends in the graph that Pma computes as one step.

**Persistence.** `root` is the root object with the backups it names, `rootMedia`
what a power failure may leave of each field. `~CSRGraph` copies and flushes one
field after the other (`CopyField`, `FlushField`, in `CloseOrder`). `resize_V1` is
three durable steps (`ResizeFree`, `ResizeInstall`, `ResizeRecord`). `Kill` ends the
process at any step and leaves what was stored; power failure is what the sets
`media` and `rootMedia` are about. The constructor restores the backups
(`ReopenBackup`), scans (`ReopenRecovery`, the operator `recovery`), or has no array
to scan (`ReopenFails`). Fields the code takes from `malloc` without setting them hold any
member of `Uninitialised`: `offset` of every vertex after `recovery` (521, 570), a vertex without
a pivot, the count of a log without a complete entry. The loop that follows the cells of
vertex 0 (575) has no bound: if the array has no empty cell it goes on for some number
of cells in `Beyond`, until the memory behind the array has a zero. `Init` is a new file whose base graph has
been loaded; the death of the process in the constructor before that is not modelled.

**Containers, Bfs, Brandes, ShiloachVishkin.** A parallel loop is a set `work` of
iterations not yet handed out and a record per thread with its locals; the barrier
is the action of the thread that continues alone (`Master`, `EndHooking`,
`EndRound`). Each access to a shared variable that another thread may change is a step
of its own: the test and the compare-and-swap of a claim (`TDLook`, `TDClaim`), the read and the
write of a word of a bitmap (`QBTake`, `QBSwap`), the reservation of cells of the queue and
the copy (`Flush`, `Copy`), the reads of two labels, the test of the root and the
hook (`ReadU`, `ReadV`, `TestRoot`, `Hook`), the four reads and the write of the loop that
shortens a path (`TestPath`, `TestLabel`, `ReadPath`, `ReadLabel`, `Shorten`). Iterations are handed out in any
order, by whole chunks where the code asks for chunks. Memory is sequentially
consistent and a word is read and written as a whole; the compiler is assumed to
do the accesses the source names. The scores of Brandes are exact multiples of
`1 / Scale`. The three copies of each kernel, in `dgap/`, `bal/` and `csr/`, differ in
the type of the graph and in timing.

**Bal.** `insert` and the base loop of the constructor, step by step under the
vertex's lock, with the counting loop after it; the copy of `vertices_` to persistent
memory and its flush as two steps, between which each field has or has not become
durable; the end of the process at any step and the next process, which maps the
pool at one of `Mappings`. `Abstract == INSTANCE GraphStore`: `InsertsAtomically`
says that every step is a step of GraphStore or the restart.

**Csr.** The loops of `CountDegrees`, `ParallelPrefixSum` and `MakeCSR`; each edge
of a thread's share is counted, then reserved and written; the transaction is one
step that happens or not.

Definitions named `Faulty...` are wrong variants (a forgotten notification, a
leaf left out of a recount, a log merged in the wrong direction and so on). No
action uses them; each violates a property of the project when put in the place
of the definition it precedes.

## 3. Runs

| Run | Instance | Checks | Shows |
|---|---|---|---|
| `locks` | 2 threads, 4 segments, 2 insertions each, every density outcome | `LocksTypeOK`, `DataExclusive`, `HoldsWhatItUses`, `OwnerReleases` | the mutexes alone keep threads apart, even with lost counter updates |
| `sequential` | 1 thread, 4 vertices in 2 leaves, every sequence of 14 insertions, logs of 2 | `GraphTypeOK`, `Layout`, `CountsExact`, `LogExact`, `AssertionsHold`, `StoreRefined` | log, full log, window rebalance, resize keep the structure exact |
| `logs` | 2 threads, 4 vertices, 4 insertions each, sources on both sides of the boundary of the 2 leaves | `BoundaryFixed`, `StoreRefined` | a leaf rebalanced because its log is full does not disturb its neighbour |
| `liveness` | 2 threads, 2 vertices, 3 insertions each, through a resize, fair | `EveryInsertReturns`, `StoreRefined`, deadlock | no lost wakeup and no deadlock while only one leaf is full at a time; no interleaving with a resize loses an edge |
| `persistence` | 4 vertices, 10 insertions, logs of 2, undo log of 2 cells, kills, shutdowns, reopens | `EarlierRangesFlushed`, `EveryEdgeFound`, `LossBounded`, `LoopIsOneStep`, `ScanInside`, `FlagMeansComplete`, `RecoveryExact`, `CleanReopen` | a rebalance stopped anywhere leaves a copy of every edge where a scan looks for it, and a power failure can take away at most one range of cells; the flag is never durable over incomplete backups; what was closed is what is opened; `recovery` stays in an array that has an empty cell, and where no rebalance has left copies it gets everything right but the offsets |
| `bfs` | 2 threads, 6 vertices, 4 graphs, 13 settings of alpha and beta | `LevelByLevel`, `QueueFits`, `VerifierAccepts`, `Terminates` | no vertex is lost or found early by the races, in any alternation of steps |
| `components` | 2 threads, 4 graphs of 4 vertices, one of them directed | `Forest`, `LabelsInside`, `RoundInv`, `ComponentsExact`, `RootsOnlyHooked`, `Terminates` | unlocked hooks may be lost, never wrong; paths shortened with stale labels come to an end |
| `betweenness` | 3 threads, 4 graphs of 5 vertices, 2 sources | `SuccessorsMarked`, `ScoresExact` | marks and scores are those of the definitions |
| `bal` | 2 threads, 3 vertices, blocks of 2 edges, 4 base and 5 dynamic edges, a restart | `EdgesCounted`, `InsertsAtomically`, `RestartKeeps`, `TornCopyReads` | one lock per vertex makes insertion atomic; a restart reads what was copied |
| `csr` | 3 threads, 5 vertices in blocks of 2, 3 edge lists | `CellsApart`, `PoolWhole` | the shared cursors never collide; the pool has all or nothing |
| `stuck_leaf` | `liveness` with 5 insertions per thread, one source per thread | `EveryInsertReturns` | violated: finding 1 |
| `locks_kept` | 2 threads, 16 vertices in 4 leaves, one source per thread | `NoLockKept` | violated: finding 2 |

In `persistence` a resize of `resize_V1` is three steps, each of which a kill can
follow; in `sequential`, `liveness` and the two violation runs it is one step
under all mutexes.

**Bounds.** `MAX_LOG_ENTRIES` is 170 in the code and 1, 2 or 8 here, so that logs
fill. `precision_pos` is 10^6 instead of 10^8, to stay within 32-bit integers. With
total degrees below 100 a position that is not exact is at least 1/100 away from
the next integer, and a step that is exact at 10^-8 is exact at 10^-6, so both
scales truncate to the same cell. What is abstracted is the rounding of the double
itself, which can put a vertex one cell further left where the exact product is an
integer. Two leaves make a tree of height 1, where a leaf, the whole array and a
resize are the cases; four leaves make height 2, the smallest tree with a window
between them. The base graph has one edge, hence gaps, hence insertions in place,
then into the log, then rebalances, then the resize, all within the insertions
given. `insert` never looks at a destination, so the destination of the k-th edge
of a vertex is k: all edges of a vertex are different, and any loss, repetition or
swap shows. Threads are symmetric where they have the same sources, and only
safety is checked with symmetry.

`MAX_ULOG_ENTRIES` is 2, so that one vertex's cells need several ranges. Ten
insertions into 4 vertices are enough for rebalances of a leaf and of the whole
array, for entries in the logs at a shutdown, and for a resize. A word of a bitmap has 3 or 4 bits, so that 6 vertices fill two words and
threads meet in one; a `QueueBuffer` has one cell, so that every vertex is flushed by itself; chunks are
a whole word, as 1024 is a multiple of 64 in the code. Blocks of BAL have 2 edges,
blocks of the prefix sum 2 vertices, the last one short. The graphs are chosen for
their shapes: two parents for a vertex, vertices out of reach, a path that needs
several rounds of hooking, an edge inside a level, an edge twice, a self-loop. Two
sources are the fewest that show what one leaves to the next. A restart of `Bal` and
`Csr` happens once, since the next process stores nothing; `Persistence` allows any
number of shutdowns of an opened file. `Uninitialised` is `{0}`, the contents of a
fresh page. Only the value -1 would be different: it is the one that makes an unset offset
right, by luck, and `RecoveryExact` allows for it (`ReadsRight`). With `{-1, 0}` and nine insertions the run
takes most of five minutes, holds too, and does not reach a resize. `Beyond` is `{0, 1}`: the loop of
vertex 0 stops right behind the array, or one cell further.

**Deadlock** is not checked in `locks` and `logs`: those runs ask for
safety, and the states without a successor include the ones of section 4.
It is checked in all other passing runs; a module whose program has ended stutters
explicitly.

**Fairness.** Weak fairness of each thread's own steps: the operating system runs
every thread, a mutex that stays free is taken. No fairness is assumed of spurious
wakeups, so a waiter must be notified. Weak fairness is enough for mutexes
because the workload is finite: competition for a mutex ends. The kernels: weak fairness of each thread and of the one between the loops,
because a team of OpenMP threads runs until its loop is done; a compare-and-swap of
the model fails only if another thread has changed the word, so no strong fairness
is needed. BAL: weak fairness of each thread's insertion, for locks that are taken a finite number of times.
Persistence and Csr state safety only, and the runs of Brandes and BAL ask for
no more.

## 4. Findings

Two of them have a run of their own in `PROJECT.json`:

1. `stuck_leaf` (line 1027). Two threads find their leaves full; one resizes; the
   other then sees room, and returns without taking back its increment of
   `on_rebalance` (975). Every later insertion into its leaf waits for ever.
2. `locks_kept` (line 998). The search may `break` in its last turn, with `window`
   0 and all mutexes held, if another thread has just resized. The resize branch
   follows, and returns at line 1027 without releasing anything.

The others are reproduced by further configurations, each of which checks one
property that the code violates (`tlc -config <cfg> <module>`):

| Configuration | Module | Property | What the code does |
|---|---|---|---|
| `DgapLostCount.cfg` | DgapMC | `CounterNotNegative` | The plain increment (975) can overwrite a compare-and-swap of another thread. The counter then reaches -1 and `!on_rebalance` never holds. |
| `DgapResizeCopy.cfg` | DgapMC | `ResizeCopiesCells` | `elem_capacity` is doubled before the copying loop uses it as the boundary of the last vertex (790). If that vertex has logged edges, `memcpy` leaves both arrays. The edges are still right (`StoreRefined`), because the excess lands after the last vertex. |
| `UndoRange.cfg` | PersistenceMC | `RangeSaved` | A right shift saves the range that ends where it writes (1379). Near the start of the array it begins at a negative index: the copy reads before the array, and the cells that follow are taken to be saved. |
| `RecoveryDegrees.cfg` | PersistenceMC | `RecoveredDegrees` | The scan counts every non-empty cell, and a rebalance leaves stale copies in the cells it moves edges out of (592). `RecoveryExact` shows the degrees right where there are none. |
| `RecoveryScan.cfg` | PersistenceMC | `ScanStops` | The loop that follows vertex 0 to the next empty cell looks at no bound (575). A process killed inside a rebalance can leave an array without an empty cell, and the loop leaves it. |
| `RecoveryLogs.cfg` | PersistenceMC | `RecoveredLogs` | An entry with a zero ends the scan of a log, and entries of or to vertex 0, or behind entry 0, have one; the count set is one too small, or not set (609). |
| `ResizeCrash.cfg` | PersistenceMC | `CapacityOfArray` | The object id is cleared, set, and the capacity recorded, in three durable steps (818); a process that dies in between leaves no array, or half its size. It never leaves more (`ScanInside`). |
| `ShutdownDurable.cfg` | PersistenceMC | `ShutdownDurable` | The last range a rebalance writes is flushed by nobody (1408): the flag of a proper shutdown is durable, the cells are not. |
| `PartialIngestion.cfg` | PersistenceMC | `OpenedIsIngested` | The file exists from the start of ingestion (`builder.h:80`); killed in the middle, it is opened as it is and the rest is never inserted. |
| `BfsDirected.cfg` | BfsMC | `ParentsAreNeighbours` | `in_neigh` returns the out-neighbours (651), so on a directed graph a bottom-up step gives vertices parents that have no edge to them. On symmetric graphs, which the datasets are, `bfs` holds. |
| `BalMoved.cfg` | BalMC | `ReopensComplete` | The ends of chains are stored as addresses (`bal/src/graph.h:327`). If the pool is mapped elsewhere, as PMDK does unless told not to, the lists lead nowhere. |
| `CsrSorted.cfg` | CsrMC | `SortedRuns` | The comment at `csr/src/builder.h:201` promises sorted neighbours; they are in the order threads copied them. |
| `CsrOneWay.cfg` | CsrMC | `Symmetrized` | With `-s` the reverse edges are not stored (`csr/src/builder.h:216`). |
| `CsrEmpty.cfg` | CsrMC | `OpenedIsIngested` | As `PartialIngestion`, before the transaction (`csr/src/builder.h:302`). |

`DgapTree.cfg` is a larger instance for which the same properties hold as in
`sequential`: one thread, 16 vertices in 4 leaves, 26 insertions, with windows of
two and of four leaves. `PersistenceAsserted.cfg` (PersistenceMC) checks on the instance of
`persistence` that no assertion fails there either: `AssertionsHold`, which four theorems of section 5
assume.

Nothing in the repository reads the undo log or the oplog when a file is opened
again, so a rebalance that was interrupted is not undone. It could not be: what `load_into_ulog`
copies (1313) is never flushed, because the flush that follows is of `&ulog_ptr_[tid]` (1314), a pointer
in DRAM, so after a power failure the undo log need not hold what was saved. `LossBounded` says what is left without it:
however long the rebalance, at most `MAX_ULOG_ENTRIES` (512, `graph.h:39`) of the values that were
durable when it began can be lost.

`recovery` fills a vertex table fresh from `malloc` (521) and never sets `offset` (570).
`out_neigh` takes an offset other than -1 for a log and reads all cells up to the next vertex: the empty
ones come out as edges to vertex 0. `RecoveryExact` says exactly which vertices are read as they were:
those without edges, those without a gap behind them, and those whose memory happened to hold -1 (`ReadsRight`).

## 5. Proofs

For any number of threads and any workload, and for every value of the other
constants that the assumptions below allow.

| Theorem | Statement |
|---|---|
| `LocksTypeCorrect` | `LocksSpec => []LocksTypeOK` |
| `HoldsWhatItUsesAlways` | `LocksSpec => []HoldsWhatItUses` |
| `DataExclusiveAlways` | `LocksSpec => []DataExclusive` |
| `OwnerReleasesAlways` | `LocksSpec => OwnerReleases` |
| `DgapImplementsLocks` | `Spec => LocksSpec` |
| `DgapDataExclusive` | `Spec => []DataExclusive` |
| `CountsExactAlways` | `Spec => []CountsExact` |
| `BoundaryFixedAlways` | `Spec => BoundaryFixed` |
| `LayoutAlways` | `Spec /\ []AssertionsHold => []Layout` |
| `GraphTypeCorrect` | `Spec /\ []AssertionsHold => []GraphTypeOK` |
| `LogExactAlways` | `Spec /\ []AssertionsHold => []LogExact` |
| `InsertionRefinesStore` | `Spec /\ []AssertionsHold => StoreRefined` |
| `PersistInvariant` | `PersistSpec => []PersistInv` |
| `ScanStaysInside` | `PersistSpec => []ScanInside` |
| `FlagVouches` | `PersistSpec => []FlagMeansComplete` |
| `ReopenIsClean` | `PersistSpec => CleanReopen` |
| `LoopHasOneEffect` | `PersistSpec /\ []AssertionsHold => LoopIsOneStep` |
| `EarlierRangesAreFlushed` | `PersistSpec /\ []AssertionsHold => []EarlierRangesFlushed` |
| `NoEdgeIsLost` | `PersistSpec /\ []AssertionsHold => []EveryEdgeFound` |
| `LossIsBounded` | `PersistSpec /\ []AssertionsHold => []LossBounded` |
| `BfsInvariant` | `Undirected` implies `BfsSpec => []BfsInv` |
| `GoesLevelByLevel` | `Undirected` implies `BfsSpec => []LevelByLevel` |
| `QueueIsLongEnough` | `Undirected` implies `BfsSpec => []QueueFits` |
| `VerifierIsSatisfied` | `Undirected` implies `BfsSpec => []VerifierAccepts` |
| `SVTypeCorrect` | `SVSpec => []SVTypeOK` |
| `ForestAlways` | `SVSpec => []Forest` |
| `RootsOnlyHookedAlways` | `SVSpec => RootsOnlyHooked` |
| `LabelsInsideAlways` | `SVSpec => []LabelsInside` |
| `RoundInvariant` | `SVSpec => []RoundInv` |
| `ComponentsExactAlways` | `SVSpec => []ComponentsExact` |
| `BalInvariant` | `BalSpec => []BalInv` |
| `NumberOfEdges` | `BalSpec => []EdgesCounted` |
| `AtomicInsertions` | `BalSpec => InsertsAtomically` |
| `RestartFindsGraph` | `Mappings \subseteq {0}` implies `BalSpec => RestartKeeps` |
| `TornCopyIsReadable` | `Mappings \subseteq {0}` implies `BalSpec => TornCopyReads` |
| `CsrInvariant` | `CsrSpec => []CsrInv` |
| `ReservationsAreApart` | `CsrSpec => []CellsApart` |
| `PoolIsWhole` | `CsrSpec => []PoolWhole` |

**Assumptions.** Each module states what it assumes of its constants, and TLC
evaluates it in every run: `LocksAssumption`, `PmaAssumption`, `DgapAssumption`,
`UndoLogAssumption`, `PersistenceAssumption` (there is a segment; the graph has two
vertices or more; the base edges are ordered by source, as `MakeGraph` sorts them; the
segments are those of `compute_capacity`; sources are vertices);
`ContainersAssumption`, `BfsAssumption` and `SVAssumption` (there is a thread and a
vertex; a graph gives each vertex a set of vertices; a chunk is a whole number of
words); `BalAssumption` and `CsrAssumption` (finitely many threads, each with a list of edges; a vertex;
a block has a cell or a vertex). Three hypotheses are stated in the theorems
instead. Two the code does not establish, and a configuration of section 4
shows what happens without: graphs are symmetric (`Undirected`; `BfsDirected.cfg`),
and the pool of BAL is mapped at the address it had (`Mappings \subseteq {0}`;
`BalMoved.cfg`). The third the code tests itself: `[]AssertionsHold` says that no `assert` of
`insert_into_log`, `rebalance_weighted` and `calculate_positions` fails. The Makefile builds with
assertions, so one that fails ends the program before it does any harm, and the theorems speak of the
executions that go on. Without it they are false: a window with more edges than cells has a
negative number of gaps, and vertices would be moved into one another. That it holds is
checked by `sequential`, and it holds in the instances of the other runs and configurations of
`DgapMC` with two threads as well. Persistence, where one thread inserts and a rebalance is taken
apart, states the same hypothesis for the rebalance that is under way and for the next resize
(`PersistenceAsserted.cfg`).

**Locks.** The type invariant alone is not inductive: `seg_id + 1` stays a segment only
because the loops of a batch stay inside their window, which is `LoopBounds`. The
two together are inductive (`LoopStep`), with `WindowBounds` for the arithmetic of
a window. `HoldsWhatItUses` is inductive on top of them (`HoldsStep`): a step gives
a mutex to nobody but the thread that takes it while it is free, and releases only
the mutex of a segment its thread has finished with (`HoldsByParts`). Exclusion
follows since a mutex has one owner, and `OwnerReleases` from the same invariant.
The counter takes no part in the argument, which is why the lost counts of `DgapLostCount.cfg`
endanger progress and not exclusion. `DgapImplementsLocks` shows every step of the composed
specification to be a lock step or a stutter; the theorems carry over.

**Counts.** `ThreadsInv` adds to the invariant of the locks that a thread's source lies in
the segment it entered and that what it resizes is the whole array (`CallsOK`); `GraphInv`
that the graph has its types and that its counts are exact. Nothing in it says where the vertices
lie, so it is kept by any rebalance, a senseless one included, and `CountsExact` needs no assertion:
an insertion adds one to a degree, to the sum of its leaf and to
`num_edges_`; a rebalance leaves the first vertex of the window and the first one after
it where they are, and recounts the leaves between them; a resize recounts all
(`PmaProofs` has these steps, which rest on telescoping sums over consecutive leaves). `BoundaryFixed` is
the same step lemmas together with `HoldsWhatItUses`: only a window that
contains both segments moves the first vertex of the second.

**Contents.** `ContentInv`, which is `Sound(graph)`: each vertex starts with its pivot, its cells
end before the next vertex starts, and its log has the rest of its edges. That it is inductive
is one lemma for each operation:

- An insertion adds one edge to one list (`AssertedInsertion`), in the cell behind the last one
  or at the head of the chain.
- A rebalance (`AssertedRebalance`). The positions of `calculate_positions` keep the
  order and end before the end of the window (`WindowFits`): each is the one before it, the degree and a step,
  and the steps, although truncated, add up to the gaps at most (`PositionsFit`).
  Then the cells have to survive being moved in place. `rebalance_data_V1` works
  in groups, and takes each group from its last vertex down; `MoveOrderSafe` says that
  in this order a vertex is written to only when the cells it covers belong to itself or
  to vertices already moved, and `BlocksArrive` that blocks moved in such an order
  arrive whole. The log of each vertex follows its cells (`MergeLog`), after which the logs are released.
- A resize copies to new cells from left to right (`AssertedResize`). It copies too
  many cells when the last vertex has logged edges (`DgapResizeCopy.cfg`); the proof shows that
  the excess lands behind all that has been written, and is overwritten by the log.
- The base graph is sound (`spread_weighted`).

`LogExact` adds that every entry of a log is in a chain: the number of entries of a vertex
is its degree less its cells (`LogsInv`). This holds whatever the assertions, since an entry is
written with the degree raised, and logs are released whole.

**Refinement.** `EdgeList` is the list of a vertex, oldest edge first, and what `out_neigh` returns
with the part from the log turned round (`AdjacencyIs`). Insertions make one list one edge longer, rebalances and resizes
leave all lists as they are, and the base graph has the lists of the edge list. With
the phase of a call (`Phase`: before, between or after its edge is stored), every step is a
step of GraphStore or a stutter (`StoreStep`).

**Persistence.** `PersistInv` has four parts. `RootShape` is the type of the root object
and of its media. `Capacities` relates the capacity in the root to the length of the
array it names at every step of a resize. `Shapes` says that
arrays and logs have the lengths of their tree, and that a process which no longer inserts
has the edge array in which insertion ended and the beginnings of its logs. `Flags` says
how far `~CSRGraph` has come: the fields before the one being copied are backed up and
durable, the flag is the last, and it is not set while edges are inserted.
`FlagMeansComplete` alone is not inductive, as it says nothing before the flag is set.
The lemmas below it show that no step of Pma changes the length of an array or the
number of leaves but a resize, which doubles it.

`ScanInside` needs in addition that the array has the length the root object records outside a
resize (`PoolInv`): then the first empty cell behind the pivot of vertex 0, if there is one, lies in the array,
and what is scanned behind it ends at a capacity that is the array's or half of it. The theorem has no hypothesis on what
the cells hold, and promises nothing for an array without an empty cell.

**A rebalance, cell by cell.** `LoopInv` relates a rebalance that is under way to the one that
Pma does in a step (`LoopAt`). There are the array `A[k]` that the first `k` vertices of the order of
`rebalance_data_V1` leave, for each `k`, and the vertex on its way. The vertices that have moved are
at their new places and have an empty log, the others are as they were
(`Arrived`), and of the vertex on its way the first `written` cells are there, and nothing else
has changed since `A[k]` (`HalfMoved`). What the loop reads for the next cell is still what it would have read
at the beginning of the vertex (`HalfStep`): a shift to the left goes up and a shift to the right goes down,
and a cell of the log goes behind those shifted. After the last write the array is
`A[k + 1]` (`HalfDone`), after the last vertex the one that `Rebalanced` has (`LoopDone`), and that is
`LoopIsOneStep`. The assertions are needed for the places to lie inside the window and in a safe
order.

`EarlierRangesFlushed` needs `LoopInv` for the direction in which each cell is written, and
`RangeInv`: what a rebalance has written and not flushed lies in the range the undo log has, and while
that is empty there is nothing of the kind. A cell is then inside the range, or a new one that holds it is
begun behind the flush of the old.

`EveryEdgeFound` asks of each vertex where its cells are at every point of the loop. Those of a vertex
that waits are where they were, because in a safe order nothing is written over them before its turn
(`WaitsClear`); those of one that has arrived are at its new place, whole (`RestHeld`); and the one
on its way is whole in one place, or in two copies that overlap: the lower one as far as a certain cell,
the upper one from there on, so that a scan that meets the pivot of the lower one or of both meets every
edge behind it, and no other pivot in between (`SplitFound`, `HalfVisible`). All of these cells are in the array
the root object names and below the capacity it records, by `Capacities`; inside `resize_V1` they are
not, and the property says nothing of it (`ResizeCrash.cfg`). Edges in
a log stay there, since the logs are released last. The invariant for this, `FoundInv`, says of the graph of the
last insertion that destinations are numbers, which a scan tells from pivots, and that a chain runs
through entries of its own vertex.

`LossBounded` rests on `CoverInv`. There is a record `stood` of what the cells of the range held when
the range before it was flushed, and every value that was durable when the rebalance began is in a cell that a power failure leaves alone,
in a log, or in `stood` (`Covered`). A cell a rebalance has written and not flushed is near the range
(`Wrote`, `Near`). So a write inside the range destroys a value `stood` has, or none that matters
(`Stands`, `WriteCovers`). A write outside it comes behind a flush of the old range, after which all that
the rebalance has written is durable, and a new `stood` is taken; what was durable at the beginning is then in a
cell of its vertex that is not written to now, its old one or its new one (`LoopStands`, `CopyKept`).
A range has at most `MAX_ULOG_ENTRIES` cells, so `stood` has no more values than that (`ImageBound`, `RangeSize`).

**Breadth-first search.** `BfsInv` says that there are sets `B[k]`, the vertices at
distance at most `k`, a depth `d` and an assignment `E` of vertices to the cells of the
queue (`Parts`). Each visited vertex has its parent one level up (`Tree`). A vertex
is in one place at most: one cell of the queue, written or reserved, or the buffer of one
thread (`Entries`). `Round` says, for each of the six phases, which vertices have a parent, an
entry and a bit, and what still stands for those of the next level that have none: in
`TDStep` an edge some thread has still to look at or an entry not yet handed out; in
`BUStep` a chunk, of which no two threads share a word, so that the unlocked write of a word
of the bitmap takes no bit away. The end of
a round needs that a thread leaves a loop only when nothing is left in it (`TeamOK`).
Symmetry is used once, in the bottom-up step, where an out-neighbour is taken for a parent.

**Components.** Four layers. `Forest` needs to know what a thread
has read: between its steps the label it will write is smaller than the one it
replaces (`ForestInv`), which other threads cannot spoil because it speaks of the
thread's own variables; a hook is then always downwards. A thread that shortens
keeps a label it has read across two more accesses. `PathInv` says that a vertex is in one
thread's hands while it is shortened, so that its own label does not change between the reads, and that the label read
behind it, which other threads may have changed since, is below the vertex: labels only
go down, and the one read was a label of a smaller vertex. `RootsOnlyHooked`
follows step by step, since the writes go to a smaller label. `LabelsInside` adds
that what a thread has read lies on the same side of any closed set as the vertex
it works on (`InsideInv`): labels only travel along edges. For the result, `RoundInv` is inductive on top of them:
paths are short when a round begins; while `change` is false, no label has changed
since, and every edge agrees or is still before its thread; so a round that ends
without a hook leaves all edges in agreement and all vertices at their roots. With
`LabelsInside` for the set of vertices that have one label, which is then closed,
labels are equal exactly within components (`ComponentsExact`). The
definition quantifies over closed sets instead of walking paths, so that the
theorem needs no induction over paths.

**BAL.** `BalInv` gives every vertex a list `W[u]` of its blocks (`Chains`): linked in
order, of no other vertex, as long as its degree asks for, and ending where the vertex
says. A block allocated and not yet linked belongs to nobody, a cell written and not yet
counted lies behind the degree; these are the only places where a list is between two
states, and there its lock is held (`Sections`). `Counts` relates
`num_edges_` to the degrees, to the edges stored and not yet added to it, and to those still
to do. Then the list of a vertex changes at the step that
raises its degree and nowhere else, by the edge of the call (`InsertsAtomically`). What
is copied to persistent memory is an earlier degree and the head of the same chain
(`Copied`), which is all that a restart reads.

**CSR.** `CsrInv` has a part for each loop: the degrees count the edges dealt with
(`Counting`), the block sums and their prefixes are differences of one sum over the
vertices (`Summing`, `Prefixing`), and while edges are copied there is a one-to-one map
`C` from the edges taken to cells, each in the run of its source and below the cursor of
that run (`Copying`). `CellsApart` is that map for the edges in the threads' hands. At the
end it is onto each run, because a run is as long as its source has edges, and that is
`PoolWhole`.

**Induction.** The library states its induction theorems with an operator as parameter,
which the provers cannot instantiate. `Induction` states them with a set: a set of
naturals that contains 0 and every successor contains all naturals, which is derived from
the finiteness of intervals. From it follow the unfolding of a recursive function, a
greatest element of a bounded set, induction over finite sets, and the laws of
`SumFunctionOnSet` that the counts of BAL and CSR need.

**Only model-checked:**

- Liveness: `EveryInsertReturns` and the two `Terminates`.
- `AssertionsHold`. Whether a window has room for its edges depends on densities that are
  fixed-point fractions, on their truncation, and on leaves that are entered while full: a lost count of
  `on_rebalance` may let a thread insert where a rebalance is due. A proof would need an account
  of how far a leaf can be overfilled that the code does not keep.
- `RecoveryExact`. It compares what `recovery` counts over the whole array with the degrees the vertices
  had, and that is a count over intervals of cells for which the provers need an induction.
- Brandes: `SuccessorsMarked` and `ScoresExact`.

## 6. Not modelled, and the plan

Left out for good: PageRank (three loops over floats with barriers between them,
in which no iteration reads what another one writes, so there is no interleaving to
check); file formats and the command line (no state of the graph); timing and
printing; PMDK's internals (used through flush, persist, transaction, allocate and
free); the third-party systems GraphOne, XPGraph and LLAMA, of which DGAP calls
nothing and which are by far the largest part of the source tree; the converters of
`preprocess/`, sequential programs over text files. The builder relies on one
property of theirs, that the base file names the largest vertex; it follows from
`split_dataset.cc:103`, which leaves the last edge of the sorted array out of the
shuffle. The functions of `graph.h` that nothing calls
(`rebalance_all`, the printers) are not modelled either.

Not modelled of what is: the death of the process inside the constructor of a new file, before the base
graph is loaded (`PersistInit` and `BalInit` begin behind what the constructor allocates); and in BAL, vertices
without a base edge are left out of `TornCopyReads`, because the first dynamic edge sets their head and their degree, the copy may be
torn between the two, and a durable degree with a null head is then possible.

Abstracted: the hardware memory order (the models are sequentially consistent),
the order of flushes inside one call, and the power failure in the middle of an
insertion that is no rebalance. `Persistence` opens a file only after kills, which
keep what was stored; what a power failure takes away is stated as a property of
the media instead.

What is left is proof:

1. `RecoveryExact`, from `Sound` and the fact that cells between vertices are empty before the first rebalance.
2. `SuccessorsMarked` of Brandes, whose queue and levels are those of Bfs.
3. `AssertionsHold`, for a lower bound on `precision_pos` and a version of the protocol in which
   `on_rebalance` is incremented atomically, from an exact account of that counter: a leaf is
   then entered only below its density, or by the thread that has just made room in it.
