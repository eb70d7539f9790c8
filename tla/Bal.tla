-------------------------------- MODULE Bal --------------------------------
(***************************************************************************)
(* The blocked adjacency list of bal/src/graph.h: a chain of fixed-length   *)
(* blocks in persistent memory per vertex, and an array of vertices with    *)
(* the ends of the chains that lives in DRAM and is copied to persistent    *)
(* memory when the base graph is in and when the program ends.              *)
(*                                                                         *)
(* A block is named by its offset in the pool, 1 and up; offset 0 is null.  *)
(* next_offset is such an offset, but head_offset and tail_offset are       *)
(* addresses: offsets plus the place the pool is mapped at.                 *)
(***************************************************************************)
EXTENDS Integers, Sequences, FiniteSets, Functions

CONSTANTS
  Threads,
  num_nodes,
  BLOCK_SIZE,
  BaseShare,     \* the part of the base graph the static schedule gives a thread
  DynamicShare,  \* ... and of the dynamic edges
  Mappings       \* where the pool may be mapped when it is opened again

Nodes == 0 .. num_nodes - 1
Edges == [u : Nodes, v : Nodes]

Free == "free"
Hole == -1         \* marks a cell that was never written (the allocator zeroes it)

ASSUME BalAssumption ==
  /\ IsFiniteSet(Threads) /\ Free \notin Threads
  /\ num_nodes \in Nat \ {0} /\ BLOCK_SIZE \in Nat \ {0} /\ Mappings \subseteq Nat
  /\ BaseShare \in [Threads -> Seq(Edges)] /\ DynamicShare \in [Threads -> Seq(Edges)]

VARIABLES
  vertices,       \* vertices_ without its locks
  mlock,          \* the holder of each lock, or Free
  blocks,         \* the blocks allocated so far
  num_edges,
  mapped,         \* where the pool is mapped
  vertices_pmem, base_num_edges,  \* what is durable: vertices_pmem_, bp->num_edges_
  phase,
  todo,           \* the edges a thread has not finished
  pc, block, old_val

memory == <<vertices, mlock, blocks, num_edges>>
durable == <<vertices_pmem, base_num_edges>>
threadVars == <<todo, pc, block, old_val>>
balVars == <<memory, mapped, durable, phase, threadVars>>

n_edges == SumFunction([t \in Threads |-> Len(BaseShare[t])])

BalInit ==
  /\ vertices = [u \in Nodes |-> [head |-> 0, tail |-> 0, degree |-> 0]]
  /\ mlock = [u \in Nodes |-> Free]
  /\ blocks = <<>>
  /\ num_edges = n_edges
  /\ mapped = 0
  /\ vertices_pmem = vertices /\ base_num_edges = n_edges
  /\ phase = "base"
  /\ todo = BaseShare
  /\ pc = [t \in Threads |-> "idle"]
  /\ block = [t \in Threads |-> 0]
  /\ old_val = [t \in Threads |-> 0]

-----------------------------------------------------------------------------
(***************************************************************************)
(* Inserting an edge: the base-graph loop of the constructor and insert().  *)
(***************************************************************************)
src(t) == Head(todo[t]).u
dst(t) == Head(todo[t]).v

At(t, label) == pc[t] = label /\ todo[t] # <<>>
Goto(t, label) == pc' = [pc EXCEPT ![t] = label]

\* An empty chain, or a tail that is full.
NeedsBlock(u) == vertices[u].degree % BLOCK_SIZE = 0

\* The lock is not taken.
FaultyLock(t) ==
  /\ At(t, "idle") /\ phase \in {"base", "dynamic"}
  /\ Goto(t, IF NeedsBlock(src(t)) THEN "allocate" ELSE "store")
  /\ UNCHANGED <<memory, mapped, durable, phase, todo, block, old_val>>

Lock(t) ==
  /\ At(t, "idle") /\ phase \in {"base", "dynamic"}
  /\ mlock[src(t)] = Free
  /\ mlock' = [mlock EXCEPT ![src(t)] = t]
  /\ Goto(t, IF NeedsBlock(src(t)) THEN "allocate" ELSE "store")
  /\ UNCHANGED <<vertices, blocks, num_edges, mapped, durable, phase, todo, block, old_val>>

\* A block of its own for the edge ...
Allocate(t) ==
  /\ At(t, "allocate")
  /\ blocks' = Append(blocks, [cells |-> [i \in 0 .. BLOCK_SIZE - 1 |->
                                            IF i = 0 THEN dst(t) ELSE Hole],
                               next_offset |-> 0])
  /\ block' = [block EXCEPT ![t] = Len(blocks) + 1]
  /\ Goto(t, "link")
  /\ UNCHANGED <<vertices, mlock, num_edges, mapped, durable, phase, todo, old_val>>

\* The head moves to the new block as well.
FaultyHead(t) ==
  /\ At(t, "link")
  /\ LET u == src(t)
         at == mapped + block[t]
         tail == vertices[u].tail - mapped
     IN /\ vertices' = [vertices EXCEPT ![u] = [head |-> at, tail |-> at, degree |-> @.degree]]
        /\ blocks' = IF vertices[u].degree = 0 THEN blocks
                     ELSE [blocks EXCEPT ![tail].next_offset = block[t]]
  /\ Goto(t, "count")
  /\ UNCHANGED <<mlock, num_edges, mapped, durable, phase, todo, block, old_val>>

\* ... becomes the chain, or its tail, linked to the one before it.
Link(t) ==
  /\ At(t, "link")
  /\ LET u == src(t)
         at == mapped + block[t]
         tail == vertices[u].tail - mapped
     IN IF vertices[u].degree = 0
        THEN /\ vertices' = [vertices EXCEPT ![u] = [head |-> at, tail |-> at, degree |-> @.degree]]
             /\ UNCHANGED blocks
        ELSE /\ blocks' = [blocks EXCEPT ![tail].next_offset = block[t]]
             /\ vertices' = [vertices EXCEPT ![u].tail = at]
  /\ Goto(t, "count")
  /\ UNCHANGED <<mlock, num_edges, mapped, durable, phase, todo, block, old_val>>

\* There is room in the tail.
Store(t) ==
  /\ At(t, "store")
  /\ LET v == vertices[src(t)] IN
     blocks' = [blocks EXCEPT ![v.tail - mapped].cells[v.degree % BLOCK_SIZE] = dst(t)]
  /\ Goto(t, "count")
  /\ UNCHANGED <<vertices, mlock, num_edges, mapped, durable, phase, todo, block, old_val>>

\* The edge counts, and the lock is given back.  The edges of the base graph
\* are in num_edges_ from the beginning.
Unlock(t) ==
  /\ At(t, "count")
  /\ vertices' = [vertices EXCEPT ![src(t)].degree = @ + 1]
  /\ mlock' = [mlock EXCEPT ![src(t)] = Free]
  /\ IF phase = "base" THEN Goto(t, "idle") /\ todo' = [todo EXCEPT ![t] = Tail(@)]
     ELSE Goto(t, "load") /\ UNCHANGED todo
  /\ UNCHANGED <<blocks, num_edges, mapped, durable, phase, block, old_val>>

\* The counter, without a lock, by compare-and-swap.
Load(t) ==
  /\ At(t, "load")
  /\ old_val' = [old_val EXCEPT ![t] = num_edges]
  /\ Goto(t, "swap")
  /\ UNCHANGED <<memory, mapped, durable, phase, todo, block>>

\* An assignment in place of the compare-and-swap.
FaultySwap(t) ==
  /\ At(t, "swap")
  /\ num_edges' = old_val[t] + 1 /\ todo' = [todo EXCEPT ![t] = Tail(@)] /\ Goto(t, "idle")
  /\ UNCHANGED <<vertices, mlock, blocks, mapped, durable, phase, block, old_val>>

Swap(t) ==
  /\ At(t, "swap")
  /\ IF num_edges = old_val[t]
     THEN num_edges' = num_edges + 1 /\ todo' = [todo EXCEPT ![t] = Tail(@)] /\ Goto(t, "idle")
     ELSE Goto(t, "load") /\ UNCHANGED <<num_edges, todo>>
  /\ UNCHANGED <<vertices, mlock, blocks, mapped, durable, phase, block, old_val>>

Insert(t) ==
  Lock(t) \/ Allocate(t) \/ Link(t) \/ Store(t) \/ Unlock(t) \/ Load(t) \/ Swap(t)

-----------------------------------------------------------------------------
(***************************************************************************)
(* The program around the loops.                                            *)
(***************************************************************************)
AllDone == \A t \in Threads : todo[t] = <<>>

\* The base graph is in, and vertices_ is copied to vertices_pmem_ ...
CopyBase ==
  /\ phase = "base" /\ AllDone
  /\ phase' = "base copied"
  /\ UNCHANGED <<memory, mapped, durable, threadVars>>

\* The flush is left out.
FaultyFlushBase ==
  /\ phase = "base copied"
  /\ phase' = "dynamic" /\ todo' = DynamicShare
  /\ UNCHANGED <<memory, mapped, durable, pc, block, old_val>>

\* ... and flushed; the dynamic edges follow.
FlushBase ==
  /\ phase = "base copied"
  /\ vertices_pmem' = vertices
  /\ phase' = "dynamic" /\ todo' = DynamicShare
  /\ UNCHANGED <<memory, mapped, base_num_edges, pc, block, old_val>>

\* ~CSRGraph: the same once more, and the number of edges.
Close ==
  /\ phase = "dynamic" /\ AllDone
  /\ phase' = "copied"
  /\ UNCHANGED <<memory, mapped, durable, threadVars>>

CloseFlush ==
  /\ phase = "copied"
  /\ vertices_pmem' = vertices /\ base_num_edges' = num_edges
  /\ phase' = "closed"
  /\ UNCHANGED <<memory, mapped, threadVars>>

\* What vertices_pmem_ may be when the process ends: between a copy and its
\* flush each field has or has not reached persistent memory.
Durable(u) ==
  IF phase \notin {"base copied", "copied"} THEN {vertices_pmem[u]}
  ELSE [head : {vertices_pmem[u].head, vertices[u].head},
        tail : {vertices_pmem[u].tail, vertices[u].tail},
        degree : {vertices_pmem[u].degree, vertices[u].degree}]

\* The process ends, by itself or killed, and another opens the pool, for the
\* kernels: the file exists, and MakeGraph inserts nothing.
Restart ==
  /\ phase # "reopened"
  /\ mapped' \in Mappings
  /\ vertices_pmem' \in {f \in [Nodes -> UNION {Durable(u) : u \in Nodes}] :
                           \A u \in Nodes : f[u] \in Durable(u)}
  /\ vertices' = vertices_pmem'
  /\ num_edges' = base_num_edges
  /\ mlock' = [u \in Nodes |-> Free]
  /\ phase' = "reopened"
  /\ todo' = [t \in Threads |-> <<>>] /\ pc' = [t \in Threads |-> "idle"]
  /\ UNCHANGED <<blocks, base_num_edges, block, old_val>>

Program == CopyBase \/ FlushBase \/ Close \/ CloseFlush

Ended == phase = "reopened" /\ UNCHANGED balVars

BalNext == (\E t \in Threads : Insert(t)) \/ Program \/ Restart \/ Ended

BalSpec ==
  /\ BalInit /\ [][BalNext]_balVars
  /\ \A t \in Threads : WF_balVars(Insert(t))
  /\ WF_balVars(Program)

-----------------------------------------------------------------------------
(***************************************************************************)
(* out_neigh: the iterator starts at the head, follows next_offset after    *)
(* each BLOCK_SIZE edges, and ends after degree edges.                      *)
(***************************************************************************)
chain_of(first, heap) ==
  LET chain[k \in Nat] ==
        IF k = 0 THEN first
        ELSE IF chain[k - 1] \in DOMAIN heap THEN heap[chain[k - 1]].next_offset ELSE 0
  IN chain

edges_of(v, first, heap) ==
  [i \in 1 .. v.degree |->
     LET b == chain_of(first, heap)[(i - 1) \div BLOCK_SIZE] IN
     IF b \in DOMAIN heap THEN heap[b].cells[(i - 1) % BLOCK_SIZE] ELSE Hole]

out_neigh(u) == edges_of(vertices[u], vertices[u].head - mapped, blocks)

Lists == [u \in Nodes |-> out_neigh(u)]

\* The graph a caller of insert() sees, and the calls in progress.
Calls ==
  [t \in Threads |->
     IF pc[t] = "idle" THEN [busy |-> FALSE]
     ELSE [busy |-> TRUE, u |-> src(t), v |-> dst(t), added |-> pc[t] \in {"load", "swap"}]]

Abstract == INSTANCE GraphStore
            WITH Callers <- Threads, Targets <- Nodes, BaseAdj <- [u \in Nodes |-> <<>>],
                 adj <- Lists, calls <- Calls

-----------------------------------------------------------------------------
(***************************************************************************)
(* Properties.                                                              *)
(***************************************************************************)

\* From the base graph on, num_edges lacks just the edges that threads have
\* entered and not yet counted.
EdgesCounted ==
  phase \in {"dynamic", "copied", "closed"} =>
    num_edges + Cardinality({t \in Threads : pc[t] \in {"load", "swap"}})
      = SumFunction([u \in Nodes |-> vertices[u].degree])

\* insert() adds its edge once, at one moment, at the end of the list of its
\* source, under the lock of that vertex only; and nothing else changes a list
\* until the process ends.
InsertsAtomically ==
  Abstract!StoreInit /\ [][Abstract!StoreNext \/ Restart]_(Abstract!storeVars)

\* After a clean end the pool is opened with the same graph.  After a kill
\* among the dynamic edges it is opened with the base graph: the lists as they
\* were copied, for insertions only ever write behind them, and their number.
RestartKeeps ==
  [][Restart =>
       CASE phase = "closed" -> Lists' = Lists /\ num_edges' = num_edges
         [] phase = "dynamic" ->
              /\ num_edges' = SumFunction([u \in Nodes |-> Len(Lists'[u])])
              /\ \A u \in Nodes : Lists'[u] = SubSeq(Lists[u], 1, Len(Lists'[u]))
         [] OTHER -> TRUE]_balVars

\* Even a kill in the middle of the last copy leaves each list that the base
\* graph began either as it was then or complete.
TornCopyReads ==
  [][(Restart /\ phase = "copied") =>
       \A u \in Nodes :
         vertices_pmem[u].degree > 0 =>
           /\ Len(Lists'[u]) \in {vertices_pmem[u].degree, vertices[u].degree}
           /\ Lists'[u] = SubSeq(Lists[u], 1, Len(Lists'[u]))]_balVars

\* The file exists, so nothing needs to be ingested (the message of MakeGraph
\* in builder.h): a pool that was closed is opened with its graph.
ReopensComplete == [][(Restart /\ phase = "closed") => Lists' = Lists]_balVars

=============================================================================
