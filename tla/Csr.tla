-------------------------------- MODULE Csr --------------------------------
(***************************************************************************)
(* How csr/src/builder.h turns an edge list into the compressed sparse row  *)
(* format in persistent memory: a team of threads counts degrees, sums them *)
(* up block by block and copies each target to a place of its own in the    *)
(* run of its source; all in one transaction of the pool.                   *)
(***************************************************************************)
EXTENDS Integers, Sequences, FiniteSets, Functions

CONSTANTS
  Threads,
  num_nodes,
  Shares,       \* edge lists, as the shares the static schedule gives the threads
  block_size,   \* of ParallelPrefixSum
  symmetrize_   \* the option -s

Nodes == 0 .. num_nodes - 1
Edges == [u : Nodes, v : Nodes]

ASSUME CsrAssumption ==
  /\ IsFiniteSet(Threads)
  /\ num_nodes \in Nat \ {0} /\ block_size \in Nat \ {0} /\ symmetrize_ \in BOOLEAN
  /\ \A share \in Shares : share \in [Threads -> Seq(Edges)]

VARIABLES
  share,       \* the edge list, never changed
  phase,       \* the loop that is running
  todo,        \* the edges a thread has not finished in this loop
  slot,        \* the cell a thread has reserved, or none
  work,        \* the blocks nobody has summed in this loop
  degrees, local_sums, bulk_prefix, offsets,
  index, neighs,  \* the arrays in DRAM
  pool         \* the durable graph; the pool exists from the constructor on

arrays == <<degrees, local_sums, bulk_prefix, offsets, index, neighs>>
csrVars == <<share, phase, todo, slot, work, arrays, pool>>

None == -1   \* a value not yet there
EmptyPool == [num_nodes |-> 0, num_edges |-> 0, index |-> <<>>, neighs |-> <<>>]

num_blocks == (num_nodes + block_size - 1) \div block_size
Blocks == 0 .. num_blocks - 1

\* The vertices of a block; the last block may be short.
block_end(b) == IF (b + 1) * block_size < num_nodes THEN (b + 1) * block_size ELSE num_nodes
BlockNodes(b) == b * block_size .. block_end(b) - 1

CsrInit ==
  /\ share \in Shares
  /\ phase = "count"
  /\ todo = share
  /\ slot = [t \in Threads |-> None]
  /\ work = {}
  /\ degrees = [u \in Nodes |-> 0]
  /\ local_sums = [b \in Blocks |-> None]
  /\ bulk_prefix = [b \in Blocks |-> None]
  /\ offsets = [u \in Nodes \cup {num_nodes} |-> None]
  /\ index = <<>> /\ neighs = <<>>
  /\ pool = EmptyPool

AllDone == \A t \in Threads : todo[t] = <<>>
Drop(t) == todo' = [todo EXCEPT ![t] = Tail(@)]

-----------------------------------------------------------------------------
(***************************************************************************)
(* CountDegrees.  The list is not transposed, so every edge counts, for its *)
(* source alone, whether or not symmetrize_ is set.                         *)
(***************************************************************************)
transpose == FALSE
Counts(e) == symmetrize_ \/ (~symmetrize_ /\ ~transpose)

Count(t) ==
  /\ phase = "count" /\ todo[t] # <<>>
  /\ LET e == Head(todo[t]) IN
     degrees' = IF Counts(e) THEN [degrees EXCEPT ![e.u] = @ + 1] ELSE degrees
  /\ Drop(t)
  /\ UNCHANGED <<share, phase, slot, work, local_sums, bulk_prefix, offsets, index, neighs, pool>>

EndCount ==
  /\ phase = "count" /\ AllDone
  /\ phase' = "sums" /\ work' = Blocks
  /\ UNCHANGED <<share, todo, slot, arrays, pool>>

-----------------------------------------------------------------------------
(***************************************************************************)
(* ParallelPrefixSum.                                                       *)
(***************************************************************************)
SumBlock ==
  /\ phase = "sums"
  /\ \E b \in work :
       /\ work' = work \ {b}
       /\ local_sums' = [local_sums EXCEPT ![b] = SumFunctionOnSet(degrees, BlockNodes(b))]
  /\ UNCHANGED <<share, phase, todo, slot, degrees, bulk_prefix, offsets, index, neighs, pool>>

Scan ==
  /\ phase = "sums" /\ work = {}
  /\ bulk_prefix' = [b \in Blocks |-> SumFunctionOnSet(local_sums, 0 .. b - 1)]
  /\ phase' = "prefix" /\ work' = Blocks
  /\ UNCHANGED <<share, todo, slot, degrees, local_sums, offsets, index, neighs, pool>>

PrefixBlock ==
  /\ phase = "prefix"
  /\ \E b \in work :
       /\ work' = work \ {b}
       /\ offsets' = [u \in DOMAIN offsets |->
                        IF u \in BlockNodes(b)
                        THEN bulk_prefix[b]
                               + SumFunctionOnSet(degrees, b * block_size .. u - 1)
                        ELSE offsets[u]]
  /\ UNCHANGED <<share, phase, todo, slot, degrees, local_sums, bulk_prefix, index, neighs, pool>>

\* The last offset is the total.  MakeCSR keeps a copy of the offsets as the
\* index, and the threads go over their edges once more.
EndPrefix ==
  /\ phase = "prefix" /\ work = {}
  /\ LET total == SumFunctionOnSet(local_sums, Blocks) IN
     /\ offsets' = [offsets EXCEPT ![num_nodes] = total]
     /\ index' = offsets'
     /\ neighs' = [i \in 0 .. total - 1 |-> None]
  /\ phase' = "copy" /\ todo' = share
  /\ UNCHANGED <<share, slot, work, degrees, local_sums, bulk_prefix, pool>>

-----------------------------------------------------------------------------
(***************************************************************************)
(* MakeCSR: fetch_and_add reserves a cell, and the target is stored there.  *)
(***************************************************************************)

\* The offset is read, and not advanced with it.
FaultyReserve(t) ==
  /\ phase = "copy" /\ todo[t] # <<>> /\ slot[t] = None
  /\ slot' = [slot EXCEPT ![t] = offsets[Head(todo[t]).u]]
  /\ UNCHANGED <<share, phase, todo, work, arrays, pool>>

Reserve(t) ==
  /\ phase = "copy" /\ todo[t] # <<>> /\ slot[t] = None
  /\ LET u == Head(todo[t]).u IN
     /\ slot' = [slot EXCEPT ![t] = offsets[u]]
     /\ offsets' = [offsets EXCEPT ![u] = @ + 1]
  /\ UNCHANGED <<share, phase, todo, work, degrees, local_sums, bulk_prefix, index, neighs, pool>>

Write(t) ==
  /\ phase = "copy" /\ slot[t] # None
  /\ neighs' = [neighs EXCEPT ![slot[t]] = Head(todo[t]).v]
  /\ slot' = [slot EXCEPT ![t] = None]
  /\ Drop(t)
  /\ UNCHANGED <<share, phase, work, degrees, local_sums, bulk_prefix, offsets, index, pool>>

\* The offsets, which have moved on, are stored as the index.
FaultyCommit ==
  /\ phase = "copy" /\ AllDone
  /\ pool' = [num_nodes |-> num_nodes, num_edges |-> offsets[num_nodes] - offsets[0],
              index |-> offsets, neighs |-> neighs]
  /\ phase' = "built"
  /\ UNCHANGED <<share, todo, slot, work, arrays>>

\* The arrays are copied to the pool, and the transaction ends.
Commit ==
  /\ phase = "copy" /\ AllDone
  /\ pool' = [num_nodes |-> num_nodes, num_edges |-> index[num_nodes] - index[0],
              index |-> index, neighs |-> neighs]
  /\ phase' = "built"
  /\ UNCHANGED <<share, todo, slot, work, arrays>>

\* The process ends, by itself or killed; a transaction that has not ended is
\* rolled back.  The next one finds the file and ingests nothing.
Reopen ==
  /\ phase # "reopened"
  /\ phase' = "reopened"
  /\ todo' = [t \in Threads |-> <<>>] /\ slot' = [t \in Threads |-> None] /\ work' = {}
  /\ UNCHANGED <<share, arrays, pool>>

Thread(t) == Count(t) \/ Reserve(t) \/ Write(t)
Team == EndCount \/ SumBlock \/ Scan \/ PrefixBlock \/ EndPrefix \/ Commit

Ended == phase = "reopened" /\ UNCHANGED csrVars

CsrNext == (\E t \in Threads : Thread(t)) \/ Team \/ Reopen \/ Ended

CsrSpec == CsrInit /\ [][CsrNext]_csrVars

-----------------------------------------------------------------------------
(***************************************************************************)
(* Properties.                                                              *)
(***************************************************************************)
Positions == UNION {{t} \X DOMAIN share[t] : t \in Threads}
EdgeAt(x) == share[x[1]][x[2]]
EdgesOf(u, v) == Cardinality({x \in Positions : EdgeAt(x) = [u |-> u, v |-> v]})
Before(u) == Cardinality({x \in Positions : EdgeAt(x).u < u})

\* No two threads ever reserve a cell together, or one that has been written,
\* or one of another vertex.
CellsApart ==
  phase = "copy" =>
    \A t \in Threads :
      slot[t] # None =>
        /\ slot[t] \in Before(Head(todo[t]).u) .. Before(Head(todo[t]).u + 1) - 1
        /\ neighs[slot[t]] = None
        /\ \A other \in Threads \ {t} : slot[other] # slot[t]

\* The durable graph is nothing or everything: each vertex has the targets of
\* its edges, as often as the list does, whatever the threads' order.
out_neigh(u) == {i \in DOMAIN pool.neighs : pool.index[u] <= i /\ i < pool.index[u + 1]}

PoolWhole ==
  \/ pool = EmptyPool
  \/ /\ pool.num_edges = Cardinality(Positions)
     /\ \A u, v \in Nodes : Cardinality({i \in out_neigh(u) : pool.neighs[i] = v}) = EdgesOf(u, v)

\* "Side effect: neighbor IDs will be sorted" (MakeCSR).
SortedRuns ==
  phase = "built" =>
    \A u \in Nodes : \A i, j \in out_neigh(u) : i < j => pool.neighs[i] <= pool.neighs[j]

\* "symmetrize input edge list" (the help of -s).
Symmetrized ==
  (phase = "built" /\ symmetrize_) =>
    \A u, v \in Nodes :
      (\E i \in out_neigh(u) : pool.neighs[i] = v) => (\E i \in out_neigh(v) : pool.neighs[i] = u)

\* "pmem db-file already exists, no needs to ingest data into pmem" (MakeGraph).
OpenedIsIngested == phase = "reopened" => pool # EmptyPool
=============================================================================
