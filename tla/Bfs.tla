-------------------------------- MODULE Bfs --------------------------------
(***************************************************************************)
(* DOBFS of bfs.cc: breadth-first search by a team of threads that changes  *)
(* between top-down steps, over a queue, and bottom-up steps, over bitmaps. *)
(* The three copies of the kernel (dgap, bal, csr) differ in the type of g. *)
(*                                                                         *)
(* Between two parallel loops one thread works alone; a loop ends when all  *)
(* threads have come to its end.  The iterations of a loop are handed out   *)
(* in any way, one by one, or by chunks for BUStep, which asks for that.    *)
(* The neighbours of a vertex come in any order, that of insertion.         *)
(*                                                                         *)
(* An entry parent[v] < 0 says that v is unvisited, and is minus its degree *)
(* (or -1).  Vertices are read and written without locks.                   *)
(***************************************************************************)
EXTENDS Containers, FiniteSetsExt

CONSTANTS
  Threads,
  num_nodes,
  Inputs,      \* the graphs and parameters to run on (see InputOK)
  chunk_size   \* iterations of BUStep that are handed out at a time: whole words
               \* of the bitmap, because set_bit is not atomic (1024 and 64)

Nodes == 0 .. num_nodes - 1

\* An input is a graph, the list adj[v] of each vertex, with directed saying
\* how it was built, and the arguments of DOBFS.
InputOK(i) ==
  /\ i.adj \in [Nodes -> SUBSET Nodes]
  /\ i.directed \/ \A u \in Nodes : \A v \in i.adj[u] : u \in i.adj[v]
  /\ i.source \in Nodes
  /\ i.alpha \in Nat \ {0} /\ i.beta \in Nat \ {0}

ASSUME BfsAssumption ==
  /\ Threads # {} /\ num_nodes \in Nat \ {0}
  /\ \A i \in Inputs : InputOK(i)
  /\ chunk_size \in Nat \ {0} /\ chunk_size % kBitsPerWord = 0

VARIABLES
  input,      \* the graph and the arguments, never changed
  parent,
  queue,      \* SlidingQueue
  front, curr,                         \* Bitmaps
  edges_to_check, scout_count,
  awake_count, old_awake_count,
  phase,      \* the parallel loop, or head, where the next one is chosen
  work,       \* its iterations that no thread has taken yet
  team        \* per thread, what it is doing

counters == <<edges_to_check, scout_count, awake_count, old_awake_count>>
bfsVars == <<input, parent, queue, front, curr, counters, phase, work, team>>

out_neigh(u) == input.adj[u]
in_neigh(u) == input.adj[u]    \* graph.h returns the list of u here too
out_degree(u) == Cardinality(input.adj[u])

\* num_edges_ counts the pivots.
num_edges_directed ==
  LET num_edges_ == num_nodes + MapThenSumSet(out_degree, Nodes)
  IN IF input.directed THEN num_edges_ ELSE 2 * num_edges_

\* Integer division rounds towards zero.
Quotient(a, b) == IF a >= 0 THEN a \div b ELSE -((-a) \div b)

\* A thread is at the top of its loop (todo: neighbours, or vertices of the
\* chunk, still to do), about to compare-and-swap parent[v] or to store the
\* word of bit v, inside flush(), or waiting at the barrier.
AtLoop == [pc |-> "loop", u |-> 0, v |-> 0, seen |-> 0, word |-> {}, todo |-> {},
           local |-> <<>>, copy_start |-> 0, pending |-> <<>>]

InitParent ==
  [n \in Nodes |-> IF n = input.source THEN n
                   ELSE IF out_degree(n) # 0 THEN -out_degree(n) ELSE -1]

BfsInit ==
  /\ input \in Inputs
  /\ parent = InitParent
  /\ queue = slide_window(push_back(NewQueue(num_nodes), input.source))
  /\ front = {} /\ curr = {}
  /\ edges_to_check = num_edges_directed
  /\ scout_count = out_degree(input.source)
  /\ awake_count = 0 /\ old_awake_count = 0
  /\ phase = "head" /\ work = {}
  /\ team = [t \in Threads |-> AtLoop]

-----------------------------------------------------------------------------
(***************************************************************************)
(* The loop of DOBFS, between the parallel loops.                           *)
(***************************************************************************)
StartLoop(name, iterations) ==
  /\ phase' = name
  /\ work' = iterations
  /\ team' = [t \in Threads |-> AtLoop]

Barrier(name) == phase = name /\ \A t \in Threads : team[t].pc = "barrier"

Chunks == {n \in Nodes : n % chunk_size = 0}
ChunkFrom(n) == n .. Min({n + chunk_size, num_nodes}) - 1

NextReset(bitmap) == {}

GoBottomUp ==
  /\ phase = "head" /\ ~EmptyWindow(queue)
  /\ scout_count > Quotient(edges_to_check, input.alpha)
  /\ awake_count' = WindowSize(queue)
  /\ StartLoop("QueueToBitmap", WindowPositions(queue))
  /\ UNCHANGED <<input, parent, queue, front, curr, edges_to_check, scout_count, old_awake_count>>

GoTopDown ==
  /\ phase = "head" /\ ~EmptyWindow(queue)
  /\ scout_count <= Quotient(edges_to_check, input.alpha)
  /\ edges_to_check' = edges_to_check - scout_count
  /\ scout_count' = 0
  /\ StartLoop("TDStep", WindowPositions(queue))
  /\ UNCHANGED <<input, parent, queue, front, curr, awake_count, old_awake_count>>

\* A degree stays behind.
FaultyFinish ==
  /\ phase = "head" /\ EmptyWindow(queue)
  /\ phase' = "done"
  /\ UNCHANGED <<input, parent, queue, front, curr, counters, work, team>>

\* The vertices without a parent lose the degree they stand for.
Finish ==
  /\ phase = "head" /\ EmptyWindow(queue)
  /\ parent' = [n \in Nodes |-> IF parent[n] < -1 THEN -1 ELSE parent[n]]
  /\ phase' = "done"
  /\ UNCHANGED <<input, queue, front, curr, counters, work, team>>

StartBUStep(next) ==
  /\ old_awake_count' = awake_count
  /\ awake_count' = 0
  /\ curr' = NextReset(next)
  /\ StartLoop("BUStep", Chunks)

EndQueueToBitmap ==
  /\ Barrier("QueueToBitmap")
  /\ queue' = slide_window(queue)
  /\ StartBUStep(curr)
  /\ UNCHANGED <<input, parent, front, edges_to_check, scout_count>>

\* An empty front is searched again when num_nodes / beta is 0.
FaultyStayBottomUp ==
  awake_count >= old_awake_count \/ awake_count >= num_nodes \div input.beta

StayBottomUp ==
  awake_count >= old_awake_count \/ awake_count > num_nodes \div input.beta

\* front and curr change places, and the next step is bottom-up again ...
AgainBottomUp ==
  /\ Barrier("BUStep") /\ StayBottomUp
  /\ front' = curr
  /\ StartBUStep(front)
  /\ UNCHANGED <<input, parent, queue, edges_to_check, scout_count>>

\* ... or the front goes back to the queue.
LeaveBottomUp ==
  /\ Barrier("BUStep") /\ ~StayBottomUp
  /\ front' = curr /\ curr' = front
  /\ StartLoop("BitmapToQueue", Nodes)
  /\ UNCHANGED <<input, parent, queue, counters>>

EndBitmapToQueue ==
  /\ Barrier("BitmapToQueue")
  /\ queue' = slide_window(queue)
  /\ scout_count' = 1
  /\ StartLoop("head", {})
  /\ UNCHANGED <<input, parent, front, curr, edges_to_check, awake_count, old_awake_count>>

EndTDStep ==
  /\ Barrier("TDStep")
  /\ queue' = slide_window(queue)
  /\ StartLoop("head", {})
  /\ UNCHANGED <<input, parent, front, curr, counters>>

Master ==
  \/ GoBottomUp \/ GoTopDown \/ Finish
  \/ EndQueueToBitmap \/ AgainBottomUp \/ LeaveBottomUp \/ EndBitmapToQueue \/ EndTDStep

-----------------------------------------------------------------------------
(***************************************************************************)
(* The loops.                                                               *)
(***************************************************************************)

\* Thread t changes to record r.
Becomes(t, r) == team' = [team EXCEPT ![t] = r]

AtTop(t, name) == phase = name /\ team[t].pc = "loop" /\ team[t].todo = {}

\* Every loop: no iteration is left.  A QueueBuffer is flushed first.
LeaveLoop(t) ==
  /\ phase \in {"QueueToBitmap", "BUStep", "BitmapToQueue", "TDStep"}
  /\ AtTop(t, phase) /\ work = {}
  /\ Becomes(t, [team[t] EXCEPT !.pc = IF team[t].local = <<>> THEN "barrier" ELSE "flush"])
  /\ UNCHANGED <<input, parent, queue, front, curr, counters, phase, work>>

\* lqueue.push_back(v) by a thread in state r: a full buffer is flushed first.
Pushed(r, v) ==
  IF Len(r.local) = local_size THEN [r EXCEPT !.pc = "flush", !.pending = <<v>>]
  ELSE [r EXCEPT !.pc = "loop", !.local = Append(@, v)]

Flush(t) ==
  /\ team[t].pc = "flush"
  /\ queue' = ReserveSpace(queue, Len(team[t].local))
  /\ Becomes(t, [team[t] EXCEPT !.pc = "copy", !.copy_start = queue.shared_in])
  /\ UNCHANGED <<input, parent, front, curr, counters, phase, work>>

\* The end of flush(); it was called by push_back or after the loop.
Copy(t) ==
  /\ team[t].pc = "copy"
  /\ queue' = CopyToShared(queue, team[t].local, team[t].copy_start)
  /\ Becomes(t, [team[t] EXCEPT !.pc = IF team[t].pending = <<>> THEN "barrier" ELSE "loop",
                                !.local = team[t].pending, !.pending = <<>>])
  /\ UNCHANGED <<input, parent, front, curr, counters, phase, work>>

\* TDStep: the next vertex of the queue ...
TDTake(t) ==
  /\ AtTop(t, "TDStep")
  /\ \E i \in work :
       /\ work' = work \ {i}
       /\ Becomes(t, [team[t] EXCEPT !.u = queue.shared[i], !.todo = out_neigh(queue.shared[i])])
  /\ UNCHANGED <<input, parent, queue, front, curr, counters, phase>>

\* ... a neighbour of it is looked at ...
TDLook(t) ==
  /\ phase = "TDStep" /\ team[t].pc = "loop"
  /\ \E v \in team[t].todo :
       Becomes(t, [team[t] EXCEPT !.todo = @ \ {v}, !.v = v, !.seen = parent[v],
                                  !.pc = IF parent[v] < 0 THEN "cas" ELSE "loop"])
  /\ UNCHANGED <<input, parent, queue, front, curr, counters, phase, work>>

\* Whoever saw an unvisited vertex takes it.
FaultyTDClaim(t) ==
  /\ phase = "TDStep" /\ team[t].pc = "cas"
  /\ parent' = [parent EXCEPT ![team[t].v] = team[t].u]
  /\ scout_count' = scout_count - team[t].seen
  /\ Becomes(t, Pushed(team[t], team[t].v))
  /\ UNCHANGED <<input, queue, front, curr, edges_to_check, awake_count, old_awake_count,
                 phase, work>>

\* ... and claimed, unless another thread was faster.
TDClaim(t) ==
  /\ phase = "TDStep" /\ team[t].pc = "cas"
  /\ IF parent[team[t].v] = team[t].seen
     THEN /\ parent' = [parent EXCEPT ![team[t].v] = team[t].u]
          /\ scout_count' = scout_count - team[t].seen
          /\ Becomes(t, Pushed(team[t], team[t].v))
     ELSE /\ Becomes(t, [team[t] EXCEPT !.pc = "loop"])
          /\ UNCHANGED <<parent, scout_count>>
  /\ UNCHANGED <<input, queue, front, curr, edges_to_check, awake_count, old_awake_count,
                 phase, work>>

\* QueueToBitmap: set_bit_atomic loads the word ...
QBTake(t) ==
  /\ AtTop(t, "QueueToBitmap")
  /\ \E i \in work :
       /\ work' = work \ {i}
       /\ Becomes(t, [team[t] EXCEPT !.pc = "store", !.v = queue.shared[i],
                                     !.word = WordOf(front, queue.shared[i])])
  /\ UNCHANGED <<input, parent, queue, front, curr, counters, phase>>

\* set_bit is used where set_bit_atomic is needed.
FaultyQBSwap(t) ==
  /\ phase = "QueueToBitmap" /\ team[t].pc = "store"
  /\ front' = StoreWord(front, team[t].v, team[t].word)
  /\ Becomes(t, [team[t] EXCEPT !.pc = "loop"])
  /\ UNCHANGED <<input, parent, queue, curr, counters, phase, work>>

\* ... and stores it if it has not changed, or loads it again.
QBSwap(t) ==
  /\ phase = "QueueToBitmap" /\ team[t].pc = "store"
  /\ LET word == WordOf(front, team[t].v) IN
     IF word = team[t].word
     THEN /\ front' = StoreWord(front, team[t].v, word)
          /\ Becomes(t, [team[t] EXCEPT !.pc = "loop"])
     ELSE /\ Becomes(t, [team[t] EXCEPT !.word = word])
          /\ UNCHANGED front
  /\ UNCHANGED <<input, parent, queue, curr, counters, phase, work>>

\* BUStep: the next chunk ...
BUTake(t) ==
  /\ AtTop(t, "BUStep")
  /\ \E n \in work :
       /\ work' = work \ {n}
       /\ Becomes(t, [team[t] EXCEPT !.todo = ChunkFrom(n)])
  /\ UNCHANGED <<input, parent, queue, front, curr, counters, phase>>

\* ... whose next vertex, if unvisited, takes a neighbour in front for its
\* parent; set_bit loads its word ...
BULook(t) ==
  /\ phase = "BUStep" /\ team[t].pc = "loop" /\ team[t].todo # {}
  /\ LET u == Min(team[t].todo)
         parents == IF parent[u] < 0 THEN in_neigh(u) \cap front ELSE {}
         r == [team[t] EXCEPT !.todo = @ \ {u}]
     IN IF parents = {}
        THEN Becomes(t, r) /\ UNCHANGED <<parent, awake_count>>
        ELSE /\ \E v \in parents : parent' = [parent EXCEPT ![u] = v]
             /\ awake_count' = awake_count + 1
             /\ Becomes(t, [r EXCEPT !.pc = "store", !.v = u, !.word = WordOf(curr, u)])
  /\ UNCHANGED <<input, queue, front, curr, edges_to_check, scout_count, old_awake_count,
                 phase, work>>

\* ... and stores it.
BUStore(t) ==
  /\ phase = "BUStep" /\ team[t].pc = "store"
  /\ curr' = StoreWord(curr, team[t].v, team[t].word)
  /\ Becomes(t, [team[t] EXCEPT !.pc = "loop"])
  /\ UNCHANGED <<input, parent, queue, front, counters, phase, work>>

\* BitmapToQueue.
BQTake(t) ==
  /\ AtTop(t, "BitmapToQueue")
  /\ \E n \in work :
       /\ work' = work \ {n}
       /\ IF n \in front THEN Becomes(t, Pushed(team[t], n)) ELSE UNCHANGED team
  /\ UNCHANGED <<input, parent, queue, front, curr, counters, phase>>

Thread(t) ==
  \/ LeaveLoop(t) \/ Flush(t) \/ Copy(t)
  \/ TDTake(t) \/ TDLook(t) \/ TDClaim(t)
  \/ QBTake(t) \/ QBSwap(t)
  \/ BUTake(t) \/ BULook(t) \/ BUStore(t)
  \/ BQTake(t)

Terminated == phase = "done" /\ UNCHANGED bfsVars

BfsNext == Master \/ (\E t \in Threads : Thread(t)) \/ Terminated

\* Every thread of the team runs, and so does the one between the loops.
BfsSpec ==
  /\ BfsInit /\ [][BfsNext]_bfsVars
  /\ WF_bfsVars(Master)
  /\ \A t \in Threads : WF_bfsVars(Thread(t))

-----------------------------------------------------------------------------
(***************************************************************************)
(* Properties.                                                              *)
(***************************************************************************)

\* The vertices at a distance of at most d from the source.
Ball[d \in 0 .. num_nodes] ==
  IF d = 0 THEN {input.source}
  ELSE Ball[d - 1] \cup UNION {out_neigh(u) : u \in Ball[d - 1]}

Level(d) == IF d = 0 THEN Ball[0] ELSE Ball[d] \ Ball[d - 1]
Visited == {n \in Nodes : parent[n] >= 0}

\* "parent[v] = u => there is edge from u to v" (bfs.cc:193).
ParentsAreNeighbours ==
  \A n \in Nodes \ {input.source} :
    parent[n] >= 0 => parent[n] \in Visited /\ n \in out_neigh(parent[n])

\* Each round ends with the whole of a level, and nothing else, in the queue:
\* no vertex is dropped by a race for a word of a bitmap, for a vertex or for a
\* place in the queue, none is visited a round early because of a bit an
\* earlier bottom-up phase has left in front.
LevelByLevel ==
  phase = "head" =>
    \E d \in 0 .. num_nodes : Visited = Ball[d] /\ Window(queue) = Level(d)

\* Every visited vertex is entered in the queue at most once, so that the array
\* of num_nodes entries is long enough.
QueueFits ==
  /\ queue.shared_in <= num_nodes
  /\ phase = "head" => Cardinality(Window(queue)) = WindowSize(queue)

\* What BFSVerifier asserts of the result (bfs.cc:189-195).
VerifierAccepts ==
  phase = "done" =>
    /\ parent[input.source] = input.source
    /\ \A n \in Nodes \ {input.source} :
         \/ \E d \in 1 .. num_nodes : n \in Level(d) /\ parent[n] \in Level(d - 1) /\ n \in out_neigh(parent[n])
         \/ n \notin Ball[num_nodes] /\ parent[n] = -1

\* The search ends, whichever way the steps alternate.
Terminates == <>(phase = "done")
=============================================================================
