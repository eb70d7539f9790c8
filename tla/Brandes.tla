------------------------------ MODULE Brandes ------------------------------
(***************************************************************************)
(* Betweenness centrality of bc.cc: for each source a breadth-first search  *)
(* by a team of threads (PBFS), which counts shortest paths and marks in    *)
(* the bitmap succ the edges on them, and a walk back over the levels that  *)
(* sums up dependencies.  depths, path_counts, succ and the queue are       *)
(* shared and not locked; each access to them is a step of its own.         *)
(*                                                                         *)
(* The scores are floating-point; here they are multiples of 1 / Scale,     *)
(* exact when Scale is divisible often enough by the path counts, and are   *)
(* not normalized.                                                          *)
(***************************************************************************)
EXTENDS Containers, FiniteSetsExt

CONSTANTS
  Threads,
  num_nodes,
  GraphsBC,   \* the graphs to run on: the list of neighbours of each vertex
  Sources,    \* the sources SourcePicker picks, in order
  Scale

Nodes == 0 .. num_nodes - 1

ASSUME BrandesAssumption ==
  /\ Threads # {} /\ num_nodes \in Nat \ {0}
  /\ \A g \in GraphsBC : g \in [Nodes -> Seq(Nodes)]
  /\ Sources \in Seq(Nodes)
  /\ Scale \in Nat \ {0}

VARIABLES
  adj,            \* the graph, never changed
  iter,           \* the sources that have been picked
  depths, path_counts, succ, depth_index, queue, deltas, scores,
  depth,          \* the level the threads are looking for
  d,              \* the level of the walk back
  phase,          \* PBFS or back (the parallel loops), next (a source is picked), or done
  work, team      \* as in Bfs

bcShared == <<depths, path_counts, succ, queue, deltas, scores>>
bcVars == <<adj, iter, bcShared, depth_index, depth, d, phase, work, team>>

out_neigh(u) == adj[u]
source == Sources[iter]

\* ParallelLoadDegrees and ParallelPrefixSum: the edges before those of u.
prefix(u) == MapThenSumSet(LAMBDA v : Len(adj[v]), 0 .. u - 1)

GetEdgeId(u, local_edge_id) == prefix(u) + local_edge_id

AtLoop == [pc |-> "loop", u |-> 0, edge |-> 0, word |-> {},
           local |-> <<>>, copy_start |-> 0, pending |-> <<>>]

StartLoop(name, positions) ==
  /\ phase' = name
  /\ work' = positions
  /\ team' = [t \in Threads |-> AtLoop]

AllAtBarrier == \A t \in Threads : team[t].pc = "barrier"

BCInit ==
  /\ adj \in GraphsBC
  /\ iter = 0
  /\ depths = [n \in Nodes |-> -1] /\ path_counts = [n \in Nodes |-> 0]
  /\ succ = {} /\ depth_index = <<>> /\ queue = NewQueue(num_nodes)
  /\ deltas = [n \in Nodes |-> 0] /\ scores = [n \in Nodes |-> 0]
  /\ depth = 0 /\ d = 0
  /\ phase = "next" /\ work = {}
  /\ team = [t \in Threads |-> AtLoop]

-----------------------------------------------------------------------------
(***************************************************************************)
(* Brandes, between the parallel loops.                                     *)
(***************************************************************************)
ResetQueue(q) == [q EXCEPT !.shared_in = 0, !.shared_out_start = 0, !.shared_out_end = 0]

ResetSucc(bits) == {}

\* A source is picked, everything is reset, and the queue and the index start
\* with the source; the threads then enter the index of the first level.
PickSource ==
  /\ phase = "next" /\ iter < Len(Sources)
  /\ iter' = iter + 1
  /\ LET s == Sources[iter + 1]
         q == slide_window(push_back(ResetQueue(queue), s))
     IN
     /\ depths' = [n \in Nodes |-> IF n = s THEN 0 ELSE -1]
     /\ path_counts' = [n \in Nodes |-> IF n = s THEN 1 ELSE 0]
     /\ queue' = q
     /\ depth_index' = <<0, q.shared_out_start>>
     /\ StartLoop("PBFS", WindowPositions(q))
  /\ succ' = ResetSucc(succ)
  /\ depth' = 1
  /\ deltas' = [n \in Nodes |-> 0]
  /\ UNCHANGED <<adj, scores, d>>

\* The window slides; there is another level ...
NextLevel ==
  /\ phase = "PBFS" /\ AllAtBarrier
  /\ ~EmptyWindow(slide_window(queue))
  /\ queue' = slide_window(queue)
  /\ depth_index' = Append(depth_index, queue'.shared_out_start)
  /\ depth' = depth + 1
  /\ StartLoop("PBFS", WindowPositions(queue'))
  /\ UNCHANGED <<adj, iter, depths, path_counts, succ, deltas, scores, d>>

\* The positions of a level: depth_index[level] .. depth_index[level + 1] - 1,
\* with levels counted from 0.
LevelPositions(index, level) == index[level + 1] .. index[level + 2] - 1

\* ... or not, and the walk back begins at depth_index.size() - 2.
StartBack ==
  /\ phase = "PBFS" /\ AllAtBarrier
  /\ EmptyWindow(slide_window(queue))
  /\ queue' = slide_window(queue)
  /\ depth_index' = Append(depth_index, queue'.shared_out_start)
  /\ d' = Len(depth_index') - 2
  /\ StartLoop("back", LevelPositions(depth_index', d'))
  /\ UNCHANGED <<adj, iter, depths, path_counts, succ, deltas, scores, depth>>

\* The walk goes down from the source.
FaultyPreviousLevel ==
  /\ phase = "back" /\ AllAtBarrier
  /\ IF d > 0
     THEN d' = d - 1 /\ StartLoop("back", LevelPositions(depth_index, Len(depth_index) - 2 - d'))
     ELSE d' = d /\ StartLoop("next", {})
  /\ UNCHANGED <<adj, iter, bcShared, depth_index, depth>>

PreviousLevel ==
  /\ phase = "back" /\ AllAtBarrier
  /\ IF d > 0
     THEN d' = d - 1 /\ StartLoop("back", LevelPositions(depth_index, d'))
     ELSE d' = d /\ StartLoop("next", {})
  /\ UNCHANGED <<adj, iter, bcShared, depth_index, depth>>

Finish ==
  /\ phase = "next" /\ iter = Len(Sources)
  /\ phase' = "done"
  /\ UNCHANGED <<adj, iter, bcShared, depth_index, depth, d, work, team>>

Master == PickSource \/ NextLevel \/ StartBack \/ PreviousLevel \/ Finish

-----------------------------------------------------------------------------
(***************************************************************************)
(* The loops.                                                               *)
(***************************************************************************)
Becomes(t, r) == team' = [team EXCEPT ![t] = r]
Inside(t, pc) == phase = "PBFS" /\ team[t].pc = pc

\* The edge thread t is at, and where it leads.
LocalEdge(t) == team[t].edge - 1
Dst(t) == out_neigh(team[t].u)[team[t].edge]

LeaveLoop(t) ==
  /\ phase \in {"PBFS", "back"} /\ team[t].pc = "loop" /\ work = {}
  /\ Becomes(t, [team[t] EXCEPT !.pc = IF team[t].local = <<>> THEN "barrier" ELSE "flush"])
  /\ UNCHANGED <<adj, iter, bcShared, depth_index, depth, d, phase, work>>

\* After the edge before it (or with edge = 0 at the beginning): the next one.
Advanced(r) ==
  IF r.edge < Len(out_neigh(r.u)) THEN [r EXCEPT !.pc = "claim", !.edge = @ + 1]
  ELSE [r EXCEPT !.pc = "loop"]

Take(t) ==
  /\ Inside(t, "loop")
  /\ \E i \in work :
       /\ work' = work \ {i}
       /\ Becomes(t, Advanced([team[t] EXCEPT !.u = queue.shared[i], !.edge = 0]))
  /\ UNCHANGED <<adj, iter, bcShared, depth_index, depth, d, phase>>

\* v has no depth, and the compare-and-swap gives it one; the test before it
\* changes nothing that the swap does not find out itself.  The winner puts v
\* in its queue, which it flushes first if it is full.
Claim(t) ==
  /\ Inside(t, "claim")
  /\ LET v == Dst(t) IN
     IF depths[v] = -1
     THEN /\ depths' = [depths EXCEPT ![v] = depth]
          /\ Becomes(t, IF Len(team[t].local) = local_size
                        THEN [team[t] EXCEPT !.pc = "flush", !.pending = <<v>>]
                        ELSE [team[t] EXCEPT !.pc = "test", !.local = Append(@, v)])
     ELSE Becomes(t, [team[t] EXCEPT !.pc = "test"]) /\ UNCHANGED depths
  /\ UNCHANGED <<adj, iter, path_counts, succ, queue, deltas, scores, depth_index, depth, d,
                 phase, work>>

Flush(t) ==
  /\ Inside(t, "flush")
  /\ queue' = ReserveSpace(queue, Len(team[t].local))
  /\ Becomes(t, [team[t] EXCEPT !.pc = "copy", !.copy_start = queue.shared_in])
  /\ UNCHANGED <<adj, iter, depths, path_counts, succ, deltas, scores, depth_index, depth, d,
                 phase, work>>

Copy(t) ==
  /\ Inside(t, "copy")
  /\ queue' = CopyToShared(queue, team[t].local, team[t].copy_start)
  /\ Becomes(t, [team[t] EXCEPT !.pc = IF team[t].pending = <<>> THEN "barrier" ELSE "test",
                                !.local = team[t].pending, !.pending = <<>>])
  /\ UNCHANGED <<adj, iter, depths, path_counts, succ, deltas, scores, depth_index, depth, d,
                 phase, work>>

\* An edge to the next level: set_bit_atomic loads the word of succ ...
Test(t) ==
  /\ Inside(t, "test")
  /\ Becomes(t, IF depths[Dst(t)] = depth
                THEN [team[t] EXCEPT !.pc = "bit",
                                     !.word = WordOf(succ, GetEdgeId(team[t].u, LocalEdge(t)))]
                ELSE Advanced(team[t]))
  /\ UNCHANGED <<adj, iter, bcShared, depth_index, depth, d, phase, work>>

\* set_bit in place of set_bit_atomic.
FaultySetBit(t) ==
  /\ Inside(t, "bit")
  /\ succ' = StoreWord(succ, GetEdgeId(team[t].u, LocalEdge(t)), team[t].word)
  /\ Becomes(t, [team[t] EXCEPT !.pc = "count"])
  /\ UNCHANGED <<adj, iter, depths, path_counts, queue, deltas, scores, depth_index, depth, d,
                 phase, work>>

\* ... and swaps it, again if it has changed ...
SetBit(t) ==
  /\ Inside(t, "bit")
  /\ LET id == GetEdgeId(team[t].u, LocalEdge(t)) IN
     IF WordOf(succ, id) = team[t].word
     THEN /\ succ' = StoreWord(succ, id, team[t].word)
          /\ Becomes(t, [team[t] EXCEPT !.pc = "count"])
     ELSE /\ Becomes(t, [team[t] EXCEPT !.word = WordOf(succ, id)])
          /\ UNCHANGED succ
  /\ UNCHANGED <<adj, iter, depths, path_counts, queue, deltas, scores, depth_index, depth, d,
                 phase, work>>

\* ... and the paths to u go on to v, by fetch_and_add.
Count(t) ==
  /\ Inside(t, "count")
  /\ path_counts' = [path_counts EXCEPT ![Dst(t)] = @ + path_counts[team[t].u]]
  /\ Becomes(t, Advanced(team[t]))
  /\ UNCHANGED <<adj, iter, depths, succ, queue, deltas, scores, depth_index, depth, d,
                 phase, work>>

\* The walk back: vertex u sums over its successors.
Back(t) ==
  /\ phase = "back" /\ team[t].pc = "loop"
  /\ \E i \in work :
       LET u == queue.shared[i]
           edges == {e \in DOMAIN out_neigh(u) : GetEdgeId(u, e - 1) \in succ}
           share(e) == LET v == out_neigh(u)[e]
                       IN (path_counts[u] * (Scale + deltas[v])) \div path_counts[v]
           delta_u == MapThenSumSet(share, edges)
       IN /\ work' = work \ {i}
          /\ deltas' = [deltas EXCEPT ![u] = delta_u]
          /\ scores' = [scores EXCEPT ![u] = @ + delta_u]
  /\ UNCHANGED <<adj, iter, depths, path_counts, succ, queue, depth_index, depth, d, phase, team>>

Thread(t) ==
  \/ LeaveLoop(t) \/ Take(t) \/ Claim(t) \/ Flush(t) \/ Copy(t)
  \/ Test(t) \/ SetBit(t) \/ Count(t) \/ Back(t)

Terminated == phase = "done" /\ UNCHANGED bcVars

BCNext == Master \/ (\E t \in Threads : Thread(t)) \/ Terminated

\* As in Bfs.
BCSpec ==
  /\ BCInit /\ [][BCNext]_bcVars
  /\ WF_bcVars(Master)
  /\ \A t \in Threads : WF_bcVars(Thread(t))

-----------------------------------------------------------------------------
(***************************************************************************)
(* What the search should find, from the definitions.                       *)
(***************************************************************************)
Copies(g, u, v) == Cardinality({e \in DOMAIN g[u] : g[u][e] = v})

\* The number of walks of k edges from s to v in the graph g.
Walks[g \in GraphsBC, s \in Nodes, k \in 0 .. num_nodes, v \in Nodes] ==
  IF k = 0 THEN (IF v = s THEN 1 ELSE 0)
  ELSE MapThenSumSet(LAMBDA u : Copies(g, u, v) * Walks[g, s, k - 1, u],
                     {u \in Nodes : Copies(g, u, v) > 0})

\* The fewest edges of a walk from s to v, and the number of such walks.
Reference ==
  [g \in GraphsBC |-> [s \in Nodes |-> [v \in Nodes |->
     LET lengths == {k \in 0 .. num_nodes : Walks[g, s, k, v] > 0} IN
     IF lengths = {} THEN [distance |-> -1, paths |-> 0]
     ELSE [distance |-> Min(lengths), paths |-> Walks[g, s, Min(lengths), v]]]]]

Distance(s, v) == Reference[adj][s][v].distance
ShortestPaths(s, v) == Reference[adj][s][v].paths

\* The share of the shortest paths from s to w that go through u.
Dependency(s, u, w) ==
  IF Distance(s, u) >= 0 /\ Distance(u, w) > 0 /\ Distance(s, w) = Distance(s, u) + Distance(u, w)
  THEN (Scale * ShortestPaths(s, u) * ShortestPaths(u, w)) \div ShortestPaths(s, w)
  ELSE 0

-----------------------------------------------------------------------------
(***************************************************************************)
(* Properties.                                                              *)
(***************************************************************************)

\* ... and succ marks the edges from each level to the next, although threads
\* set bits of one word at the same time.
SuccessorsMarked ==
  phase = "back" =>
    succ = {GetEdgeId(u, e - 1) : <<u, e>> \in
              {x \in Nodes \X (1 .. prefix(num_nodes)) :
                 /\ x[2] \in DOMAIN adj[x[1]]
                 /\ Distance(source, x[1]) >= 0
                 /\ Distance(source, adj[x[1]][x[2]]) = Distance(source, x[1]) + 1}}

\* The scores are the dependencies by their definition, although the threads
\* only ever read deltas of the level below, and nothing of one source is left
\* when the next is picked.
ScoresExact ==
  phase = "done" =>
    \A u \in Nodes :
      scores[u] = MapThenSumSet(
        LAMBDA i : MapThenSumSet(LAMBDA w : Dependency(Sources[i], u, w), Nodes), DOMAIN Sources)

==============================================================================
