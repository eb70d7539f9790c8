------------------------------- MODULE DgapMC -------------------------------
(***************************************************************************)
(* Dgap for TLC.  insert() never looks at a destination, so one value per   *)
(* new edge of a source is enough: its rank among the edges of that source. *)
(***************************************************************************)
EXTENDS Dgap

CONSTANTS
  SourceSet,   \* the sources of the inserted edges
  MaxRank,     \* a bound on the degrees
  First        \* one of the threads

SourcesAll == [t \in Threads |-> SourceSet]

\* Thread First inserts edges of vertex 0, the others edges of the last
\* vertex.
SourcesApart == [t \in Threads |-> IF t = First THEN {0} ELSE {n_vertices - 1}]
DstRanks == 0 .. MaxRank

ThreadSymmetry == Permutations(Threads)

RankedCall(t) ==
  \E src \in Sources[t] : InsertCall(t, src, graph.vertices_[src].degree)

MCNext ==
  \/ \E t \in Threads : RankedCall(t) \/ Proceed(t) \/ Spurious(t)
  \/ Terminated

MCSpec == Init /\ [][MCNext]_vars

MCFairSpec == MCSpec /\ \A t \in Threads : WF_vars(RankedCall(t) \/ Proceed(t))

\* The smallest base graph with n_vertices vertices: one edge to the last one.
OneEdge == <<[u |-> 0, v |-> n_vertices - 1]>>
=============================================================================
