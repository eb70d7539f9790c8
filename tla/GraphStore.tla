----------------------------- MODULE GraphStore -----------------------------
(***************************************************************************)
(* What DGAP promises to the threads that insert edges (dgap/src/builder.h  *)
(* calls g.insert(u, v) from a parallel loop, dgap/src/graph.h implements   *)
(* it): a growing adjacency list per vertex.  Each call adds its own edge   *)
(* exactly once, at one moment between the call and the return, at the end  *)
(* of the list of its source; nothing else ever changes a list.             *)
(***************************************************************************)
EXTENDS Sequences

CONSTANTS
  Callers,   \* the threads that insert
  Nodes,     \* the vertices an edge can start from
  Targets,   \* the values an edge can lead to
  BaseAdj    \* the adjacency lists of the base graph

VARIABLES
  adj,       \* adj[v]: the neighbours of v, oldest first
  calls      \* calls[t]: the insertion thread t is executing, or NoCall

storeVars == <<adj, calls>>

NoCall == [busy |-> FALSE]

StoreInit ==
  /\ adj = BaseAdj
  /\ calls = [t \in Callers |-> NoCall]

\* insert(u, v) is called ...
Invoke(t, u, v) ==
  /\ calls[t] = NoCall
  /\ calls' = [calls EXCEPT ![t] = [busy |-> TRUE, u |-> u, v |-> v, added |-> FALSE]]
  /\ UNCHANGED adj

\* ... takes effect ...
AddEdge(t) ==
  /\ calls[t] # NoCall
  /\ ~calls[t].added
  /\ adj' = [adj EXCEPT ![calls[t].u] = Append(@, calls[t].v)]
  /\ calls' = [calls EXCEPT ![t].added = TRUE]

\* ... and returns.
Return(t) ==
  /\ calls[t] # NoCall
  /\ calls[t].added
  /\ calls' = [calls EXCEPT ![t] = NoCall]
  /\ UNCHANGED adj

\* An insertion into a leaf with room adds the edge and returns at once.
AddAndReturn(t) ==
  /\ calls[t] # NoCall
  /\ ~calls[t].added
  /\ adj' = [adj EXCEPT ![calls[t].u] = Append(@, calls[t].v)]
  /\ calls' = [calls EXCEPT ![t] = NoCall]

StoreNext ==
  \E t \in Callers :
    \/ \E u \in Nodes : \E v \in Targets : Invoke(t, u, v)
    \/ AddEdge(t)
    \/ Return(t)
    \/ AddAndReturn(t)

StoreSpec == StoreInit /\ [][StoreNext]_storeVars
=============================================================================
