-------------------------- MODULE ShiloachVishkin --------------------------
(***************************************************************************)
(* The connected components of cc_sv.cc: all threads hook the roots of the  *)
(* label forest comp onto smaller labels, edge by edge, then all shorten    *)
(* the paths, until a round hooks nothing.  comp and change are shared and  *)
(* not locked; every read and every write of them is a step of its own.     *)
(***************************************************************************)
EXTENDS Integers, FiniteSets

CONSTANTS
  Threads,
  num_nodes,
  GraphsSV   \* the graphs to run on: the out-neighbours of each vertex

Nodes == 0 .. num_nodes - 1

ASSUME SVAssumption ==
  /\ Threads # {} /\ num_nodes \in Nat \ {0}
  /\ GraphsSV \subseteq [Nodes -> SUBSET Nodes]

VARIABLES
  adj,      \* the graph, never changed
  comp,     \* comp[v]: the label of v
  change,   \* a root has been hooked in this round
  phase,    \* hook or compress (the parallel loops), or done
  work,     \* the vertices no thread has taken yet
  team      \* per thread, what it is doing

svVars == <<adj, comp, change, phase, work, team>>

out_neigh(u) == adj[u]

\* pc is where the thread stands in the body of its loop; todo: the neighbours
\* of u it still has to look at.
Idle == [pc |-> "next", u |-> 0, v |-> 0, todo |-> {}, comp_u |-> 0,
         high |-> 0, low |-> 0, label |-> 0]

SVInit ==
  /\ adj \in GraphsSV
  /\ comp = [n \in Nodes |-> n]
  /\ change = FALSE
  /\ phase = "hook" /\ work = Nodes
  /\ team = [t \in Threads |-> Idle]

At(t, name, pc) == phase = name /\ team[t].pc = pc
Becomes(t, r) == team' = [team EXCEPT ![t] = r]

-----------------------------------------------------------------------------
(***************************************************************************)
(* Hooking.                                                                 *)
(***************************************************************************)
Take(t) ==
  /\ team[t].pc = "next" /\ team[t].todo = {} /\ phase # "done"
  /\ \E u \in work :
       /\ work' = work \ {u}
       /\ Becomes(t, IF phase = "hook" THEN [Idle EXCEPT !.u = u, !.todo = out_neigh(u)]
                     ELSE [Idle EXCEPT !.pc = "test", !.u = u])
  /\ UNCHANGED <<adj, comp, change, phase>>

LeaveLoop(t) ==
  /\ team[t].pc = "next" /\ team[t].todo = {} /\ work = {} /\ phase # "done"
  /\ Becomes(t, [Idle EXCEPT !.pc = "barrier"])
  /\ UNCHANGED <<adj, comp, change, phase, work>>

\* comp_u is not read.
FaultyReadU(t) ==
  /\ At(t, "hook", "next")
  /\ \E v \in team[t].todo :
       Becomes(t, [team[t] EXCEPT !.todo = @ \ {v}, !.v = v, !.pc = "readv"])
  /\ UNCHANGED <<adj, comp, change, phase, work>>

\* comp_u is read for the next neighbour ...
ReadU(t) ==
  /\ At(t, "hook", "next")
  /\ \E v \in team[t].todo :
       Becomes(t, [team[t] EXCEPT !.todo = @ \ {v}, !.v = v, !.pc = "readv",
                                  !.comp_u = comp[team[t].u]])
  /\ UNCHANGED <<adj, comp, change, phase, work>>

\* Equal labels are not skipped.
FaultyReadV(t) ==
  /\ At(t, "hook", "readv")
  /\ LET comp_u == team[t].comp_u
         comp_v == comp[team[t].v]
         high_comp == IF comp_u > comp_v THEN comp_u ELSE comp_v
     IN Becomes(t, [team[t] EXCEPT !.pc = "root", !.high = high_comp,
                                   !.low = comp_u + (comp_v - high_comp)])
  /\ UNCHANGED <<adj, comp, change, phase, work>>

\* ... then comp_v; equal labels need nothing, otherwise the lower one wins ...
ReadV(t) ==
  /\ At(t, "hook", "readv")
  /\ LET comp_u == team[t].comp_u
         comp_v == comp[team[t].v]
         high_comp == IF comp_u > comp_v THEN comp_u ELSE comp_v
     IN Becomes(t, [team[t] EXCEPT !.pc = IF comp_u = comp_v THEN "next" ELSE "root",
                                   !.high = high_comp,
                                   !.low = comp_u + (comp_v - high_comp)])
  /\ UNCHANGED <<adj, comp, change, phase, work>>

\* change is not set.
FaultyTestRoot(t) ==
  /\ At(t, "hook", "root")
  /\ Becomes(t, [team[t] EXCEPT !.pc = IF comp[team[t].high] = team[t].high
                                       THEN "hook" ELSE "next"])
  /\ UNCHANGED <<adj, comp, change, phase, work>>

\* ... if the higher one is a root ...
TestRoot(t) ==
  /\ At(t, "hook", "root")
  /\ IF comp[team[t].high] = team[t].high
     THEN change' = TRUE /\ Becomes(t, [team[t] EXCEPT !.pc = "hook"])
     ELSE UNCHANGED change /\ Becomes(t, [team[t] EXCEPT !.pc = "next"])
  /\ UNCHANGED <<adj, comp, phase, work>>

\* The lower label is hooked onto the higher one.
FaultyHook(t) ==
  /\ At(t, "hook", "hook")
  /\ comp' = [comp EXCEPT ![team[t].low] = team[t].high]
  /\ Becomes(t, [team[t] EXCEPT !.pc = "next"])
  /\ UNCHANGED <<adj, change, phase, work>>

\* ... which it may no longer be when it is hooked.
Hook(t) ==
  /\ At(t, "hook", "hook")
  /\ comp' = [comp EXCEPT ![team[t].high] = team[t].low]
  /\ Becomes(t, [team[t] EXCEPT !.pc = "next"])
  /\ UNCHANGED <<adj, change, phase, work>>

-----------------------------------------------------------------------------
(***************************************************************************)
(* Compressing, and the rounds.                                             *)
(***************************************************************************)
\* The label of u is read, u being the thread's own in this loop ...
TestPath(t) ==
  /\ At(t, "compress", "test")
  /\ Becomes(t, [team[t] EXCEPT !.pc = "testlabel", !.label = comp[team[t].u]])
  /\ UNCHANGED <<adj, comp, change, phase, work>>

\* ... then the label of that label, which another thread may be changing.
TestLabel(t) ==
  /\ At(t, "compress", "testlabel")
  /\ Becomes(t, [team[t] EXCEPT !.pc = IF team[t].label # comp[team[t].label]
                                       THEN "shorten" ELSE "next"])
  /\ UNCHANGED <<adj, comp, change, phase, work>>

\* Both are read again ...
ReadPath(t) ==
  /\ At(t, "compress", "shorten")
  /\ Becomes(t, [team[t] EXCEPT !.pc = "readlabel", !.label = comp[team[t].u]])
  /\ UNCHANGED <<adj, comp, change, phase, work>>

\* The label is read of the vertex itself.
FaultyReadLabel(t) ==
  /\ At(t, "compress", "readlabel")
  /\ Becomes(t, [team[t] EXCEPT !.pc = "store", !.label = comp[team[t].u]])
  /\ UNCHANGED <<adj, comp, change, phase, work>>

ReadLabel(t) ==
  /\ At(t, "compress", "readlabel")
  /\ Becomes(t, [team[t] EXCEPT !.pc = "store", !.label = comp[team[t].label]])
  /\ UNCHANGED <<adj, comp, change, phase, work>>

\* ... and what was read is stored, whatever has happened to it since.
Shorten(t) ==
  /\ At(t, "compress", "store")
  /\ comp' = [comp EXCEPT ![team[t].u] = team[t].label]
  /\ Becomes(t, [team[t] EXCEPT !.pc = "test"])
  /\ UNCHANGED <<adj, change, phase, work>>

AllAtBarrier == \A t \in Threads : team[t].pc = "barrier"

EndHooking ==
  /\ phase = "hook" /\ AllAtBarrier
  /\ phase' = "compress" /\ work' = Nodes
  /\ team' = [t \in Threads |-> Idle]
  /\ UNCHANGED <<adj, comp, change>>

\* while (change), with change = false at the head of the round.
EndRound ==
  /\ phase = "compress" /\ AllAtBarrier
  /\ IF change THEN phase' = "hook" /\ work' = Nodes ELSE phase' = "done" /\ UNCHANGED work
  /\ change' = FALSE
  /\ team' = [t \in Threads |-> Idle]
  /\ UNCHANGED <<adj, comp>>

Thread(t) ==
  \/ Take(t) \/ LeaveLoop(t)
  \/ ReadU(t) \/ ReadV(t) \/ TestRoot(t) \/ Hook(t)
  \/ TestPath(t) \/ TestLabel(t) \/ ReadPath(t) \/ ReadLabel(t) \/ Shorten(t)

Terminated == phase = "done" /\ UNCHANGED svVars

SVNext == EndHooking \/ EndRound \/ (\E t \in Threads : Thread(t)) \/ Terminated

\* The threads of the team run, and so does the one between the loops.
SVSpec ==
  /\ SVInit /\ [][SVNext]_svVars
  /\ WF_svVars(EndHooking \/ EndRound)
  /\ \A t \in Threads : WF_svVars(Thread(t))

-----------------------------------------------------------------------------
(***************************************************************************)
(* Properties.                                                              *)
(***************************************************************************)

\* Labels are vertices, and the local variables of a thread hold two different
\* labels when it is about to hook.
SVTypeOK ==
  /\ comp \in [Nodes -> Nodes]
  /\ \A t \in Threads : team[t].pc \in {"root", "hook"} => team[t].low < team[t].high

\* Labels lead to smaller labels, whatever hooks have overwritten each other:
\* there is never a cycle for the compression to be caught in.
Forest == \A n \in Nodes : comp[n] <= n

\* A vertex that has stopped being a root never becomes one again, so every
\* round but the last has fewer roots than the one before.
RootsOnlyHooked == [][\A n \in Nodes : comp[n] # n => comp'[n] # n]_svVars

\* A label never leaves the component of its vertex: a set of vertices that no
\* edge leaves or enters keeps its labels to itself, although hooks are decided
\* on labels that other threads have changed since they were read.
Closed(S) == \A u \in Nodes : \A v \in out_neigh(u) : u \in S <=> v \in S
LabelsInside == \A S \in SUBSET Nodes : Closed(S) => \A n \in Nodes : n \in S <=> comp[n] \in S

\* The same without a search: when the rounds end, two vertices have the same
\* label if and only if no set closed under the edges separates them.
SameSide(u, v) == \A S \in SUBSET Nodes : Closed(S) => (u \in S <=> v \in S)
ComponentsExact ==
  phase = "done" => \A u, v \in Nodes : comp[u] = comp[v] <=> SameSide(u, v)

\* Why the labels agree along the edges in the end, although a hook may be
\* overwritten by another thread's: it has set change.  Paths are short when a
\* round begins, and a vertex that has been compressed stays so; as long as the
\* round has hooked nothing, the labels are those it began with, and each edge
\* has been found to agree or is still before its thread.
Flat(n) == comp[comp[n]] = comp[n]

\* Thread t has found that the path of its vertex is not short.
Shortening == {"shorten", "readlabel", "store"}
Compressing(t) == team[t].pc \in {"test", "testlabel"} \cup Shortening

PathsShort ==
  /\ (phase = "hook" /\ ~change) \/ phase = "done" => \A n \in Nodes : Flat(n)
  /\ phase = "compress" =>
       \A n \in Nodes :
         \/ n \in work \/ Flat(n)
         \/ \E t \in Threads : Compressing(t) /\ team[t].u = n

\* The neighbour v of u is still before thread t.
Ahead(t, u, v) ==
  /\ team[t].u = u /\ team[t].pc \in {"next", "readv", "root"}
  /\ v \in team[t].todo \/ (team[t].pc \in {"readv", "root"} /\ team[t].v = v)

Unhooked ==
  (phase = "hook" /\ ~change) =>
    /\ \A t \in Threads :
         LET r == team[t] IN
         /\ r.pc # "hook"
         /\ r.pc = "readv" => r.comp_u = comp[r.u]
         /\ r.pc = "root" => r.high \in {comp[r.u], comp[r.v]}
    /\ \A u \in Nodes \ work : \A v \in out_neigh(u) :
         comp[u] = comp[v] \/ \E t \in Threads : Ahead(t, u, v)

Settled ==
  /\ (phase = "compress" /\ ~change) \/ phase = "done" =>
       /\ \A u \in Nodes : Flat(u) /\ \A v \in out_neigh(u) : comp[u] = comp[v]
       /\ \A t \in Threads : team[t].pc \notin Shortening
  /\ \A t \in Threads : team[t].pc = "barrier" => work = {}

RoundInv == PathsShort /\ Unhooked /\ Settled

\* The rounds end.
Terminates == <>(phase = "done")
=============================================================================
