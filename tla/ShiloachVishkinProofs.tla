----------------------- MODULE ShiloachVishkinProofs -----------------------
(***************************************************************************)
(* Theorems about the connected components of cc_sv.cc, for every graph and *)
(* any number of threads: labels only ever get smaller, stay inside the     *)
(* component of their vertex, and agree along every edge when the rounds    *)
(* end, so they tell the components apart exactly.                          *)
(*                                                                         *)
(* The argument: ForestInv says what the local variables of a thread hold   *)
(* and is inductive with Forest; LocalsInside carries a label from the      *)
(* moment a thread reads it to the moment it hooks it; PathInv says why a   *)
(* thread that shortens a path may store what it read a while ago, although  *)
(* others shorten theirs meanwhile; RoundInv follows what a round has found  *)
(* while it has hooked nothing.                                             *)
(***************************************************************************)
EXTENDS ShiloachVishkin, TLAPS

Labels == {"next", "readv", "root", "hook", "test", "testlabel", "barrier"} \cup Shortening

Record == [pc : Labels, u : Nodes, v : Nodes, todo : SUBSET Nodes,
           comp_u : Nodes, high : Nodes, low : Nodes, label : Nodes]

\* A thread hooks the higher label onto the lower one, and shortens the path of
\* its vertex with a label that is not above it.
Ordered(r) ==
  /\ r.pc \in {"root", "hook"} => r.low < r.high
  /\ r.pc \in {"testlabel", "readlabel", "store"} => r.label <= r.u

ForestInv ==
  /\ adj \in [Nodes -> SUBSET Nodes]
  /\ comp \in [Nodes -> Nodes]
  /\ change \in BOOLEAN
  /\ phase \in {"hook", "compress", "done"}
  /\ work \subseteq Nodes
  /\ team \in [Threads -> Record]
  /\ \A t \in Threads : Ordered(team[t])
  /\ Forest

\* Vertices are numbered, so that labels can be compared.
LEMMA NodesAreNaturals ==
  /\ 0 \in Nodes
  /\ \A n \in Nodes : n \in Nat
BY SVAssumption DEF Nodes

\* A thread outside the loops has nothing in hand.
LEMMA IdleIsRecord == Idle \in Record
BY NodesAreNaturals DEF Idle, Record, Labels, Shortening

\* At first every vertex is its own component.
LEMMA ForestInit == SVInit => ForestInv
<1> SUFFICES ASSUME SVInit PROVE ForestInv
  OBVIOUS
<1>1. team \in [Threads -> Record]
  BY IdleIsRecord DEF SVInit
<1>2. \A t \in Threads : team[t].pc = "next"
  BY DEF SVInit, Idle
<1>3. comp \in [Nodes -> Nodes] /\ Forest
  BY NodesAreNaturals DEF SVInit, Forest
<1>4. adj \in [Nodes -> SUBSET Nodes]
  BY SVAssumption DEF SVInit
<1>5. QED
  BY <1>1, <1>2, <1>3, <1>4 DEF SVInit, ForestInv, Ordered

\* A step of the team leaves all records but that of its thread alone.
LEMMA RecordStep ==
  ASSUME ForestInv, NEW t \in Threads, NEW r \in Record, Becomes(t, r),
         Ordered(r)
  PROVE  /\ team' \in [Threads -> Record]
         /\ team'[t] = r
         /\ \A s \in Threads : s # t => team'[s] = team[s]
         /\ \A s \in Threads : Ordered(team'[s])
BY DEF ForestInv, Becomes

\* The smaller of two labels, computed as in cc_sv.cc:65.
LEMMA LowerLabel ==
  ASSUME NEW a \in Nodes, NEW b \in Nodes
  PROVE  LET high == IF a > b THEN a ELSE b
             low == a + (b - high)
         IN /\ high \in {a, b} /\ low \in {a, b} /\ high \in Nodes /\ low \in Nodes
            /\ a # b => low < high
BY NodesAreNaturals

\* Hooking and compression only ever lower a label.
LEMMA ForestStep == ForestInv /\ [SVNext]_svVars => ForestInv'
<1> SUFFICES ASSUME ForestInv, [SVNext]_svVars PROVE ForestInv'
  OBVIOUS
<1> USE DEF ForestInv
<1>1. CASE UNCHANGED svVars
  BY <1>1 DEF svVars, Forest
<1>2. CASE EndHooking \/ EndRound
  <2>1. team' = [t \in Threads |-> Idle]
    BY <1>2 DEF EndHooking, EndRound
  <2>2. team' \in [Threads -> Record] /\ \A t \in Threads : team'[t].pc = "next"
    BY <2>1, IdleIsRecord DEF Idle
  <2>3. work' \subseteq Nodes /\ comp' = comp /\ adj' = adj /\ change' \in BOOLEAN
        /\ phase' \in {"hook", "compress", "done"}
    BY <1>2 DEF EndHooking, EndRound
  <2> QED
    BY <2>2, <2>3 DEF Forest, Ordered
<1>3. ASSUME NEW t \in Threads, Thread(t) PROVE ForestInv'
  <2> DEFINE r == team[t]
  <2>0. /\ r \in Record /\ comp[r.u] \in Nodes /\ comp[r.v] \in Nodes
        /\ \A n \in Nodes : comp[n] \in Nodes
    BY DEF Record
  <2>1. CASE Take(t)
    <3>1. PICK u \in Nodes :
            Becomes(t, IF phase = "hook" THEN [Idle EXCEPT !.u = u, !.todo = out_neigh(u)]
                       ELSE [Idle EXCEPT !.pc = "test", !.u = u])
      BY <2>1 DEF Take
    <3> DEFINE new == IF phase = "hook" THEN [Idle EXCEPT !.u = u, !.todo = out_neigh(u)]
                      ELSE [Idle EXCEPT !.pc = "test", !.u = u]
    <3>2. new \in Record /\ Ordered(new)
      BY NodesAreNaturals DEF Idle, Record, Labels, Ordered, out_neigh
    <3> HIDE DEF new
    <3>3. team' \in [Threads -> Record]
          /\ \A s \in Threads : Ordered(team'[s])
      BY <3>1, <3>2, RecordStep DEF new
    <3> QED
      BY <2>1, <3>3 DEF Take, Forest
  <2>2. CASE LeaveLoop(t)
    <3> DEFINE new == [Idle EXCEPT !.pc = "barrier"]
    <3>2. new \in Record /\ Ordered(new)
      BY NodesAreNaturals DEF Idle, Record, Labels, Ordered
    <3> HIDE DEF new
    <3>3. team' \in [Threads -> Record]
          /\ \A s \in Threads : Ordered(team'[s])
      BY <2>2, <3>2, RecordStep DEF new, LeaveLoop
    <3> QED
      BY <2>2, <3>3 DEF LeaveLoop, Forest
  <2>3. CASE ReadU(t)
    <3>1. PICK v \in r.todo :
            Becomes(t, [r EXCEPT !.todo = @ \ {v}, !.v = v, !.pc = "readv", !.comp_u = comp[r.u]])
      BY <2>3 DEF ReadU
    <3> DEFINE new == [r EXCEPT !.todo = @ \ {v}, !.v = v, !.pc = "readv", !.comp_u = comp[r.u]]
    <3>2. new \in Record /\ Ordered(new)
      BY <2>0, <3>1 DEF Record, Labels, Ordered
    <3> HIDE DEF new
    <3>3. team' \in [Threads -> Record]
          /\ \A s \in Threads : Ordered(team'[s])
      BY <3>1, <3>2, RecordStep DEF new
    <3> QED
      BY <2>3, <3>3 DEF ReadU, Forest
  <2>4. CASE ReadV(t)
    <3> DEFINE a == r.comp_u
               b == comp[r.v]
               high == IF a > b THEN a ELSE b
               low == a + (b - high)
               new == [r EXCEPT !.pc = IF a = b THEN "next" ELSE "root", !.high = high, !.low = low]
    <3>1. a \in Nodes /\ b \in Nodes
      BY <2>0 DEF Record
    <3>2. high \in Nodes /\ low \in Nodes /\ (a # b => low < high)
      BY <3>1, LowerLabel
    <3> HIDE DEF high, low, a, b
    <3>3. new \in Record /\ Ordered(new)
      BY <2>0, <3>1, <3>2 DEF Record, Labels, Ordered
    <3>4. Becomes(t, new)
      BY <2>4 DEF ReadV, high, low, a, b
    <3> HIDE DEF new
    <3>5. team' \in [Threads -> Record]
          /\ \A s \in Threads : Ordered(team'[s])
      BY <3>3, <3>4, RecordStep
    <3> QED
      BY <2>4, <3>5 DEF ReadV, Forest
  <2>5. CASE TestRoot(t)
    <3>1. PICK label \in {"hook", "next"} : Becomes(t, [r EXCEPT !.pc = label])
      BY <2>5 DEF TestRoot
    <3> DEFINE new == [r EXCEPT !.pc = label]
    <3>2. r.low < r.high
      BY <2>5 DEF TestRoot, At, Ordered
    <3>3. new \in Record /\ Ordered(new)
      BY <2>0, <3>2 DEF Record, Labels, Ordered
    <3> HIDE DEF new
    <3>5. team' \in [Threads -> Record]
          /\ \A s \in Threads : Ordered(team'[s])
      BY <3>1, <3>3, RecordStep DEF new
    <3> QED
      BY <2>5, <3>5 DEF TestRoot, Forest
  <2>6. CASE Hook(t)
    <3> DEFINE new == [r EXCEPT !.pc = "next"]
    <3>1. new \in Record /\ Ordered(new)
      BY <2>0 DEF Record, Labels, Ordered
    <3> HIDE DEF new
    <3>2. team' \in [Threads -> Record]
          /\ \A s \in Threads : Ordered(team'[s])
      BY <2>6, <3>1, RecordStep DEF new, Hook
    <3>3. r.low < r.high /\ r.low \in Nodes /\ r.high \in Nodes
      BY <2>0, <2>6 DEF Hook, At, Record, Ordered
    <3>4. comp' \in [Nodes -> Nodes] /\ \A n \in Nodes : comp'[n] <= n
      BY <2>6, <3>3, NodesAreNaturals DEF Hook, Forest
    <3> QED
      BY <2>6, <3>2, <3>4 DEF Hook, Forest
  <2>7. CASE TestPath(t)
    <3> DEFINE new == [r EXCEPT !.pc = "testlabel", !.label = comp[r.u]]
    <3>1. comp[r.u] <= r.u
      BY <2>0 DEF Record, Forest
    <3>2. new \in Record /\ Ordered(new)
      BY <2>0, <3>1 DEF Record, Labels, Ordered
    <3> HIDE DEF new
    <3>3. team' \in [Threads -> Record] /\ \A s \in Threads : Ordered(team'[s])
      BY <2>7, <3>2, RecordStep DEF new, TestPath
    <3> QED
      BY <2>7, <3>3 DEF TestPath, Forest
  <2>8. CASE TestLabel(t)
    <3>1. PICK pc \in {"shorten", "next"} : Becomes(t, [r EXCEPT !.pc = pc])
      BY <2>8 DEF TestLabel
    <3> DEFINE new == [r EXCEPT !.pc = pc]
    <3>2. new \in Record /\ Ordered(new)
      BY <2>0 DEF Record, Labels, Shortening, Ordered
    <3> HIDE DEF new
    <3>3. team' \in [Threads -> Record] /\ \A s \in Threads : Ordered(team'[s])
      BY <3>1, <3>2, RecordStep DEF new
    <3> QED
      BY <2>8, <3>3 DEF TestLabel, Forest
  <2>9. CASE ReadPath(t)
    <3> DEFINE new == [r EXCEPT !.pc = "readlabel", !.label = comp[r.u]]
    <3>1. comp[r.u] <= r.u
      BY <2>0 DEF Record, Forest
    <3>2. new \in Record /\ Ordered(new)
      BY <2>0, <3>1 DEF Record, Labels, Shortening, Ordered
    <3> HIDE DEF new
    <3>3. team' \in [Threads -> Record] /\ \A s \in Threads : Ordered(team'[s])
      BY <2>9, <3>2, RecordStep DEF new, ReadPath
    <3> QED
      BY <2>9, <3>3 DEF ReadPath, Forest
  <2>10. CASE ReadLabel(t)
    <3> DEFINE new == [r EXCEPT !.pc = "store", !.label = comp[r.label]]
    <3>1. r.label \in Nodes /\ r.u \in Nodes /\ comp[r.label] \in Nodes
          /\ comp[r.label] <= r.label /\ r.label <= r.u
      BY <2>0, <2>10 DEF Record, Forest, ReadLabel, At, Ordered
    <3>2. comp[r.label] <= r.u
      BY <3>1, NodesAreNaturals
    <3>3. new \in Record /\ Ordered(new)
      BY <2>0, <3>1, <3>2 DEF Record, Labels, Shortening, Ordered
    <3> HIDE DEF new
    <3>4. team' \in [Threads -> Record] /\ \A s \in Threads : Ordered(team'[s])
      BY <2>10, <3>3, RecordStep DEF new, ReadLabel
    <3> QED
      BY <2>10, <3>4 DEF ReadLabel, Forest
  <2>11. CASE Shorten(t)
    <3> DEFINE new == [r EXCEPT !.pc = "test"]
    <3>1. new \in Record /\ Ordered(new)
      BY <2>0 DEF Record, Labels, Ordered
    <3> HIDE DEF new
    <3>2. team' \in [Threads -> Record] /\ \A s \in Threads : Ordered(team'[s])
      BY <2>11, <3>1, RecordStep DEF new, Shorten
    <3>3. r.u \in Nodes /\ r.label \in Nodes /\ r.label <= r.u
      BY <2>0, <2>11 DEF Record, Shorten, At, Ordered
    <3>4. comp' \in [Nodes -> Nodes] /\ \A n \in Nodes : comp'[n] <= n
      BY <2>11, <3>3 DEF Shorten, Forest
    <3> QED
      BY <2>11, <3>2, <3>4 DEF Shorten, Forest
  <2>12. QED
    BY <1>3, <2>1, <2>2, <2>3, <2>4, <2>5, <2>6, <2>7, <2>8, <2>9, <2>10, <2>11 DEF Thread
<1>4. CASE Terminated
  BY <1>1, <1>4 DEF Terminated
<1>5. QED
  BY <1>1, <1>2, <1>3, <1>4 DEF SVNext

\* Labels are never above their vertices.
LEMMA ForestInvariant == SVSpec => []ForestInv
BY ForestInit, ForestStep, PTL DEF SVSpec

\* The local variables of a thread are labels, and the higher one is the higher
\* one, whatever the other threads have made of comp since it was read.
THEOREM SVTypeCorrect == SVSpec => []SVTypeOK
<1>1. ForestInv => SVTypeOK
  BY DEF ForestInv, SVTypeOK, Ordered
<1>2. QED
  BY <1>1, ForestInvariant, PTL

\* No interleaving of hooks and compressions ever makes a cycle of labels.
THEOREM ForestAlways == SVSpec => []Forest
<1>1. ForestInv => Forest
  BY DEF ForestInv
<1>2. QED
  BY <1>1, ForestInvariant, PTL

-----------------------------------------------------------------------------
(***************************************************************************)
(* The paths being shortened.                                               *)
(***************************************************************************)
\* In the compressing loop a vertex is the own of one thread: nobody else changes
\* its label while the thread reads and stores it, but the label of its label may
\* change at any time.  What is going to be stored is below the vertex already.
PathInv ==
  \A t \in Threads : Compressing(t) =>
    /\ phase = "compress" /\ team[t].u \in Nodes /\ team[t].u \notin work
    /\ \A s \in Threads : s # t /\ Compressing(s) => team[s].u # team[t].u
    /\ team[t].pc \in {"testlabel", "readlabel"} => team[t].label = comp[team[t].u]
    /\ team[t].pc \in Shortening => comp[team[t].u] # team[t].u
    /\ team[t].pc = "store" => team[t].label < team[t].u

\* The record of a compressing thread, as far as the others do not touch it.
PathRecord(r, label) ==
  /\ r.pc \in {"testlabel", "readlabel"} => r.label = label
  /\ r.pc \in Shortening => label # r.u
  /\ r.pc = "store" => r.label < r.u

\* No thread is in the compressing loop at first.
LEMMA PathInit == SVInit => PathInv
BY DEF SVInit, PathInv, Compressing, Shortening, Idle

\* A step of a thread within the compressing loop that changes at most the label
\* of its own vertex.
LEMMA PathInLoop ==
  ASSUME ForestInv, PathInv, NEW t \in Threads, Compressing(t),
         phase' = phase, work' = work,
         \A s \in Threads : s # t => team'[s] = team[s],
         team'[t].u = team[t].u,
         \A n \in Nodes : n # team[t].u => comp'[n] = comp[n],
         PathRecord(team'[t], comp'[team[t].u])
  PROVE  PathInv'
<1>1. ASSUME NEW s \in Threads, s # t, Compressing(s)'
      PROVE  Compressing(s) /\ team'[s] = team[s] /\ team[s].u # team[t].u
             /\ comp'[team[s].u] = comp[team[s].u]
  BY <1>1 DEF PathInv, Compressing
<1>2. ASSUME NEW s \in Threads, Compressing(s)'
      PROVE  /\ phase' = "compress" /\ team'[s].u \in Nodes /\ team'[s].u \notin work'
             /\ PathRecord(team'[s], comp'[team'[s].u])
             /\ \A w \in Threads : w # s /\ Compressing(w)' => team'[w].u # team'[s].u
  <2>1. CASE s = t
    BY <1>1, <2>1 DEF PathInv
  <2>2. CASE s # t
    BY <1>1, <1>2, <2>2 DEF PathInv, PathRecord
  <2> QED
    BY <2>1, <2>2
<1> QED
  BY <1>2 DEF PathInv, PathRecord, Compressing

\* A step of a thread that is not in the compressing loop after it.
LEMMA PathOutside ==
  ASSUME ForestInv, PathInv, NEW t \in Threads, ~Compressing(t)',
         phase' = phase, work' = work,
         \A s \in Threads : s # t => team'[s] = team[s],
         phase = "compress" => comp' = comp
  PROVE  PathInv'
BY DEF PathInv, Compressing

\* Every step keeps the paths apart.
LEMMA PathStep == ForestInv /\ PathInv /\ [SVNext]_svVars => PathInv'
<1> SUFFICES ASSUME ForestInv, PathInv, [SVNext]_svVars PROVE PathInv'
  OBVIOUS
<1>1. CASE UNCHANGED svVars
  BY <1>1 DEF svVars, PathInv, Compressing
<1>2. CASE EndHooking \/ EndRound
  BY <1>2 DEF EndHooking, EndRound, PathInv, Compressing, Shortening, Idle
<1>3. ASSUME NEW t \in Threads, Thread(t) PROVE PathInv'
  <2> DEFINE r == team[t]
  <2>0. /\ r \in Record /\ r.u \in Nodes /\ r.label \in Nodes
        /\ comp \in [Nodes -> Nodes] /\ team \in [Threads -> Record]
        /\ \A n \in Nodes : comp[n] \in Nodes /\ comp[n] <= n
        /\ phase \in {"hook", "compress", "done"}
    BY DEF ForestInv, Record, Forest
  <2>t. ASSUME NEW new, Becomes(t, new)
        PROVE  team'[t] = new /\ \A s \in Threads : s # t => team'[s] = team[s]
    BY <2>0, <2>t DEF Becomes
  <2>1. CASE Take(t)
    <3>1. PICK u \in work :
            /\ work' = work \ {u}
            /\ Becomes(t, IF phase = "hook" THEN [Idle EXCEPT !.u = u, !.todo = out_neigh(u)]
                          ELSE [Idle EXCEPT !.pc = "test", !.u = u])
      BY <2>1 DEF Take
    <3>2. /\ comp' = comp /\ phase' = phase /\ phase \in {"hook", "compress"} /\ u \in Nodes
      BY <2>0, <2>1 DEF Take, ForestInv
    <3>3. CASE phase = "hook"
      <4> DEFINE new == [Idle EXCEPT !.u = u, !.todo = out_neigh(u)]
      <4>1. Becomes(t, new) /\ new.pc = "next"
        BY <3>1, <3>3 DEF Idle
      <4> HIDE DEF new
      <4>2. team'[t].pc = "next" /\ \A s \in Threads : s # t => team'[s] = team[s]
        BY <4>1, <2>t
      <4> QED
        BY <3>1, <3>2, <3>3, <4>2 DEF PathInv, Compressing, Shortening
    <3>4. CASE phase = "compress"
      <4> DEFINE new == [Idle EXCEPT !.pc = "test", !.u = u]
      <4>1. Becomes(t, new) /\ new.pc = "test" /\ new.u = u
        BY <3>1, <3>4 DEF Idle
      <4> HIDE DEF new
      <4>2. /\ team'[t].pc = "test" /\ team'[t].u = u
            /\ \A s \in Threads : s # t => team'[s] = team[s]
        BY <4>1, <2>t
      <4>3. ASSUME NEW s \in Threads, s # t, Compressing(s)'
            PROVE  Compressing(s) /\ team[s].u # u
        BY <3>1, <4>2, <4>3 DEF PathInv, Compressing
      <4>4. ASSUME NEW s \in Threads, Compressing(s)'
            PROVE  /\ phase' = "compress" /\ team'[s].u \in Nodes /\ team'[s].u \notin work'
                   /\ PathRecord(team'[s], comp'[team'[s].u])
                   /\ \A w \in Threads : w # s /\ Compressing(w)' => team'[w].u # team'[s].u
        <5>1. CASE s = t
          BY <3>1, <3>2, <3>4, <4>2, <4>3, <5>1 DEF PathRecord, Shortening
        <5>2. CASE s # t
          BY <3>1, <3>2, <4>2, <4>3, <4>4, <5>2 DEF PathInv, PathRecord
        <5> QED
          BY <5>1, <5>2
      <4> QED
        BY <4>4 DEF PathInv, PathRecord, Compressing
    <3> QED
      BY <3>2, <3>3, <3>4
  <2>2. CASE LeaveLoop(t)
    <3>1. Becomes(t, [Idle EXCEPT !.pc = "barrier"])
      BY <2>2 DEF LeaveLoop
    <3>2. team'[t].pc = "barrier" /\ \A s \in Threads : s # t => team'[s] = team[s]
      BY <3>1, <2>t DEF Idle
    <3>3. ~Compressing(t)'
      BY <3>2 DEF Compressing, Shortening
    <3> QED
      BY <2>2, <3>2, <3>3, PathOutside DEF LeaveLoop
  <2>3. CASE ReadU(t) \/ ReadV(t) \/ TestRoot(t) \/ Hook(t)
    <3>1. phase = "hook" /\ phase' = phase /\ work' = work
      BY <2>3 DEF ReadU, ReadV, TestRoot, Hook, At
    <3>2. PICK new : Becomes(t, new) /\ new.pc \in {"next", "readv", "root", "hook"}
      <4>1. CASE ReadU(t)
        <5>1. PICK v \in r.todo :
                Becomes(t, [r EXCEPT !.todo = @ \ {v}, !.v = v, !.pc = "readv",
                                     !.comp_u = comp[r.u]])
          BY <4>1 DEF ReadU
        <5> DEFINE next == [r EXCEPT !.todo = @ \ {v}, !.v = v, !.pc = "readv",
                                     !.comp_u = comp[r.u]]
        <5>2. next.pc = "readv"
          BY <2>0 DEF Record
        <5> QED
          BY <5>1, <5>2
      <4>2. CASE ReadV(t)
        <5>1. PICK high, low :
                Becomes(t, [r EXCEPT !.pc = IF r.comp_u = comp[r.v] THEN "next" ELSE "root",
                                     !.high = high, !.low = low])
          BY <4>2 DEF ReadV
        <5> DEFINE next == [r EXCEPT !.pc = IF r.comp_u = comp[r.v] THEN "next" ELSE "root",
                                     !.high = high, !.low = low]
        <5>2. next.pc \in {"next", "root"} /\ Becomes(t, next)
          BY <2>0, <5>1 DEF Record
        <5> HIDE DEF next
        <5> QED
          BY <5>2
      <4>3. CASE TestRoot(t)
        BY <2>0, <4>3 DEF TestRoot, Record
      <4>4. CASE Hook(t)
        BY <2>0, <4>4 DEF Hook, Record
      <4> QED
        BY <2>3, <4>1, <4>2, <4>3, <4>4
    <3>3. team'[t] = new /\ \A s \in Threads : s # t => team'[s] = team[s]
      BY <3>2, <2>t
    <3>4. ~Compressing(t)'
      BY <3>2, <3>3 DEF Compressing, Shortening
    <3> QED
      BY <3>1, <3>3, <3>4, PathOutside
  <2>4. CASE TestPath(t)
    <3> DEFINE new == [r EXCEPT !.pc = "testlabel", !.label = comp[r.u]]
    <3>1. new.pc = "testlabel" /\ new.label = comp[r.u] /\ new.u = r.u
      BY <2>0 DEF Record
    <3>2. Becomes(t, new) /\ r.pc = "test" /\ comp' = comp /\ phase' = phase /\ work' = work
      BY <2>4 DEF TestPath, At
    <3> HIDE DEF new
    <3>3. team'[t] = new /\ \A s \in Threads : s # t => team'[s] = team[s]
      BY <3>2, <2>t
    <3>4. PathRecord(team'[t], comp'[r.u])
      BY <3>1, <3>2, <3>3 DEF PathRecord, Shortening
    <3>5. Compressing(t)
      BY <3>2 DEF Compressing
    <3> QED
      BY <3>1, <3>2, <3>3, <3>4, <3>5, PathInLoop
  <2>5. CASE TestLabel(t)
    <3> DEFINE new == [r EXCEPT !.pc = IF r.label # comp[r.label] THEN "shorten" ELSE "next"]
    <3>1. /\ new.pc = (IF r.label # comp[r.label] THEN "shorten" ELSE "next")
          /\ new.label = r.label /\ new.u = r.u
      BY <2>0 DEF Record
    <3>2. Becomes(t, new) /\ r.pc = "testlabel" /\ comp' = comp /\ phase' = phase /\ work' = work
      BY <2>5 DEF TestLabel, At
    <3> HIDE DEF new
    <3>3. team'[t] = new /\ \A s \in Threads : s # t => team'[s] = team[s]
      BY <3>2, <2>t
    <3>5. Compressing(t)
      BY <3>2 DEF Compressing
    <3>6. r.label = comp[r.u]
      BY <3>2, <3>5 DEF PathInv
    <3>4. PathRecord(team'[t], comp'[r.u])
      BY <3>1, <3>2, <3>3, <3>6 DEF PathRecord, Shortening
    <3> QED
      BY <3>1, <3>2, <3>3, <3>4, <3>5, PathInLoop
  <2>6. CASE ReadPath(t)
    <3> DEFINE new == [r EXCEPT !.pc = "readlabel", !.label = comp[r.u]]
    <3>1. new.pc = "readlabel" /\ new.label = comp[r.u] /\ new.u = r.u
      BY <2>0 DEF Record
    <3>2. Becomes(t, new) /\ r.pc = "shorten" /\ comp' = comp /\ phase' = phase /\ work' = work
      BY <2>6 DEF ReadPath, At
    <3> HIDE DEF new
    <3>3. team'[t] = new /\ \A s \in Threads : s # t => team'[s] = team[s]
      BY <3>2, <2>t
    <3>5. Compressing(t)
      BY <3>2 DEF Compressing, Shortening
    <3>6. comp[r.u] # r.u
      BY <3>2, <3>5 DEF PathInv, Shortening
    <3>4. PathRecord(team'[t], comp'[r.u])
      BY <3>1, <3>2, <3>3, <3>6 DEF PathRecord
    <3> QED
      BY <3>1, <3>2, <3>3, <3>4, <3>5, PathInLoop
  <2>7. CASE ReadLabel(t)
    <3> DEFINE new == [r EXCEPT !.pc = "store", !.label = comp[r.label]]
    <3>1. new.pc = "store" /\ new.label = comp[r.label] /\ new.u = r.u
      BY <2>0 DEF Record
    <3>2. Becomes(t, new) /\ r.pc = "readlabel" /\ comp' = comp /\ phase' = phase /\ work' = work
      BY <2>7 DEF ReadLabel, At
    <3> HIDE DEF new
    <3>3. team'[t] = new /\ \A s \in Threads : s # t => team'[s] = team[s]
      BY <3>2, <2>t
    <3>5. Compressing(t)
      BY <3>2 DEF Compressing, Shortening
    <3>6. comp[r.u] # r.u /\ r.label = comp[r.u]
      BY <3>2, <3>5 DEF PathInv, Shortening
    <3>7. comp[r.label] < r.u
      BY <2>0, <3>6, NodesAreNaturals
    <3>4. PathRecord(team'[t], comp'[r.u])
      BY <3>1, <3>2, <3>3, <3>6, <3>7 DEF PathRecord
    <3> QED
      BY <3>1, <3>2, <3>3, <3>4, <3>5, PathInLoop
  <2>8. CASE Shorten(t)
    <3> DEFINE new == [r EXCEPT !.pc = "test"]
    <3>1. new.pc = "test" /\ new.u = r.u
      BY <2>0 DEF Record
    <3>2. /\ Becomes(t, new) /\ r.pc = "store" /\ phase' = phase /\ work' = work
          /\ comp' = [comp EXCEPT ![r.u] = r.label]
      BY <2>8 DEF Shorten, At
    <3> HIDE DEF new
    <3>3. team'[t] = new /\ \A s \in Threads : s # t => team'[s] = team[s]
      BY <3>2, <2>t
    <3>4. PathRecord(team'[t], comp'[r.u])
      BY <3>1, <3>3 DEF PathRecord, Shortening
    <3>5. Compressing(t)
      BY <3>2 DEF Compressing, Shortening
    <3>6. \A n \in Nodes : n # r.u => comp'[n] = comp[n]
      BY <2>0, <3>2
    <3> QED
      BY <3>1, <3>2, <3>3, <3>4, <3>5, <3>6, PathInLoop
  <2>9. QED
    BY <1>3, <2>1, <2>2, <2>3, <2>4, <2>5, <2>6, <2>7, <2>8 DEF Thread
<1>4. CASE Terminated
  BY <1>1, <1>4 DEF Terminated
<1>5. QED
  BY <1>1, <1>2, <1>3, <1>4 DEF SVNext

\* While the threads shorten the paths, each vertex is the own of one of them.
LEMMA PathInvariant == SVSpec => []PathInv
BY PathInit, PathStep, ForestInvariant, PTL DEF SVSpec

\* A vertex that is no root has a smaller label, and only gets smaller ones; a
\* label is stored in a root by a hook alone.  So the roots only get fewer.
THEOREM RootsOnlyHookedAlways == SVSpec => RootsOnlyHooked
<1>1. ForestInv /\ PathInv /\ [SVNext]_svVars =>
        [\A n \in Nodes : comp[n] # n => comp'[n] # n]_svVars
  <2> SUFFICES ASSUME ForestInv, PathInv, SVNext, NEW n \in Nodes, comp[n] # n
               PROVE  comp'[n] # n
    OBVIOUS
  <2>1. comp[n] \in Nodes /\ comp[n] <= n /\ comp \in [Nodes -> Nodes]
    BY DEF ForestInv, Forest
  <2>2. ASSUME NEW t \in Threads, Hook(t) PROVE comp'[n] # n
    <3>1. team[t].low < team[t].high /\ team[t].low \in Nodes /\ team[t].high \in Nodes
      BY <2>2 DEF Hook, At, ForestInv, Record, Ordered
    <3> QED
      BY <2>1, <2>2, <3>1, NodesAreNaturals DEF Hook
  <2>3. ASSUME NEW t \in Threads, Shorten(t) PROVE comp'[n] # n
    <3>1. team[t].label < team[t].u
      BY <2>3 DEF PathInv, Compressing, Shortening, Shorten, At
    <3>2. team[t].label \in Nodes /\ team[t].u \in Nodes
      BY DEF ForestInv, Record
    <3> QED
      BY <2>1, <2>3, <3>1, <3>2, NodesAreNaturals DEF Shorten
  <2>4. CASE UNCHANGED comp
    BY <2>4
  <2>5. QED
    BY <2>2, <2>3, <2>4
       DEF SVNext, Thread, EndHooking, EndRound, Terminated, svVars, Take, LeaveLoop,
           ReadU, ReadV, TestRoot, TestPath, TestLabel, ReadPath, ReadLabel
<1>2. QED
  BY <1>1, ForestInvariant, PathInvariant, PTL DEF SVSpec, RootsOnlyHooked

-----------------------------------------------------------------------------
(***************************************************************************)
(* Labels stay inside.                                                      *)
(***************************************************************************)

\* What a thread has read is on the same side of S as the vertex it comes from.
RecordInside(S, r) ==
  /\ r.todo \subseteq out_neigh(r.u)
  /\ r.pc = "readv" => r.v \in out_neigh(r.u) /\ (r.comp_u \in S <=> r.u \in S)
  /\ r.pc \in {"root", "hook"} => (r.high \in S <=> r.low \in S)
  /\ r.pc \in {"testlabel", "readlabel", "store"} => (r.label \in S <=> r.u \in S)

Inside(S) ==
  /\ \A n \in Nodes : n \in S <=> comp[n] \in S
  /\ \A t \in Threads : RecordInside(S, team[t])

InsideInv == \A S \in SUBSET Nodes : Closed(S) => Inside(S)

\* A thread with nothing in hand crosses no boundary.
LEMMA IdleInside == ASSUME NEW S PROVE RecordInside(S, Idle)
BY DEF RecordInside, Idle

\* At first every label is in the component of its vertex.
LEMMA InsideInit == SVInit => InsideInv
BY IdleInside DEF SVInit, InsideInv, Inside

\* Every step takes labels from the component it writes to.
LEMMA InsideStep ==
  ASSUME ForestInv, [SVNext]_svVars, NEW S \in SUBSET Nodes, Closed(S), Inside(S)
  PROVE  Inside(S)'
<1>0. adj' = adj
  BY DEF svVars, SVNext, Thread, EndHooking, EndRound, Terminated, Take, LeaveLoop, ReadU, ReadV,
         TestRoot, Hook, TestPath, TestLabel, ReadPath, ReadLabel, Shorten
<1>1. CASE UNCHANGED svVars
  BY <1>1 DEF svVars, Inside, RecordInside, out_neigh
<1>2. CASE EndHooking \/ EndRound
  BY <1>2, <1>0, IdleInside DEF EndHooking, EndRound, Inside, RecordInside, Idle, out_neigh
<1>3. ASSUME NEW t \in Threads, Thread(t) PROVE Inside(S)'
  <2> DEFINE r == team[t]
  <2>0. /\ r \in Record /\ comp[r.u] \in Nodes /\ comp[r.v] \in Nodes
        /\ \A n \in Nodes : comp[n] \in Nodes
        /\ RecordInside(S, r)
        /\ team \in [Threads -> Record] /\ comp \in [Nodes -> Nodes]
    BY DEF Record, ForestInv, Inside
  <2>a. ASSUME NEW new, Becomes(t, new), RecordInside(S, new)
        PROVE  \A s \in Threads : RecordInside(S, team[s])'
    BY <1>0, <2>0, <2>a DEF Becomes, Inside, RecordInside, out_neigh
  <2>1. CASE Take(t)
    <3>1. PICK u \in Nodes :
            Becomes(t, IF phase = "hook" THEN [Idle EXCEPT !.u = u, !.todo = out_neigh(u)]
                       ELSE [Idle EXCEPT !.pc = "test", !.u = u])
      BY <2>1 DEF Take, ForestInv
    <3> DEFINE new == IF phase = "hook" THEN [Idle EXCEPT !.u = u, !.todo = out_neigh(u)]
                      ELSE [Idle EXCEPT !.pc = "test", !.u = u]
    <3>2. RecordInside(S, new)
      BY DEF Idle, RecordInside
    <3> HIDE DEF new
    <3>3. \A s \in Threads : RecordInside(S, team[s])'
      BY <3>1, <3>2, <2>a DEF new
    <3> QED
      BY <2>1, <3>3 DEF Take, Inside
  <2>2. CASE LeaveLoop(t)
    <3> DEFINE new == [Idle EXCEPT !.pc = "barrier"]
    <3>2. RecordInside(S, new)
      BY DEF Idle, RecordInside
    <3> HIDE DEF new
    <3>3. \A s \in Threads : RecordInside(S, team[s])'
      BY <2>2, <3>2, <2>a DEF new, LeaveLoop
    <3> QED
      BY <2>2, <3>3 DEF LeaveLoop, Inside
  <2>3. CASE ReadU(t)
    <3>1. PICK v \in r.todo :
            Becomes(t, [r EXCEPT !.todo = @ \ {v}, !.v = v, !.pc = "readv", !.comp_u = comp[r.u]])
      BY <2>3 DEF ReadU
    <3> DEFINE new == [r EXCEPT !.todo = @ \ {v}, !.v = v, !.pc = "readv", !.comp_u = comp[r.u]]
    <3>2. r.u \in Nodes /\ (r.u \in S <=> comp[r.u] \in S)
      BY <2>0 DEF Inside, Record
    <3>3. new.u = r.u /\ new.todo = r.todo \ {v} /\ new.v = v /\ new.pc = "readv"
          /\ new.comp_u = comp[r.u]
      BY <2>0 DEF Record
    <3>4. RecordInside(S, new)
      BY <2>0, <3>1, <3>2, <3>3 DEF RecordInside
    <3> HIDE DEF new
    <3>5. \A s \in Threads : RecordInside(S, team[s])'
      BY <3>1, <3>4, <2>a DEF new
    <3> QED
      BY <2>3, <3>5 DEF ReadU, Inside
  <2>4. CASE ReadV(t)
    <3> DEFINE a == r.comp_u
               b == comp[r.v]
               high == IF a > b THEN a ELSE b
               low == a + (b - high)
               new == [r EXCEPT !.pc = IF a = b THEN "next" ELSE "root", !.high = high, !.low = low]
    <3>1. a \in Nodes /\ b \in Nodes /\ r.u \in Nodes /\ r.v \in Nodes
      BY <2>0 DEF Record
    <3>2. high \in {a, b} /\ low \in {a, b}
      BY <3>1, LowerLabel
    <3>3. a \in S <=> b \in S
      <4>1. r.v \in out_neigh(r.u) /\ (a \in S <=> r.u \in S)
        BY <2>0, <2>4 DEF RecordInside, ReadV, At
      <4>2. r.u \in S <=> r.v \in S
        BY <3>1, <4>1 DEF Closed
      <4> QED
        BY <3>1, <4>1, <4>2 DEF Inside
    <3>4. Becomes(t, new)
      BY <2>4 DEF ReadV
    <3> HIDE DEF high, low, a, b
    <3>5. /\ new.u = r.u /\ new.todo = r.todo /\ new.pc \in {"next", "root"}
          /\ new.high = high /\ new.low = low
      BY <2>0 DEF Record
    <3>6. RecordInside(S, new)
      BY <2>0, <3>2, <3>3, <3>5 DEF RecordInside
    <3> HIDE DEF new
    <3>7. \A s \in Threads : RecordInside(S, team[s])'
      BY <3>4, <3>6, <2>a
    <3> QED
      BY <2>4, <3>7 DEF ReadV, Inside
  <2>5. CASE TestRoot(t)
    <3>1. PICK label \in {"hook", "next"} : Becomes(t, [r EXCEPT !.pc = label])
      BY <2>5 DEF TestRoot
    <3> DEFINE new == [r EXCEPT !.pc = label]
    <3>2. RecordInside(S, new)
      BY <2>0, <2>5 DEF Record, RecordInside, TestRoot, At
    <3> HIDE DEF new
    <3>3. \A s \in Threads : RecordInside(S, team[s])'
      BY <3>1, <3>2, <2>a DEF new
    <3> QED
      BY <2>5, <3>3 DEF TestRoot, Inside
  <2>6. CASE Hook(t)
    <3> DEFINE new == [r EXCEPT !.pc = "next"]
    <3>1. RecordInside(S, new)
      BY <2>0 DEF Record, RecordInside
    <3> HIDE DEF new
    <3>2. \A s \in Threads : RecordInside(S, team[s])'
      BY <2>6, <3>1, <2>a DEF new, Hook
    <3>3. (r.high \in S <=> r.low \in S) /\ r.high \in Nodes /\ r.low \in Nodes
      BY <2>0, <2>6 DEF RecordInside, Record, Hook, At
    <3>4. \A n \in Nodes : n \in S <=> comp'[n] \in S
      BY <2>0, <2>6, <3>3 DEF Hook, Inside
    <3> QED
      BY <3>2, <3>4 DEF Inside
  <2>7. CASE TestPath(t)
    <3> DEFINE new == [r EXCEPT !.pc = "testlabel", !.label = comp[r.u]]
    <3>1. new.u = r.u /\ new.todo = r.todo /\ new.pc = "testlabel" /\ new.label = comp[r.u]
          /\ r.u \in Nodes
      BY <2>0 DEF Record
    <3>2. RecordInside(S, new)
      BY <2>0, <3>1 DEF RecordInside, Inside
    <3> HIDE DEF new
    <3>3. \A s \in Threads : RecordInside(S, team[s])'
      BY <2>7, <3>2, <2>a DEF new, TestPath
    <3> QED
      BY <2>7, <3>3 DEF TestPath, Inside
  <2>8. CASE TestLabel(t)
    <3>1. PICK pc \in {"shorten", "next"} : Becomes(t, [r EXCEPT !.pc = pc])
      BY <2>8 DEF TestLabel
    <3> DEFINE new == [r EXCEPT !.pc = pc]
    <3>2. RecordInside(S, new)
      BY <2>0 DEF Record, RecordInside
    <3> HIDE DEF new
    <3>3. \A s \in Threads : RecordInside(S, team[s])'
      BY <3>1, <3>2, <2>a DEF new
    <3> QED
      BY <2>8, <3>3 DEF TestLabel, Inside
  <2>9. CASE ReadPath(t)
    <3> DEFINE new == [r EXCEPT !.pc = "readlabel", !.label = comp[r.u]]
    <3>1. new.u = r.u /\ new.todo = r.todo /\ new.pc = "readlabel" /\ new.label = comp[r.u]
          /\ r.u \in Nodes
      BY <2>0 DEF Record
    <3>2. RecordInside(S, new)
      BY <2>0, <3>1 DEF RecordInside, Inside
    <3> HIDE DEF new
    <3>3. \A s \in Threads : RecordInside(S, team[s])'
      BY <2>9, <3>2, <2>a DEF new, ReadPath
    <3> QED
      BY <2>9, <3>3 DEF ReadPath, Inside
  <2>10. CASE ReadLabel(t)
    <3> DEFINE new == [r EXCEPT !.pc = "store", !.label = comp[r.label]]
    <3>1. new.u = r.u /\ new.todo = r.todo /\ new.pc = "store" /\ new.label = comp[r.label]
          /\ r.label \in Nodes
      BY <2>0 DEF Record
    <3>2. r.label \in S <=> r.u \in S
      BY <2>0, <2>10 DEF RecordInside, ReadLabel, At
    <3>3. RecordInside(S, new)
      BY <2>0, <3>1, <3>2 DEF RecordInside, Inside
    <3> HIDE DEF new
    <3>4. \A s \in Threads : RecordInside(S, team[s])'
      BY <2>10, <3>3, <2>a DEF new, ReadLabel
    <3> QED
      BY <2>10, <3>4 DEF ReadLabel, Inside
  <2>11. CASE Shorten(t)
    <3> DEFINE new == [r EXCEPT !.pc = "test"]
    <3>1. RecordInside(S, new)
      BY <2>0 DEF Record, RecordInside
    <3> HIDE DEF new
    <3>2. \A s \in Threads : RecordInside(S, team[s])'
      BY <2>11, <3>1, <2>a DEF new, Shorten
    <3>3. r.u \in Nodes /\ (r.label \in S <=> r.u \in S)
      BY <2>0, <2>11 DEF RecordInside, Record, Shorten, At
    <3>4. \A n \in Nodes : n \in S <=> comp'[n] \in S
      BY <2>0, <2>11, <3>3 DEF Shorten, Inside
    <3> QED
      BY <3>2, <3>4 DEF Inside
  <2>12. QED
    BY <1>3, <2>1, <2>2, <2>3, <2>4, <2>5, <2>6, <2>7, <2>8, <2>9, <2>10, <2>11 DEF Thread
<1>4. CASE Terminated
  BY <1>1, <1>4 DEF Terminated
<1>5. QED
  BY <1>1, <1>2, <1>3, <1>4 DEF SVNext

\* A label never leaves the component of its vertex, although a thread may hook
\* a label that is no root any more onto one that others have changed.
THEOREM LabelsInsideAlways == SVSpec => []LabelsInside
<1>1. ForestInv /\ InsideInv /\ [SVNext]_svVars => InsideInv'
  <2> SUFFICES ASSUME ForestInv, InsideInv, [SVNext]_svVars, NEW S \in SUBSET Nodes, Closed(S)'
               PROVE  Inside(S)'
    BY DEF InsideInv
  <2>1. adj' = adj
    BY DEF svVars, SVNext, Thread, EndHooking, EndRound, Terminated, Take, LeaveLoop, ReadU, ReadV,
           TestRoot, Hook, TestPath, TestLabel, ReadPath, ReadLabel, Shorten
  <2>2. Closed(S)
    BY <2>1 DEF Closed, out_neigh
  <2>3. Inside(S)
    BY <2>2 DEF InsideInv
  <2> QED
    BY <2>2, <2>3, InsideStep
<1>2. InsideInv => LabelsInside
  BY DEF InsideInv, Inside, LabelsInside
<1>3. QED
  BY <1>1, <1>2, InsideInit, ForestInvariant, PTL DEF SVSpec

-----------------------------------------------------------------------------
(***************************************************************************)
(* What a round finds out.                                                  *)
(***************************************************************************)
\* Nothing is established before the first round.
LEMMA RoundInit == SVInit => RoundInv
BY DEF SVInit, RoundInv, PathsShort, Unhooked, Settled, Flat, Idle

\* At a barrier every vertex has been dealt with.
LEMMA BarrierEmpty == RoundInv /\ AllAtBarrier => work = {}
BY SVAssumption DEF RoundInv, Settled, AllAtBarrier

\* The round after hooking goes on with compression.
LEMMA EndHookingRound == ForestInv /\ RoundInv /\ EndHooking => RoundInv'
<1> SUFFICES ASSUME ForestInv, RoundInv, EndHooking PROVE RoundInv'
  OBVIOUS
<1>1. /\ phase = "hook" /\ phase' = "compress" /\ work' = Nodes
      /\ comp' = comp /\ change' = change /\ adj' = adj
      /\ \A t \in Threads : team[t].pc = "barrier"
      /\ \A t \in Threads : team'[t].pc = "next"
  BY DEF EndHooking, AllAtBarrier, Idle
<1>2. work = {}
  BY BarrierEmpty DEF EndHooking
<1>3. ASSUME ~change, NEW u \in Nodes
      PROVE  Flat(u) /\ \A v \in out_neigh(u) : comp[u] = comp[v]
  BY <1>1, <1>2, <1>3 DEF RoundInv, PathsShort, Unhooked, Ahead
<1>4. PathsShort' /\ Unhooked'
  BY <1>1 DEF PathsShort, Unhooked
<1>5. Settled'
  BY <1>1, <1>3 DEF Settled, Flat, out_neigh, Shortening
<1>6. QED
  BY <1>4, <1>5 DEF RoundInv

\* A round that has hooked is followed by another, one that has not ends it.
LEMMA EndRoundRound == ForestInv /\ RoundInv /\ EndRound => RoundInv'
<1> SUFFICES ASSUME ForestInv, RoundInv, EndRound PROVE RoundInv'
  OBVIOUS
<1>1. /\ phase = "compress" /\ comp' = comp /\ adj' = adj
      /\ change' = FALSE
      /\ \A t \in Threads : team[t].pc = "barrier"
      /\ \A t \in Threads : team'[t].pc = "next"
  BY DEF EndRound, AllAtBarrier, Idle
<1>2. work = {}
  BY BarrierEmpty DEF EndRound
<1>3. \A n \in Nodes : Flat(n)
  BY <1>1, <1>2 DEF RoundInv, PathsShort, Compressing, Shortening
<1>4. CASE change
  <2>1. phase' = "hook" /\ work' = Nodes
    BY <1>4 DEF EndRound
  <2> QED
    BY <1>1, <1>3, <2>1 DEF RoundInv, PathsShort, Unhooked, Settled, Flat
<1>5. CASE ~change
  <2>1. phase' = "done"
    BY <1>5 DEF EndRound
  <2>2. \A u \in Nodes : \A v \in out_neigh(u) : comp[u] = comp[v]
    BY <1>1, <1>5 DEF RoundInv, Settled
  <2> QED
    BY <1>1, <1>3, <2>1, <2>2
       DEF RoundInv, PathsShort, Unhooked, Settled, Flat, out_neigh, Shortening
<1>6. QED
  BY <1>4, <1>5

\* A thread that goes on reading in the compressing loop finds out nothing new.
LEMMA StillCompressing ==
  ASSUME RoundInv, NEW t \in Threads, phase = "compress",
         comp' = comp, adj' = adj, change' = change, phase' = phase, work' = work,
         Compressing(t), Compressing(t)', team'[t].u = team[t].u,
         team'[t].pc \in Shortening => team[t].pc \in Shortening,
         \A s \in Threads : s # t => team'[s] = team[s]
  PROVE  RoundInv'
<1>1. PathsShort'
  BY DEF RoundInv, PathsShort, Flat, Compressing
<1>2. Unhooked'
  BY DEF Unhooked
<1>3. Settled'
  <2>1. team'[t].pc # "barrier"
    BY DEF Compressing, Shortening
  <2> QED
    BY <2>1 DEF RoundInv, Settled, Flat, out_neigh
<1>4. QED
  BY <1>1, <1>2, <1>3 DEF RoundInv

\* A step of a thread keeps what the round has established so far.
LEMMA ThreadRound ==
  ASSUME ForestInv, PathInv, RoundInv, NEW t \in Threads, Thread(t)
  PROVE  RoundInv'
<1> DEFINE r == team[t]
<1>0. /\ r \in Record /\ comp \in [Nodes -> Nodes] /\ team \in [Threads -> Record]
      /\ r.u \in Nodes /\ r.v \in Nodes /\ change \in BOOLEAN
      /\ phase \in {"hook", "compress", "done"}
  BY DEF ForestInv, Record
<1>t. ASSUME NEW new, Becomes(t, new)
      PROVE  team'[t] = new /\ \A s \in Threads : s # t => team'[s] = team[s]
  BY <1>0, <1>t DEF Becomes
<1>1. CASE Take(t)
  <2>1. PICK u \in work :
          /\ work' = work \ {u}
          /\ Becomes(t, IF phase = "hook" THEN [Idle EXCEPT !.u = u, !.todo = out_neigh(u)]
                        ELSE [Idle EXCEPT !.pc = "test", !.u = u])
    BY <1>1 DEF Take
  <2>2. /\ comp' = comp /\ adj' = adj /\ change' = change /\ phase' = phase
        /\ r.pc = "next" /\ r.todo = {} /\ phase # "done"
    BY <1>1 DEF Take
  <2>3. /\ team'[t].u = u
        /\ phase = "hook" => team'[t].pc = "next" /\ team'[t].todo = out_neigh(u)
        /\ phase = "compress" => team'[t].pc = "test"
        /\ \A s \in Threads : s # t => team'[s] = team[s]
    <3> DEFINE new == IF phase = "hook" THEN [Idle EXCEPT !.u = u, !.todo = out_neigh(u)]
                      ELSE [Idle EXCEPT !.pc = "test", !.u = u]
    <3>1. /\ new.u = u
          /\ phase = "hook" => new.pc = "next" /\ new.todo = out_neigh(u)
          /\ phase = "compress" => new.pc = "test"
      BY DEF Idle
    <3>2. Becomes(t, new)
      BY <2>1
    <3> HIDE DEF new
    <3> QED
      BY <3>1, <3>2, <1>t
  <2>4. PathsShort'
    BY <2>1, <2>2, <2>3 DEF RoundInv, PathsShort, Flat, Compressing, Shortening
  <2>5. ASSUME phase = "hook", ~change
        PROVE  /\ \A s \in Threads :
                    /\ team'[s].pc # "hook"
                    /\ team'[s].pc = "readv" => team'[s].comp_u = comp[team'[s].u]
                    /\ team'[s].pc = "root" => team'[s].high \in {comp[team'[s].u], comp[team'[s].v]}
               /\ \A w \in Nodes \ work' : \A v \in out_neigh(w) :
                    comp[w] = comp[v] \/ \E s \in Threads : Ahead(s, w, v)'
    <3>1. \A s \in Threads :
             /\ team'[s].pc # "hook"
             /\ team'[s].pc = "readv" => team'[s].comp_u = comp[team'[s].u]
             /\ team'[s].pc = "root" => team'[s].high \in {comp[team'[s].u], comp[team'[s].v]}
      BY <2>3, <2>5 DEF RoundInv, Unhooked
    <3>2. ASSUME NEW w \in Nodes \ work', NEW v \in out_neigh(w), comp[w] # comp[v]
          PROVE  \E s \in Threads : Ahead(s, w, v)'
      <4>1. CASE w = u
        <5>1. Ahead(t, w, v)'
          BY <2>3, <2>5, <4>1 DEF Ahead
        <5> QED
          BY <5>1
      <4>2. CASE w # u
        <5>1. w \in Nodes \ work
          BY <2>1, <4>2
        <5>2. PICK s \in Threads : Ahead(s, w, v)
          BY <2>5, <3>2, <5>1 DEF RoundInv, Unhooked
        <5>3. s # t
          BY <2>2, <5>2 DEF Ahead
        <5>4. Ahead(s, w, v)'
          BY <2>3, <5>2, <5>3 DEF Ahead
        <5> QED
          BY <5>4
      <4> QED
        BY <4>1, <4>2
    <3> QED
      BY <3>1, <3>2
  <2>6. Unhooked'
    BY <2>2, <2>5 DEF Unhooked, out_neigh
  <2>7. Settled'
    <3>1. \A s \in Threads : team'[s].pc # "barrier"
      BY <2>1, <2>2, <2>3, <1>0 DEF RoundInv, Settled
    <3>2. team'[t].pc \notin Shortening
      BY <2>2, <2>3, <1>0 DEF Shortening
    <3> QED
      BY <2>2, <2>3, <3>1, <3>2 DEF RoundInv, Settled, Flat, out_neigh
  <2> QED
    BY <2>4, <2>6, <2>7 DEF RoundInv
<1>2. CASE LeaveLoop(t)
  <2>1. /\ comp' = comp /\ adj' = adj /\ change' = change /\ phase' = phase /\ work' = work
        /\ r.pc = "next" /\ r.todo = {} /\ work = {} /\ phase # "done"
    BY <1>2 DEF LeaveLoop
  <2>2. /\ team'[t].pc = "barrier"
        /\ \A s \in Threads : s # t => team'[s] = team[s]
    BY <1>2, <1>t DEF LeaveLoop, Idle
  <2>3. PathsShort'
    BY <2>1, <2>2 DEF RoundInv, PathsShort, Flat, Compressing, Shortening
  <2>4. ASSUME NEW s \in Threads, NEW w, NEW v, Ahead(s, w, v) PROVE Ahead(s, w, v)'
    BY <2>1, <2>2, <2>4 DEF Ahead
  <2>5. Unhooked'
    BY <2>1, <2>2, <2>4 DEF RoundInv, Unhooked, out_neigh
  <2>6. Settled'
    BY <2>1, <2>2 DEF RoundInv, Settled, Flat, out_neigh, Shortening
  <2> QED
    BY <2>3, <2>5, <2>6 DEF RoundInv
<1>3. CASE ReadU(t)
  <2>1. PICK x \in r.todo :
          Becomes(t, [r EXCEPT !.todo = @ \ {x}, !.v = x, !.pc = "readv", !.comp_u = comp[r.u]])
    BY <1>3 DEF ReadU
  <2>2. /\ comp' = comp /\ adj' = adj /\ change' = change /\ phase' = phase /\ work' = work
        /\ phase = "hook" /\ r.pc = "next"
    BY <1>3 DEF ReadU, At
  <2>3. /\ team'[t].u = r.u /\ team'[t].todo = r.todo \ {x} /\ team'[t].v = x
        /\ team'[t].pc = "readv" /\ team'[t].comp_u = comp[r.u]
        /\ \A s \in Threads : s # t => team'[s] = team[s]
    <3> DEFINE new == [r EXCEPT !.todo = @ \ {x}, !.v = x, !.pc = "readv", !.comp_u = comp[r.u]]
    <3>1. /\ new.u = r.u /\ new.todo = r.todo \ {x} /\ new.v = x
          /\ new.pc = "readv" /\ new.comp_u = comp[r.u]
      BY <1>0 DEF Record
    <3>2. Becomes(t, new)
      BY <2>1
    <3> HIDE DEF new
    <3> QED
      BY <3>1, <3>2, <1>t
  <2>4. PathsShort'
    BY <2>2 DEF RoundInv, PathsShort, Flat, Compressing, Shortening
  <2>5. ASSUME NEW s \in Threads, NEW w, NEW v, Ahead(s, w, v) PROVE Ahead(s, w, v)'
    BY <2>2, <2>3, <2>5 DEF Ahead
  <2>6. Unhooked'
    BY <2>2, <2>3, <2>5 DEF RoundInv, Unhooked, out_neigh
  <2>7. Settled'
    BY <2>2, <2>3 DEF RoundInv, Settled
  <2> QED
    BY <2>4, <2>6, <2>7 DEF RoundInv
<1>4. CASE ReadV(t)
  <2> DEFINE a == r.comp_u
             b == comp[r.v]
             high == IF a > b THEN a ELSE b
             low == a + (b - high)
  <2>1. /\ comp' = comp /\ adj' = adj /\ change' = change /\ phase' = phase /\ work' = work
        /\ phase = "hook" /\ r.pc = "readv"
    BY <1>4 DEF ReadV, At
  <2>2. a \in Nodes /\ b \in Nodes
    BY <1>0 DEF Record
  <2>3. high \in {a, b}
    BY <2>2
  <2>4. Becomes(t, [r EXCEPT !.pc = IF a = b THEN "next" ELSE "root", !.high = high, !.low = low])
    BY <1>4 DEF ReadV
  <2> HIDE DEF high, low
  <2>5. /\ team'[t].u = r.u /\ team'[t].todo = r.todo /\ team'[t].v = r.v
        /\ team'[t].pc = (IF a = b THEN "next" ELSE "root") /\ team'[t].high = high
        /\ \A s \in Threads : s # t => team'[s] = team[s]
    <3> DEFINE new == [r EXCEPT !.pc = IF a = b THEN "next" ELSE "root", !.high = high, !.low = low]
    <3>1. /\ new.u = r.u /\ new.todo = r.todo /\ new.v = r.v
          /\ new.pc = (IF a = b THEN "next" ELSE "root") /\ new.high = high
      BY <1>0 DEF Record
    <3> HIDE DEF new
    <3>2. Becomes(t, new)
      BY <2>4 DEF new
    <3> QED
      BY <3>1, <3>2, <1>t
  <2>6. PathsShort'
    BY <2>1 DEF RoundInv, PathsShort, Flat, Compressing, Shortening
  <2>7. ASSUME phase = "hook", ~change PROVE a = comp[r.u]
    BY <2>1, <2>7 DEF RoundInv, Unhooked
  <2>8. ASSUME NEW s \in Threads, NEW w, NEW v, Ahead(s, w, v), ~change
        PROVE  comp[w] = comp[v] \/ Ahead(s, w, v)'
    BY <2>1, <2>5, <2>7, <2>8 DEF Ahead
  <2>9. Unhooked'
    <3> SUFFICES ASSUME ~change PROVE Unhooked'
      BY <2>1 DEF Unhooked
    <3>1. \A s \in Threads :
             /\ team'[s].pc # "hook"
             /\ team'[s].pc = "readv" => team'[s].comp_u = comp[team'[s].u]
             /\ team'[s].pc = "root" => team'[s].high \in {comp[team'[s].u], comp[team'[s].v]}
      BY <2>1, <2>3, <2>5, <2>7 DEF RoundInv, Unhooked
    <3>2. \A w \in Nodes \ work : \A v \in out_neigh(w) :
             comp[w] = comp[v] \/ \E s \in Threads : Ahead(s, w, v)'
      BY <2>1, <2>8 DEF RoundInv, Unhooked
    <3> QED
      BY <2>1, <3>1, <3>2 DEF Unhooked, out_neigh
  <2>10. Settled'
    BY <2>1, <2>5 DEF RoundInv, Settled
  <2> QED
    BY <2>6, <2>9, <2>10 DEF RoundInv
<1>5. CASE TestRoot(t)
  <2>1. /\ comp' = comp /\ adj' = adj /\ phase' = phase /\ work' = work
        /\ phase = "hook" /\ r.pc = "root"
    BY <1>5 DEF TestRoot, At
  <2>2. change'
    <3>1. CASE comp[r.high] = r.high
      BY <1>5, <3>1 DEF TestRoot
    <3>2. CASE comp[r.high] # r.high
      <4>1. change' = change
        BY <1>5, <3>2 DEF TestRoot
      <4>2. ASSUME ~change PROVE FALSE
        BY <1>0, <2>1, <3>2, <4>2 DEF RoundInv, Unhooked, PathsShort, Flat
      <4> QED
        BY <4>1, <4>2, <1>0
    <3> QED
      BY <3>1, <3>2
  <2>3. PICK label \in {"hook", "next"} : Becomes(t, [r EXCEPT !.pc = label])
    BY <1>5 DEF TestRoot
  <2>4. team'[t].pc \in {"hook", "next"} /\ \A s \in Threads : s # t => team'[s] = team[s]
    BY <2>3, <1>0, <1>t DEF Record
  <2> QED
    BY <2>1, <2>2, <2>4 DEF RoundInv, PathsShort, Unhooked, Settled
<1>6. CASE Hook(t)
  <2>1. /\ adj' = adj /\ phase' = phase /\ work' = work /\ change' = change
        /\ phase = "hook" /\ r.pc = "hook"
    BY <1>6 DEF Hook, At
  <2>2. change'
    BY <1>0, <2>1 DEF RoundInv, Unhooked
  <2>3. team'[t].pc = "next" /\ \A s \in Threads : s # t => team'[s] = team[s]
    <3>1. Becomes(t, [r EXCEPT !.pc = "next"])
      BY <1>6 DEF Hook
    <3> QED
      BY <3>1, <1>0, <1>t DEF Record
  <2> QED
    BY <2>1, <2>2, <2>3 DEF RoundInv, PathsShort, Unhooked, Settled
<1>7. CASE TestPath(t)
  <2> DEFINE new == [r EXCEPT !.pc = "testlabel", !.label = comp[r.u]]
  <2>1. /\ comp' = comp /\ adj' = adj /\ change' = change /\ phase' = phase /\ work' = work
        /\ phase = "compress" /\ r.pc = "test" /\ Becomes(t, new)
    BY <1>7 DEF TestPath, At
  <2>2. new.u = r.u /\ new.pc = "testlabel"
    BY <1>0 DEF Record
  <2> HIDE DEF new
  <2>3. team'[t] = new /\ \A s \in Threads : s # t => team'[s] = team[s]
    BY <2>1, <1>t
  <2> QED
    BY <2>1, <2>2, <2>3, StillCompressing DEF Compressing, Shortening
<1>8. CASE TestLabel(t)
  <2> DEFINE new == [r EXCEPT !.pc = IF r.label # comp[r.label] THEN "shorten" ELSE "next"]
  <2>1. /\ comp' = comp /\ adj' = adj /\ change' = change /\ phase' = phase /\ work' = work
        /\ phase = "compress" /\ r.pc = "testlabel" /\ Becomes(t, new)
    BY <1>8 DEF TestLabel, At
  <2>2. r.label = comp[r.u]
    BY <2>1 DEF PathInv, Compressing
  <2>3. /\ team'[t].u = r.u
        /\ IF Flat(r.u) THEN team'[t].pc = "next" ELSE team'[t].pc = "shorten"
        /\ \A s \in Threads : s # t => team'[s] = team[s]
    BY <2>1, <2>2, <1>0, <1>t DEF Record, Flat
  <2>4. PathsShort'
    BY <2>1, <2>3 DEF RoundInv, PathsShort, Flat, Compressing, Shortening
  <2>5. Unhooked'
    BY <2>1 DEF Unhooked
  <2>6. Settled'
    BY <1>0, <2>1, <2>3 DEF RoundInv, Settled, Flat, out_neigh, Shortening
  <2> QED
    BY <2>4, <2>5, <2>6 DEF RoundInv
<1>9. CASE ReadPath(t)
  <2> DEFINE new == [r EXCEPT !.pc = "readlabel", !.label = comp[r.u]]
  <2>1. /\ comp' = comp /\ adj' = adj /\ change' = change /\ phase' = phase /\ work' = work
        /\ phase = "compress" /\ r.pc = "shorten" /\ Becomes(t, new)
    BY <1>9 DEF ReadPath, At
  <2>2. new.u = r.u /\ new.pc = "readlabel"
    BY <1>0 DEF Record
  <2> HIDE DEF new
  <2>3. team'[t] = new /\ \A s \in Threads : s # t => team'[s] = team[s]
    BY <2>1, <1>t
  <2> QED
    BY <2>1, <2>2, <2>3, StillCompressing DEF Compressing, Shortening
<1>10. CASE ReadLabel(t)
  <2> DEFINE new == [r EXCEPT !.pc = "store", !.label = comp[r.label]]
  <2>1. /\ comp' = comp /\ adj' = adj /\ change' = change /\ phase' = phase /\ work' = work
        /\ phase = "compress" /\ r.pc = "readlabel" /\ Becomes(t, new)
    BY <1>10 DEF ReadLabel, At
  <2>2. new.u = r.u /\ new.pc = "store"
    BY <1>0 DEF Record
  <2> HIDE DEF new
  <2>3. team'[t] = new /\ \A s \in Threads : s # t => team'[s] = team[s]
    BY <2>1, <1>t
  <2> QED
    BY <2>1, <2>2, <2>3, StillCompressing DEF Compressing, Shortening
<1>11. CASE Shorten(t)
  <2>1. /\ adj' = adj /\ change' = change /\ phase' = phase /\ work' = work
        /\ phase = "compress" /\ r.pc = "store"
        /\ comp' = [comp EXCEPT ![r.u] = r.label]
    BY <1>11 DEF Shorten, At
  <2>2. change /\ comp[r.u] # r.u
    BY <1>0, <2>1 DEF RoundInv, Settled, PathInv, Compressing, Shortening
  <2>3. /\ team'[t].u = r.u /\ team'[t].pc = "test"
        /\ \A s \in Threads : s # t => team'[s] = team[s]
    <3>1. Becomes(t, [r EXCEPT !.pc = "test"])
      BY <1>11 DEF Shorten
    <3> QED
      BY <3>1, <1>0, <1>t DEF Record
  <2>4. ASSUME NEW n \in Nodes, n # r.u, Flat(n) PROVE Flat(n)'
    <3>1. comp'[n] = comp[n] /\ comp[n] \in Nodes /\ comp[comp[n]] = comp[n]
      BY <1>0, <2>1, <2>4 DEF Flat
    <3>2. comp'[comp[n]] = comp[n]
      BY <1>0, <2>1, <2>2, <3>1
    <3> QED
      BY <3>1, <3>2 DEF Flat
  <2>5. PathsShort'
    BY <2>1, <2>3, <2>4 DEF RoundInv, PathsShort, Compressing
  <2>6. Unhooked'
    BY <2>1 DEF Unhooked
  <2>7. Settled'
    BY <2>1, <2>2, <2>3 DEF RoundInv, Settled
  <2> QED
    BY <2>5, <2>6, <2>7 DEF RoundInv
<1>12. QED
  BY <1>1, <1>2, <1>3, <1>4, <1>5, <1>6, <1>7, <1>8, <1>9, <1>10, <1>11 DEF Thread

\* Every step keeps what the round has established so far.
LEMMA RoundStep == ForestInv /\ PathInv /\ RoundInv /\ [SVNext]_svVars => RoundInv'
<1> SUFFICES ASSUME ForestInv, PathInv, RoundInv, [SVNext]_svVars PROVE RoundInv'
  OBVIOUS
<1>1. CASE UNCHANGED svVars
  BY <1>1 DEF svVars, RoundInv, PathsShort, Unhooked, Settled, Flat, Ahead, Compressing,
              Shortening, out_neigh
<1>2. CASE Terminated
  BY <1>1, <1>2 DEF Terminated
<1>3. QED
  BY <1>1, <1>2, EndHookingRound, EndRoundRound, ThreadRound DEF SVNext

\* As long as a round has hooked nothing, the labels are those it began with
\* and each edge agrees or is still before its thread.
THEOREM RoundInvariant == SVSpec => []RoundInv
BY RoundInit, RoundStep, ForestInvariant, PathInvariant, PTL DEF SVSpec

\* When the rounds end, the labels tell the components of the graph apart: they
\* agree along every edge, so the vertices with one label form a closed set, and
\* they are inside every closed set of their vertex.
THEOREM ComponentsExactAlways == SVSpec => []ComponentsExact
<1>1. ForestInv /\ LabelsInside /\ RoundInv => ComponentsExact
  <2> SUFFICES ASSUME ForestInv, LabelsInside, RoundInv, phase = "done",
                      NEW u \in Nodes, NEW v \in Nodes
               PROVE  comp[u] = comp[v] <=> SameSide(u, v)
    BY DEF ComponentsExact
  <2>1. ASSUME comp[u] = comp[v] PROVE SameSide(u, v)
    BY <2>1 DEF LabelsInside, SameSide
  <2>2. ASSUME SameSide(u, v) PROVE comp[u] = comp[v]
    <3> DEFINE S == {n \in Nodes : comp[n] = comp[u]}
    <3>1. \A w \in Nodes : \A x \in out_neigh(w) : comp[w] = comp[x]
      BY DEF RoundInv, Settled
    <3>2. \A w \in Nodes : out_neigh(w) \subseteq Nodes
      BY DEF ForestInv, out_neigh
    <3>3. Closed(S)
      BY <3>1, <3>2 DEF Closed
    <3>4. S \in SUBSET Nodes /\ u \in S
      OBVIOUS
    <3>5. v \in S
      BY <2>2, <3>3, <3>4 DEF SameSide
    <3> QED
      BY <3>5
  <2> QED
    BY <2>1, <2>2
<1>2. QED
  BY <1>1, ForestInvariant, LabelsInsideAlways, RoundInvariant, PTL
=============================================================================
