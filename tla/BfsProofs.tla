------------------------------ MODULE BfsProofs ------------------------------
(***************************************************************************)
(* Breadth-first search goes level by level and its result is what the      *)
(* verifier accepts, for any team of threads, any number of vertices, any   *)
(* symmetric graphs and any way the steps alternate.                        *)
(***************************************************************************)
EXTENDS Bfs, Induction

-----------------------------------------------------------------------------
(***************************************************************************)
(* The inductive invariant, in parts.  B[k] are the vertices at a distance  *)
(* of at most k, d is the depth of the search, and E[i] is the vertex that  *)
(* entry i of the queue has been reserved for.                              *)
(***************************************************************************)
Grows(B, adj, source) ==
  /\ B[0] = {source}
  /\ \A k \in Nat : B[k + 1] = B[k] \cup UNION {adj[u] : u \in B[k]}

Ring(B, d) == IF d = 0 THEN B[0] ELSE B[d] \ B[d - 1]

Labels == {"loop", "cas", "store", "flush", "copy", "barrier"}
Phases == {"head", "TDStep", "QueueToBitmap", "BUStep", "BitmapToQueue", "done"}

Record == [pc : Labels, u : Nodes, v : Nodes, seen : Int, word : SUBSET Nodes,
           todo : SUBSET Nodes, local : Seq(Nodes), copy_start : Nat, pending : Seq(Nodes)]

Queue == [shared : [Nodes -> Nodes \cup {Unset}],
          shared_in : Nat, shared_out_start : Nat, shared_out_end : Nat]

BfsTypeOK ==
  /\ input \in Inputs
  /\ parent \in [Nodes -> Int]
  /\ queue \in Queue
  /\ front \in SUBSET Nodes /\ curr \in SUBSET Nodes
  /\ phase \in Phases
  /\ team \in [Threads -> Record]

\* A vertex that is visited has its parent one level up.
Tree(B) ==
  /\ parent[input.source] = input.source
  /\ \A n \in Nodes : parent[n] >= 0 => parent[n] \in Nodes
  /\ \A n \in Visited \ {input.source} :
       \E k \in Nat : n \in B[k + 1] \ B[k] /\ parent[n] \in B[k] /\ n \in out_neigh(parent[n])

\* A thread on its way to the barrier, with or without a last flush.
Leaving(r) == r.pc = "barrier" \/ (r.pc \in {"flush", "copy"} /\ r.pending = <<>>)

Buffer(r) == {r.local[k] : k \in 1 .. Len(r.local)}
Pending(r) == {r.pending[k] : k \in 1 .. Len(r.pending)}

\* The vertices of a thread that have no entry in the queue yet, and the
\* entries it has reserved and not written.
Waiting(r) == Pending(r) \cup (IF r.pc = "copy" THEN {} ELSE Buffer(r))
Reserved(r) == IF r.pc = "copy" THEN r.copy_start .. r.copy_start + Len(r.local) - 1 ELSE {}

\* What a thread holds is in order.
BufferOK(r) ==
  /\ r.pending # <<>> => r.pc \in {"flush", "copy"}
  /\ r.pc = "barrier" => r.local = <<>>
  /\ \A i, j \in 1 .. Len(r.local) : r.local[i] = r.local[j] => i = j
  /\ Len(r.pending) <= 1
  /\ Pending(r) \cap Buffer(r) = {}

Shared(q) == 0 .. q.shared_in - 1

\* A vertex is in one place at most: one entry, written or reserved, or one
\* buffer.
Entries(q, tm, E) ==
  /\ q.shared_out_start <= q.shared_out_end /\ q.shared_out_end <= q.shared_in
  /\ E \in [Shared(q) -> Nodes]
  /\ \A i, j \in Shared(q) : E[i] = E[j] => i = j
  /\ \A t \in Threads : BufferOK(tm[t])
  /\ \A t \in Threads : tm[t].pc = "copy" =>
       /\ q.shared_out_end <= tm[t].copy_start
       /\ tm[t].copy_start + Len(tm[t].local) <= q.shared_in
       /\ \A k \in 1 .. Len(tm[t].local) : E[tm[t].copy_start + k - 1] = tm[t].local[k]
  /\ \A i \in Shared(q) : (\A t \in Threads : i \notin Reserved(tm[t])) => q.shared[i] = E[i]
  /\ \A t \in Threads : \A i \in Shared(q) : E[i] \notin Waiting(tm[t])
  /\ \A s, t \in Threads : s # t =>
       (Buffer(tm[s]) \cup Pending(tm[s])) \cap (Buffer(tm[t]) \cup Pending(tm[t])) = {}

OldEntries(q, E) == {E[i] : i \in 0 .. q.shared_out_end - 1}
NewEntries(q, tm, E) ==
  {E[i] : i \in q.shared_out_end .. q.shared_in - 1} \cup UNION {Waiting(tm[t]) : t \in Threads}
WindowEntries(q, E) == {E[i] : i \in WindowPositions(q)}

\* Nothing is in a buffer, and the window is the end of the queue.
Settled == queue.shared_in = queue.shared_out_end /\ \A t \in Threads : team[t].local = <<>>

LabelsOf(name) ==
  CASE name = "TDStep" -> {"loop", "cas", "flush", "copy", "barrier"}
    [] name = "QueueToBitmap" -> {"loop", "store", "barrier"}
    [] name = "BUStep" -> {"loop", "store", "barrier"}
    [] name = "BitmapToQueue" -> {"loop", "flush", "copy", "barrier"}
    [] OTHER -> {"loop"}

\* A thread leaves a loop when there is nothing to take.
TeamOK ==
  \A t \in Threads :
    /\ team[t].pc \in LabelsOf(phase)
    /\ Leaving(team[t]) => work = {} /\ team[t].todo = {}

HeadInv(B, d, E) ==
  /\ Settled /\ Visited = B[d]
  /\ WindowEntries(queue, E) = Ring(B, d) /\ OldEntries(queue, E) \subseteq B[d]
  /\ front \subseteq B[d]

\* The edge from u to w is still to be looked at.
Carries(r, u, w) == r.u = u /\ (w \in r.todo \/ (r.pc = "cas" /\ r.v = w))

TDThread(r, B, d) ==
  /\ r.todo \subseteq out_neigh(r.u)
  /\ r.todo # {} \/ r.pc = "cas" => r.u \in B[d]
  /\ r.pc = "cas" => /\ r.v \in out_neigh(r.u) /\ r.seen < 0
                     /\ parent[r.v] = r.seen \/ parent[r.v] >= 0

TDCovers(B, d, E) ==
  \A u \in Ring(B, d) : \A w \in out_neigh(u) :
    \/ w \in Visited
    \/ \E i \in work : E[i] = u
    \/ \E t \in Threads : Carries(team[t], u, w)

TDInv(B, d, E) ==
  /\ work \subseteq WindowPositions(queue) /\ WindowEntries(queue, E) = Ring(B, d)
  /\ OldEntries(queue, E) \subseteq B[d] /\ NewEntries(queue, team, E) = Visited \ B[d]
  /\ B[d] \subseteq Visited /\ Visited \subseteq B[d + 1]
  /\ front \subseteq B[d]
  /\ \A t \in Threads : TDThread(team[t], B, d)
  /\ TDCovers(B, d, E)

QBInv(B, d, E) ==
  /\ Settled /\ Visited = B[d]
  /\ work \subseteq WindowPositions(queue) /\ WindowEntries(queue, E) = Ring(B, d)
  /\ OldEntries(queue, E) \subseteq B[d] /\ front \subseteq B[d]
  /\ \A t \in Threads : team[t].todo = {} /\ (team[t].pc = "store" => team[t].v \in Ring(B, d))
  /\ \A u \in Ring(B, d) :
       u \in front \/ (\E i \in work : E[i] = u)
         \/ \E t \in Threads : team[t].pc = "store" /\ team[t].v = u

\* The vertices of the chunk that a thread has not finished.
Mine(r) == r.todo \cup IF r.pc = "store" THEN {r.v} ELSE {}
WordsApart(S, T) == \A x \in S : \A y \in T : x \div kBitsPerWord # y \div kBitsPerWord
Storing == {team[t].v : t \in {s \in Threads : team[s].pc = "store"}}

BUInv(B, d, E) ==
  /\ Settled /\ OldEntries(queue, E) \subseteq B[d]
  /\ Ring(B, d) \subseteq front /\ front \subseteq B[d]
  /\ B[d] \subseteq Visited /\ Visited \subseteq B[d + 1]
  /\ curr \cup Storing = Visited \ B[d]
  /\ work \subseteq Chunks
  /\ \A t \in Threads :
       /\ team[t].pc = "store" => team[t].word = WordOf(curr, team[t].v)
       /\ \A n \in work : WordsApart(Mine(team[t]), ChunkFrom(n))
       /\ \A s \in Threads : s # t => WordsApart(Mine(team[s]), Mine(team[t]))
  /\ \A w \in B[d + 1] :
       w \in Visited \/ (\E n \in work : w \in ChunkFrom(n)) \/ \E t \in Threads : w \in team[t].todo

BQInv(B, d, E) ==
  /\ Visited = B[d] /\ front = Ring(B, d)
  /\ OldEntries(queue, E) \cap front = {} /\ OldEntries(queue, E) \subseteq B[d]
  /\ NewEntries(queue, team, E) = front \ work
  /\ \A t \in Threads : team[t].todo = {}

DoneInv(B, d) ==
  /\ Visited = B[d] /\ Ring(B, d) = {}
  /\ \A n \in Nodes \ Visited : parent[n] = -1

\* The round the search is in.
Round(B, d, E) ==
  /\ phase = "head" => HeadInv(B, d, E)
  /\ phase = "TDStep" => TDInv(B, d, E)
  /\ phase = "QueueToBitmap" => QBInv(B, d, E)
  /\ phase = "BUStep" => BUInv(B, d, E)
  /\ phase = "BitmapToQueue" => BQInv(B, d, E)
  /\ phase = "done" => DoneInv(B, d)

-----------------------------------------------------------------------------
(***************************************************************************)
(* The levels of a graph.                                                   *)
(***************************************************************************)
\* Vertices are numbered from 0.
LEMMA NodesAre ==
  /\ Nodes \subseteq Nat /\ IsFiniteSet(Nodes) /\ Cardinality(Nodes) = num_nodes
  /\ num_nodes \in Nat /\ num_nodes > 0 /\ 0 \in Nodes
<1>1. num_nodes \in Nat /\ num_nodes > 0
  BY BfsAssumption
<1>2. num_nodes - 1 \in Int /\ 0 \in Int
  BY <1>1
<1>3. IsFiniteSet(0 .. num_nodes - 1) /\ Cardinality(0 .. num_nodes - 1) = num_nodes
  BY <1>1, <1>2, FS_Interval
<1> QED
  BY <1>1, <1>3 DEF Nodes

\* A graph has its levels.
LEMMA BallsExist ==
  ASSUME NEW adj \in [Nodes -> SUBSET Nodes], NEW source \in Nodes
  PROVE  \E B \in [Nat -> SUBSET Nodes] : Grows(B, adj, source)
<1> DEFINE V == SUBSET Nodes
           next(S) == S \cup UNION {adj[u] : u \in S}
           step == [p \in V \X Nat |-> next(p[1])]
           first == {source}
<1>1. step \in [V \X Nat -> V]
  <2>1. \A S \in V : next(S) \in V
    OBVIOUS
  <2> HIDE DEF next
  <2> QED
    BY <2>1
<1>2. first \in V
  OBVIOUS
<1>3. \E f \in [Nat -> V] : Recurs(f, first, step)
  <2> HIDE DEF V, step, first
  <2> QED
    BY <1>1, <1>2, Recursion
<1>4. PICK B \in [Nat -> V] : Recurs(B, first, step)
  BY <1>3
<1>5. B[0] = first /\ \A k \in Nat : B[k + 1] = next(B[k])
  <2>1. \A k \in Nat : B[k] \in V
    BY <1>4
  <2> HIDE DEF V, next, first
  <2> QED
    BY <1>4, <2>1 DEF Recurs
<1> QED
  BY <1>4, <1>5 DEF Grows

\* What the search goes by: the levels of the graph it runs on.
Balls(B) == B \in [Nat -> SUBSET Nodes] /\ Grows(B, input.adj, input.source)

\* A ball holds the smaller ones.
LEMMA BallsGrow ==
  ASSUME NEW B, Balls(B), NEW j \in Nat, NEW k \in Nat, j <= k
  PROVE  B[j] \subseteq B[k]
<1> DEFINE D == {n \in Nat : B[j] \subseteq B[j + n]}
<1>1. 0 \in D
  OBVIOUS
<1>2. \A n \in Nat : n \in D => n + 1 \in D
  <2> SUFFICES ASSUME NEW n \in Nat, n \in D PROVE B[j] \subseteq B[j + (n + 1)]
    OBVIOUS
  <2>1. j + n \in Nat /\ j + (n + 1) = (j + n) + 1
    OBVIOUS
  <2>2. B[(j + n) + 1] = B[j + n] \cup UNION {input.adj[u] : u \in B[j + n]}
    BY <2>1 DEF Balls, Grows
  <2> QED
    BY <2>1, <2>2
<1> HIDE DEF D
<1>3. k - j \in D
  BY <1>1, <1>2, Induction
<1> QED
  BY <1>3 DEF D

\* The neighbours of a ball are in the next one.
LEMMA BallsNext ==
  ASSUME NEW B, Balls(B), NEW k \in Nat
  PROVE  /\ B[k] \in SUBSET Nodes /\ B[k] \subseteq B[k + 1]
         /\ \A u \in B[k] : \A w \in out_neigh(u) : w \in B[k + 1]
         /\ \A w \in B[k + 1] \ B[k] : \E u \in Ring(B, k) : w \in out_neigh(u)
<1>1. B[k] \in SUBSET Nodes /\ B[k + 1] = B[k] \cup UNION {input.adj[u] : u \in B[k]}
  BY DEF Balls, Grows
<1>2. ASSUME NEW w \in B[k + 1], w \notin B[k] PROVE \E u \in Ring(B, k) : w \in out_neigh(u)
  <2>1. PICK u \in B[k] : w \in input.adj[u]
    BY <1>1, <1>2
  <2>2. CASE k = 0
    BY <2>1, <2>2 DEF Ring, out_neigh
  <2>3. CASE k > 0
    <3>1. k - 1 \in Nat /\ (k - 1) + 1 = k /\ k # 0
      BY <2>3
    <3>2. B[k] = B[k - 1] \cup UNION {input.adj[x] : x \in B[k - 1]}
      BY <3>1 DEF Balls, Grows
    <3>3. u \notin B[k - 1]
      BY <1>2, <2>1, <3>2
    <3> QED
      BY <2>1, <3>1, <3>3 DEF Ring, out_neigh
  <2> QED
    BY <2>2, <2>3
<1> QED
  BY <1>1, <1>2 DEF out_neigh

\* A level is in its ball, and the balls are the level and the ball before.
LEMMA RingIs ==
  ASSUME NEW B, Balls(B), NEW k \in Nat
  PROVE  /\ Ring(B, k) \subseteq B[k] /\ Ring(B, k + 1) = B[k + 1] \ B[k]
<1>1. k + 1 # 0 /\ (k + 1) - 1 = k
  OBVIOUS
<1> QED
  BY <1>1 DEF Ring

\* After an empty level there is nothing more.
LEMMA BallsStop ==
  ASSUME NEW B, Balls(B), NEW d \in Nat, Ring(B, d) = {}, NEW k \in Nat, d <= k
  PROVE  B[k] = B[d]
<1> DEFINE D == {n \in Nat : B[d + n] = B[d]}
<1>1. d # 0 /\ d - 1 \in Nat /\ (d - 1) + 1 = d /\ B[d] \subseteq B[d - 1]
  <2>1. d # 0
    BY DEF Ring, Balls, Grows
  <2> QED
    BY <2>1 DEF Ring
<1>2. UNION {input.adj[u] : u \in B[d]} \subseteq B[d]
  <2>1. B[d] = B[d - 1] \cup UNION {input.adj[u] : u \in B[d - 1]}
    BY <1>1 DEF Balls, Grows
  <2> QED
    BY <1>1, <2>1
<1>3. 0 \in D
  OBVIOUS
<1>4. \A n \in Nat : n \in D => n + 1 \in D
  <2> SUFFICES ASSUME NEW n \in Nat, B[d + n] = B[d] PROVE B[d + (n + 1)] = B[d]
    OBVIOUS
  <2>1. d + n \in Nat /\ d + (n + 1) = (d + n) + 1
    OBVIOUS
  <2>2. B[(d + n) + 1] = B[d + n] \cup UNION {input.adj[u] : u \in B[d + n]}
    BY <2>1 DEF Balls, Grows
  <2> QED
    BY <1>2, <2>1, <2>2
<1> HIDE DEF D
<1>5. k - d \in D
  BY <1>3, <1>4, Induction
<1> QED
  BY <1>5 DEF D

\* There are fewer levels than vertices, or just as many.
LEMMA BallsEnd ==
  ASSUME NEW B, Balls(B)
  PROVE  /\ \A k \in Nat : k >= num_nodes => B[k] = B[num_nodes]
         /\ \A k \in Nat : k >= num_nodes => Ring(B, k) = {}
<1> DEFINE D == {k \in Nat : Cardinality(B[k]) >= k + 1 \/ \E j \in 1 .. k : Ring(B, j) = {}}
<1>0. \A k \in Nat : /\ B[k] \in SUBSET Nodes /\ IsFiniteSet(B[k])
                     /\ Cardinality(B[k]) \in Nat /\ Cardinality(B[k]) <= num_nodes
  <2> SUFFICES ASSUME NEW k \in Nat
               PROVE  /\ B[k] \in SUBSET Nodes /\ IsFiniteSet(B[k])
                      /\ Cardinality(B[k]) \in Nat /\ Cardinality(B[k]) <= num_nodes
    OBVIOUS
  <2>1. B[k] \in SUBSET Nodes
    BY DEF Balls
  <2>2. IsFiniteSet(B[k]) /\ Cardinality(B[k]) <= Cardinality(Nodes)
    BY <2>1, NodesAre, FS_Subset
  <2> QED
    BY <2>1, <2>2, NodesAre, FS_CardinalityType
<1>1. 0 \in D
  <2>1. B[0] = {input.source}
    BY DEF Balls, Grows
  <2>2. Cardinality(B[0]) = 1
    BY <2>1, FS_Singleton
  <2> QED
    BY <2>2
<1>2. \A k \in Nat : k \in D => k + 1 \in D
  <2> SUFFICES ASSUME NEW k \in Nat, k \in D PROVE k + 1 \in D
    OBVIOUS
  <2>1. CASE \E j \in 1 .. k : Ring(B, j) = {}
    BY <2>1
  <2>2. CASE Ring(B, k + 1) = {}
    <3>1. k + 1 \in 1 .. k + 1
      OBVIOUS
    <3> QED
      BY <2>2, <3>1
  <2>3. CASE Cardinality(B[k]) >= k + 1 /\ Ring(B, k + 1) # {}
    <3>1. PICK w : w \in B[k + 1] \ B[k]
      BY <2>3, RingIs
    <3>2. B[k] \cup {w} \in SUBSET B[k + 1]
      BY <3>1, BallsNext
    <3>3. IsFiniteSet(B[k] \cup {w}) /\ Cardinality(B[k] \cup {w}) = Cardinality(B[k]) + 1
      BY <1>0, <3>1, FS_AddElement
    <3>4. k + 1 \in Nat
      OBVIOUS
    <3>5. Cardinality(B[k] \cup {w}) <= Cardinality(B[k + 1])
      BY <1>0, <3>2, <3>4, FS_Subset
    <3> QED
      BY <1>0, <2>3, <3>3, <3>4, <3>5
  <2> QED
    BY <2>1, <2>2, <2>3
<1> HIDE DEF D
<1>3. num_nodes \in D
  BY <1>1, <1>2, NodesAre, Induction
<1>4. PICK j \in 1 .. num_nodes : Ring(B, j) = {}
  BY <1>0, <1>3, NodesAre DEF D
<1>5. \A k \in Nat : k >= num_nodes => B[k] = B[j]
  BY <1>4, NodesAre, BallsStop
<1>6. ASSUME NEW k \in Nat, k >= num_nodes PROVE Ring(B, k) = {}
  <2>1. CASE k = j
    BY <1>4, <2>1
  <2>2. CASE k # j
    <3>1. k # 0 /\ k - 1 \in Nat /\ k - 1 >= j /\ k >= j
      BY <1>4, <1>6, <2>2, NodesAre
    <3>2. B[k - 1] = B[j] /\ B[k] = B[j]
      BY <1>4, <3>1, BallsStop
    <3> QED
      BY <3>1, <3>2 DEF Ring
  <2> QED
    BY <2>1, <2>2
<1> QED
  BY <1>5, <1>6, NodesAre

BallRule(f) ==
  f = [d \in 0 .. num_nodes |->
         IF d = 0 THEN {input.source}
         ELSE f[d - 1] \cup UNION {out_neigh(u) : u \in f[d - 1]}]

\* The levels the properties are stated with are these.
LEMMA BallIs ==
  ASSUME NEW B, Balls(B)
  PROVE  \A k \in 0 .. num_nodes : Ball[k] = B[k] /\ Level(k) = Ring(B, k)
<1> DEFINE S(X) == X \cup UNION {out_neigh(u) : u \in X}
           g == [k \in 0 .. num_nodes |-> B[k]]
           f == CHOOSE f : BallRule(f)
<1>0. num_nodes \in Nat
  BY NodesAre
<1>1. B[0] = {input.source} /\ \A k \in Nat : B[k + 1] = S(B[k])
  BY DEF Balls, Grows, out_neigh
<1>2. BallRule(g)
  <2>1. ASSUME NEW k \in 0 .. num_nodes, k # 0 PROVE B[k] = S(g[k - 1])
    <3>1. k - 1 \in Nat /\ k - 1 \in 0 .. num_nodes /\ (k - 1) + 1 = k
      BY <1>0, <2>1
    <3>2. g[k - 1] = B[k - 1]
      BY <3>1
    <3> HIDE DEF S
    <3> QED
      BY <1>1, <3>1, <3>2
  <2> HIDE DEF S
  <2>2. g = [k \in 0 .. num_nodes |-> IF k = 0 THEN {input.source} ELSE S(g[k - 1])]
    BY <1>1, <2>1
  <2> QED
    BY <2>2 DEF BallRule, S
<1>3. BallRule(f)
  BY <1>2
<1>4. Ball = f
  BY DEF Ball, BallRule
<1> HIDE DEF f
<1>5. f[0] = {input.source} /\ \A k \in 1 .. num_nodes : f[k] = S(f[k - 1])
  <2>1. f = [d \in 0 .. num_nodes |-> IF d = 0 THEN {input.source} ELSE S(f[d - 1])]
    BY <1>3 DEF BallRule
  <2> HIDE DEF S
  <2>2. 0 \in 0 .. num_nodes /\ \A k \in 1 .. num_nodes : k \in 0 .. num_nodes /\ k # 0
    BY <1>0
  <2> QED
    BY <2>1, <2>2
<1> DEFINE D == {k \in Nat : k <= num_nodes => f[k] = B[k]}
<1>6. 0 \in D
  BY <1>1, <1>5
<1>7. \A k \in Nat : k \in D => k + 1 \in D
  <2> SUFFICES ASSUME NEW k \in Nat, k \in D, k + 1 <= num_nodes PROVE f[k + 1] = B[k + 1]
    OBVIOUS
  <2>1. f[k] = B[k] /\ k + 1 \in 1 .. num_nodes /\ (k + 1) - 1 = k
    BY <1>0
  <2> HIDE DEF S
  <2> QED
    BY <1>1, <1>5, <2>1
<1> HIDE DEF D
<1>8. \A k \in Nat : k \in D
  BY <1>6, <1>7, Induction
<1>9. \A k \in 0 .. num_nodes : Ball[k] = B[k]
  BY <1>0, <1>4, <1>8 DEF D
<1>10. ASSUME NEW k \in 0 .. num_nodes PROVE Level(k) = Ring(B, k)
  <2>1. k = 0 \/ k - 1 \in 0 .. num_nodes
    BY <1>0
  <2> QED
    BY <1>9, <2>1 DEF Level, Ring
<1> QED
  BY <1>9, <1>10

-----------------------------------------------------------------------------
(***************************************************************************)
(* The queue and the buffers, in any state.                                 *)
(***************************************************************************)
Held(r) == Buffer(r) \cup Pending(r)

\* Two records hold the same vertices and entries.
SameHeld(r, s) ==
  /\ r.local = s.local /\ r.pending = s.pending /\ (r.pc = "copy" <=> s.pc = "copy")
  /\ r.pc = "copy" => r.copy_start = s.copy_start

\* The queue has room: no vertex has two entries.
LEMMA EntriesFit ==
  ASSUME NEW q \in Queue, NEW tm, NEW E, Entries(q, tm, E)
  PROVE  q.shared_in <= num_nodes /\ Shared(q) \subseteq Nodes
<1>1. q.shared_in \in Nat /\ Shared(q) = 0 .. q.shared_in - 1 /\ 0 \in Int /\ q.shared_in - 1 \in Int
  BY DEF Queue, Shared
<1>2. IsFiniteSet(Shared(q)) /\ Cardinality(Shared(q)) = q.shared_in
  <2> DEFINE m == q.shared_in - 1
  <2>1. m \in Int /\ 0 \in Int /\ Shared(q) = 0 .. m
    BY <1>1
  <2>2. (0 > m => q.shared_in = 0) /\ (~(0 > m) => m - 0 + 1 = q.shared_in)
    BY <1>1
  <2> HIDE DEF m
  <2>3. IsFiniteSet(0 .. m) /\ Cardinality(0 .. m) = IF 0 > m THEN 0 ELSE m - 0 + 1
    BY <2>1, FS_Interval
  <2> QED
    BY <2>1, <2>2, <2>3
<1>3. E \in Injection(Shared(q), Nodes)
  BY DEF Entries, Injection, IsInjective
<1>4. Cardinality(Shared(q)) <= Cardinality(Nodes)
  BY <1>2, <1>3, NodesAre, FS_Injection
<1> QED
  BY <1>1, <1>2, <1>4, NodesAre DEF Nodes

\* What a record holds depends on the fields that say so.
LEMMA HeldSame ==
  ASSUME NEW r, NEW s, SameHeld(r, s)
  PROVE  /\ Buffer(r) = Buffer(s) /\ Pending(r) = Pending(s)
         /\ Waiting(r) = Waiting(s) /\ Reserved(r) = Reserved(s)
BY DEF SameHeld, Buffer, Pending, Waiting, Reserved

\* Steps that neither fill nor empty a buffer leave the entries alone.
LEMMA EntriesSame ==
  ASSUME NEW q, NEW tm, NEW tm2, NEW E, Entries(q, tm, E),
         \A t \in Threads : SameHeld(tm2[t], tm[t]) /\ BufferOK(tm2[t])
  PROVE  Entries(q, tm2, E) /\ NewEntries(q, tm2, E) = NewEntries(q, tm, E)
<1>1. \A t \in Threads : /\ Buffer(tm2[t]) = Buffer(tm[t]) /\ Pending(tm2[t]) = Pending(tm[t])
                         /\ Waiting(tm2[t]) = Waiting(tm[t]) /\ Reserved(tm2[t]) = Reserved(tm[t])
  BY HeldSame
<1>2. NewEntries(q, tm2, E) = NewEntries(q, tm, E)
  BY <1>1 DEF NewEntries
<1>3. \A t \in Threads : tm2[t].pc = "copy" =>
        /\ q.shared_out_end <= tm2[t].copy_start
        /\ tm2[t].copy_start + Len(tm2[t].local) <= q.shared_in
        /\ \A k \in 1 .. Len(tm2[t].local) : E[tm2[t].copy_start + k - 1] = tm2[t].local[k]
  BY DEF Entries, SameHeld
<1>4. /\ \A i \in Shared(q) : (\A t \in Threads : i \notin Reserved(tm2[t])) => q.shared[i] = E[i]
      /\ \A t \in Threads : \A i \in Shared(q) : E[i] \notin Waiting(tm2[t])
      /\ \A s, t \in Threads : s # t =>
           (Buffer(tm2[s]) \cup Pending(tm2[s])) \cap (Buffer(tm2[t]) \cup Pending(tm2[t])) = {}
  BY <1>1 DEF Entries
<1> QED
  BY <1>2, <1>3, <1>4 DEF Entries

\* The records that flush() makes, and the one after push_back.
Copying(r, n) == [r EXCEPT !.pc = "copy", !.copy_start = n]
Copied(r) == [r EXCEPT !.pc = IF r.pending = <<>> THEN "barrier" ELSE "loop",
                       !.local = r.pending, !.pending = <<>>]

\* A thread that has reserved its entries is about to copy.
LEMMA RecordFlush ==
  ASSUME NEW r \in Record, NEW n \in Nat
  PROVE  /\ Copying(r, n) \in Record /\ Copying(r, n).pc = "copy" /\ Copying(r, n).copy_start = n
         /\ Copying(r, n).local = r.local /\ Copying(r, n).pending = r.pending
         /\ Copying(r, n).todo = r.todo /\ Copying(r, n).u = r.u /\ Copying(r, n).v = r.v
BY DEF Record, Labels, Copying

\* A thread that has copied goes on with the vertex that did not fit.
LEMMA RecordCopy ==
  ASSUME NEW r \in Record
  PROVE  /\ Copied(r) \in Record /\ Copied(r).pc = IF r.pending = <<>> THEN "barrier" ELSE "loop"
         /\ Copied(r).local = r.pending /\ Copied(r).pending = <<>>
         /\ Copied(r).todo = r.todo /\ Copied(r).u = r.u /\ Copied(r).v = r.v
<1>1. <<>> \in Seq(Nodes)
  OBVIOUS
<1> QED
  BY <1>1 DEF Record, Labels, Copied

\* A thread that pushes a vertex has it in its buffer, or flushes first.
LEMMA RecordPushed ==
  ASSUME NEW r \in Record, NEW v \in Nodes
  PROVE  /\ Pushed(r, v) \in Record /\ Pushed(r, v).todo = r.todo
         /\ Pushed(r, v).u = r.u /\ Pushed(r, v).v = r.v
         /\ \/ /\ Pushed(r, v).pc = "flush" /\ Pushed(r, v).local = r.local
               /\ Pushed(r, v).pending = <<v>>
            \/ /\ Pushed(r, v).pc = "loop" /\ Pushed(r, v).local = Append(r.local, v)
               /\ Pushed(r, v).pending = r.pending
<1>1. <<v>> \in Seq(Nodes) /\ Append(r.local, v) \in Seq(Nodes)
  BY DEF Record
<1> QED
  BY <1>1 DEF Record, Labels, Pushed

\* After a push one vertex more is on its way to the queue.
Receives(q, tm, E, tm2, v) ==
  Entries(q, tm2, E) /\ NewEntries(q, tm2, E) = NewEntries(q, tm, E) \cup {v}

\* A vertex that is nowhere gets a place in the buffer of a thread.
LEMMA EntriesPush ==
  ASSUME NEW q \in Queue, NEW tm \in [Threads -> Record], NEW E, Entries(q, tm, E),
         NEW t \in Threads, NEW v \in Nodes, tm[t].pc \in {"loop", "cas"},
         v \notin OldEntries(q, E), v \notin NewEntries(q, tm, E)
  PROVE  Receives(q, tm, E, [tm EXCEPT ![t] = Pushed(tm[t], v)], v)
<1> DEFINE r == tm[t]
           p == Pushed(r, v)
           tm2 == [tm EXCEPT ![t] = p]
<1>1. r \in Record /\ r.local \in Seq(Nodes) /\ r.pending = <<>> /\ BufferOK(r)
  <2>1. r \in Record /\ BufferOK(r)
    BY DEF Entries
  <2> QED
    BY <2>1 DEF Record, BufferOK
<1>2. /\ p \in Record
      /\ \/ p.pc = "flush" /\ p.local = r.local /\ p.pending = <<v>>
         \/ p.pc = "loop" /\ p.local = Append(r.local, v) /\ p.pending = <<>>
  BY <1>1, RecordPushed
<1> HIDE DEF p
<1>3. tm2[t] = p /\ \A s \in Threads : s # t => tm2[s] = tm[s]
  OBVIOUS
<1>4. Waiting(r) = Buffer(r) /\ Buffer(r) = {r.local[k] : k \in 1 .. Len(r.local)} /\ Reserved(r) = {}
      /\ Held(r) = Buffer(r)
  BY <1>1 DEF Waiting, Pending, Buffer, Reserved, Held
<1>5. \A s \in Threads : Held(tm[s]) \subseteq Waiting(tm[s]) \/ tm[s].pc = "copy"
  BY DEF Waiting, Held
<1>6. \A i \in Shared(q) : E[i] # v
  <2> SUFFICES ASSUME NEW i \in Shared(q), E[i] = v PROVE FALSE
    OBVIOUS
  <2>1. i \in 0 .. q.shared_out_end - 1 \/ i \in q.shared_out_end .. q.shared_in - 1
    BY DEF Shared, Queue, Entries
  <2> QED
    BY <2>1 DEF OldEntries, NewEntries
<1>7. \A s \in Threads : v \notin Waiting(tm[s])
  BY DEF NewEntries
<1>8. \A s \in Threads : v \notin Held(tm[s])
  <2> SUFFICES ASSUME NEW s \in Threads, v \in Held(tm[s]) PROVE FALSE
    OBVIOUS
  <2>1. tm[s].pc = "copy" /\ v \in Buffer(tm[s])
    BY <1>7 DEF Waiting, Held
  <2>2. PICK k \in 1 .. Len(tm[s].local) : v = tm[s].local[k]
    BY <2>1 DEF Buffer
  <2>3. /\ E[tm[s].copy_start + k - 1] = tm[s].local[k]
        /\ q.shared_out_end <= tm[s].copy_start /\ tm[s].copy_start + Len(tm[s].local) <= q.shared_in
    BY <2>1 DEF Entries
  <2>4. tm[s].copy_start \in Nat /\ Len(tm[s].local) \in Nat
    BY DEF Record
  <2>5. tm[s].copy_start + k - 1 \in Shared(q)
    BY <2>3, <2>4 DEF Shared, Queue
  <2> QED
    BY <1>6, <2>2, <2>3, <2>5
<1>9. Buffer(p) \cup Pending(p) = Buffer(r) \cup {v} /\ BufferOK(p) /\ Waiting(p) = Buffer(r) \cup {v}
      /\ Reserved(p) = {}
  <2>1. CASE p.pc = "flush" /\ p.local = r.local /\ p.pending = <<v>>
    <3>1. Buffer(p) = Buffer(r)
      BY <2>1 DEF Buffer
    <3>2. Pending(p) = {v} /\ Len(p.pending) = 1
      BY <2>1 DEF Pending
    <3>3. v \notin Buffer(r)
      BY <1>4, <1>7
    <3> QED
      BY <1>1, <2>1, <3>1, <3>2, <3>3 DEF BufferOK, Waiting, Reserved
  <2>2. CASE p.pc = "loop" /\ p.local = Append(r.local, v) /\ p.pending = <<>>
    <3> DEFINE n == Len(r.local)
    <3>1. n \in Nat /\ Len(p.local) = n + 1 /\ p.local[n + 1] = v
          /\ \A k \in 1 .. n : p.local[k] = r.local[k]
      BY <1>1, <2>2
    <3>2. \A k \in 1 .. n : r.local[k] # v
      BY <1>4, <1>7
    <3>3. \A i, j \in 1 .. n : r.local[i] = r.local[j] => i = j
      BY <1>1 DEF BufferOK
    <3>4. \A k \in 1 .. n + 1 : k \in 1 .. n \/ k = n + 1
      BY <3>1
    <3>5. Buffer(p) = Buffer(r) \cup {v}
      <4>1. Buffer(p) = {p.local[k] : k \in 1 .. n + 1}
        BY <3>1 DEF Buffer
      <4> HIDE DEF n
      <4>2. n + 1 \in 1 .. n + 1 /\ \A k \in 1 .. n : k \in 1 .. n + 1
        BY <3>1
      <4> QED
        BY <1>4, <3>1, <3>4, <4>1, <4>2 DEF n
    <3>6. \A i, j \in 1 .. n + 1 : p.local[i] = p.local[j] => i = j
      <4> HIDE DEF n
      <4> QED
        BY <3>1, <3>2, <3>3, <3>4
    <3>7. Pending(p) = {} /\ Len(p.pending) = 0
      BY <2>2 DEF Pending
    <3> HIDE DEF n
    <3> QED
      BY <2>2, <3>1, <3>5, <3>6, <3>7 DEF BufferOK, Waiting, Reserved
  <2> QED
    BY <1>2, <2>1, <2>2
<1>10. NewEntries(q, tm2, E) = NewEntries(q, tm, E) \cup {v}
  <2> DEFINE A == UNION {Waiting(tm[s]) : s \in Threads}
             C == UNION {Waiting(tm2[s]) : s \in Threads}
  <2>1. C = A \cup {v}
    <3>1. \A s \in Threads : Waiting(tm2[s]) = IF s = t THEN Waiting(tm[s]) \cup {v} ELSE Waiting(tm[s])
      BY <1>3, <1>4, <1>9
    <3> HIDE DEF tm2
    <3> QED
      BY <3>1
  <2> QED
    BY <2>1 DEF NewEntries
<1>11. \A s \in Threads : BufferOK(tm2[s])
  BY <1>3, <1>9 DEF Entries
<1>12. \A s \in Threads : tm2[s].pc = "copy" => s # t /\ tm2[s] = tm[s]
  BY <1>2, <1>3
<1>13. \A i \in Shared(q) : (\A s \in Threads : i \notin Reserved(tm2[s])) => q.shared[i] = E[i]
  <2>1. \A s \in Threads : Reserved(tm2[s]) = Reserved(tm[s])
    BY <1>3, <1>4, <1>9
  <2> QED
    BY <2>1 DEF Entries
<1>14. \A s \in Threads : \A i \in Shared(q) : E[i] \notin Waiting(tm2[s])
  <2> SUFFICES ASSUME NEW s \in Threads, NEW i \in Shared(q), E[i] \in Waiting(tm2[s]) PROVE FALSE
    OBVIOUS
  <2>1. E[i] \notin Waiting(tm[s])
    BY DEF Entries
  <2> QED
    BY <1>3, <1>4, <1>6, <1>9, <2>1
<1>15. \A s, x \in Threads : s # x =>
         (Buffer(tm2[s]) \cup Pending(tm2[s])) \cap (Buffer(tm2[x]) \cup Pending(tm2[x])) = {}
  <2>1. \A s, x \in Threads : s # x => Held(tm[s]) \cap Held(tm[x]) = {}
    BY DEF Entries, Held
  <2>2. \A s \in Threads : Held(tm2[s]) = IF s = t THEN Held(tm[s]) \cup {v} ELSE Held(tm[s])
    BY <1>3, <1>4, <1>9 DEF Held
  <2> HIDE DEF tm2
  <2>3. \A s, x \in Threads : s # x => Held(tm2[s]) \cap Held(tm2[x]) = {}
    BY <1>8, <2>1, <2>2, ZenonT(60)
  <2> QED
    BY <2>3 DEF Held
<1>16. \A s \in Threads : tm2[s].pc = "copy" =>
        /\ q.shared_out_end <= tm2[s].copy_start
        /\ tm2[s].copy_start + Len(tm2[s].local) <= q.shared_in
        /\ \A k \in 1 .. Len(tm2[s].local) : E[tm2[s].copy_start + k - 1] = tm2[s].local[k]
  BY <1>12 DEF Entries
<1> HIDE DEF tm2
<1>17. Entries(q, tm2, E)
  BY <1>11, <1>13, <1>14, <1>15, <1>16 DEF Entries
<1> QED
  BY <1>10, <1>17 DEF tm2, p, Receives

\* F has the entries of E and more, and the vertices are the same.
Extends(q, tm, E, q2, tm2, F) ==
  /\ Entries(q2, tm2, F) /\ \A i \in Shared(q) : F[i] = E[i]
  /\ NewEntries(q2, tm2, F) = NewEntries(q, tm, E)

\* Reserving space gives the vertices of a buffer their entries.
LEMMA EntriesFlush ==
  ASSUME NEW q \in Queue, NEW tm \in [Threads -> Record], NEW E, Entries(q, tm, E),
         NEW t \in Threads, tm[t].pc = "flush",
         NEW q2, q2 = ReserveSpace(q, Len(tm[t].local)),
         NEW tm2, tm2 = [tm EXCEPT ![t] = Copying(tm[t], q.shared_in)]
  PROVE  \E F : Extends(q, tm, E, q2, tm2, F)
<1> DEFINE r == tm[t]
           n == Len(r.local)
           m == q.shared_in
           p == Copying(r, m)
           F == [i \in Shared(q2) |-> IF i < m THEN E[i] ELSE r.local[i - m + 1]]
<1>1. /\ r \in Record /\ r.local \in Seq(Nodes) /\ n \in Nat /\ m \in Nat
      /\ \A k \in 1 .. n : r.local[k] \in Nodes
      /\ BufferOK(r)
  BY DEF Record, Queue, Entries
<1>2. /\ q2.shared_in = m + n /\ q2.shared_out_start = q.shared_out_start
      /\ q2.shared_out_end = q.shared_out_end /\ q2.shared = q.shared
  BY <1>1 DEF Queue, ReserveSpace
<1>3. Shared(q) = 0 .. m - 1 /\ Shared(q2) = 0 .. m + n - 1
  BY <1>1, <1>2 DEF Shared
<1>4. /\ p \in Record /\ p.pc = "copy" /\ p.copy_start = m /\ p.local = r.local /\ p.pending = r.pending
  BY <1>1, RecordFlush
<1>5. tm2[t] = p /\ \A s \in Threads : s # t => tm2[s] = tm[s]
  OBVIOUS
<1> HIDE DEF p
<1>6. /\ Buffer(p) = Buffer(r) /\ Pending(p) = Pending(r) /\ BufferOK(p)
      /\ Waiting(r) = Pending(r) \cup Buffer(r) /\ Waiting(p) = Pending(r)
      /\ Reserved(r) = {} /\ Reserved(p) = m .. m + n - 1
  <2>1. Buffer(p) = Buffer(r) /\ Pending(p) = Pending(r)
    BY <1>4 DEF Buffer, Pending
  <2>2. BufferOK(p)
    BY <1>1, <1>4, <2>1 DEF BufferOK
  <2> QED
    BY <1>1, <1>4, <2>1, <2>2 DEF Waiting, Reserved
<1>7. \A i \in Shared(q2) : \/ i \in Shared(q) /\ F[i] = E[i]
                            \/ i \in m .. m + n - 1 /\ i - m + 1 \in 1 .. n /\ F[i] = r.local[i - m + 1]
  <2> SUFFICES ASSUME NEW i \in Shared(q2)
               PROVE  \/ i \in Shared(q) /\ F[i] = E[i]
                      \/ i \in m .. m + n - 1 /\ i - m + 1 \in 1 .. n /\ F[i] = r.local[i - m + 1]
    OBVIOUS
  <2>1. F[i] = IF i < m THEN E[i] ELSE r.local[i - m + 1]
    OBVIOUS
  <2> HIDE DEF F
  <2>2. i \in 0 .. m + n - 1
    BY <1>3
  <2> HIDE DEF m, n
  <2>3. CASE i < m
    BY <1>1, <1>3, <2>1, <2>2, <2>3
  <2>4. CASE ~(i < m)
    BY <1>1, <1>3, <2>1, <2>2, <2>4
  <2> QED
    BY <2>3, <2>4
<1>8. \A i \in Shared(q) : i \in Shared(q2) /\ F[i] = E[i]
  <2> SUFFICES ASSUME NEW i \in Shared(q) PROVE i \in Shared(q2) /\ F[i] = E[i]
    OBVIOUS
  <2>1. i \in Shared(q2) /\ i < m
    BY <1>1, <1>3
  <2> QED
    BY <2>1
<1>9. \A k \in 1 .. n : m + k - 1 \in Shared(q2) /\ F[m + k - 1] = r.local[k]
  <2> SUFFICES ASSUME NEW k \in 1 .. n PROVE m + k - 1 \in Shared(q2) /\ F[m + k - 1] = r.local[k]
    OBVIOUS
  <2> DEFINE i == m + k - 1
  <2>1. i \in Shared(q2) /\ ~(i < m) /\ i - m + 1 = k
    BY <1>1, <1>3
  <2>2. F[i] = IF i < m THEN E[i] ELSE r.local[i - m + 1]
    BY <2>1
  <2> QED
    BY <2>1, <2>2
<1>10. F \in [Shared(q2) -> Nodes]
  <2>1. F = [i \in Shared(q2) |-> F[i]]
    OBVIOUS
  <2>2. \A i \in Shared(q2) : F[i] \in Nodes
    <3> HIDE DEF F
    <3>1. \A i \in Shared(q) : E[i] \in Nodes
      BY DEF Entries
    <3> QED
      BY <1>1, <1>7, <3>1
  <2> HIDE DEF F
  <2> QED
    BY <2>1, <2>2
<1> HIDE DEF F
<1>11. \A i \in Shared(q) : E[i] \notin Buffer(r) /\ E[i] \notin Pending(r)
  BY <1>6 DEF Entries
<1>12. \A k \in 1 .. n : r.local[k] \in Buffer(r)
  BY DEF Buffer
<1>13. \A i, j \in Shared(q2) : F[i] = F[j] => i = j
  <2> SUFFICES ASSUME NEW i \in Shared(q2), NEW j \in Shared(q2), F[i] = F[j] PROVE i = j
    OBVIOUS
  <2>1. CASE i \in Shared(q) /\ j \in Shared(q)
    BY <1>8, <2>1 DEF Entries
  <2>2. CASE i \in Shared(q) /\ j \notin Shared(q)
    BY <1>7, <1>8, <1>11, <1>12, <2>2
  <2>3. CASE i \notin Shared(q) /\ j \in Shared(q)
    BY <1>7, <1>8, <1>11, <1>12, <2>3
  <2>4. CASE i \notin Shared(q) /\ j \notin Shared(q)
    <3>1. /\ i \in Int /\ i - m + 1 \in 1 .. n /\ F[i] = r.local[i - m + 1]
          /\ j \in Int /\ j - m + 1 \in 1 .. n /\ F[j] = r.local[j - m + 1]
      BY <1>1, <1>7, <2>4
    <3>2. i - m + 1 = j - m + 1
      BY <1>1, <3>1 DEF BufferOK
    <3> QED
      BY <1>1, <3>1, <3>2
  <2> QED
    BY <2>1, <2>2, <2>3, <2>4
<1>14. NewEntries(q2, tm2, F) = NewEntries(q, tm, E)
  <2> DEFINE a == q.shared_out_end
             W == UNION {Waiting(tm[s]) : s \in Threads}
             W2 == UNION {Waiting(tm2[s]) : s \in Threads}
             X == {E[i] : i \in a .. m - 1}
             X2 == {F[i] : i \in a .. m + n - 1}
  <2>0. a \in Nat /\ a <= m
    BY DEF Entries, Queue
  <2>1. W = W2 \cup Buffer(r)
    <3>1. \A s \in Threads : Waiting(tm[s]) = IF s = t THEN Waiting(tm2[s]) \cup Buffer(r) ELSE Waiting(tm2[s])
      BY <1>5, <1>6
    <3> QED
      BY <3>1
  <2>2. X2 = X \cup Buffer(r)
    <3>1. ASSUME NEW i \in a .. m + n - 1 PROVE F[i] \in X \cup Buffer(r)
      <4>1. i \in Shared(q2)
        BY <1>1, <1>3, <2>0
      <4>2. CASE i \in Shared(q) /\ F[i] = E[i]
        <5>1. i \in a .. m - 1
          BY <1>1, <1>3, <2>0, <4>2
        <5> QED
          BY <4>2, <5>1
      <4>3. CASE i - m + 1 \in 1 .. n /\ F[i] = r.local[i - m + 1]
        BY <1>12, <4>3
      <4> QED
        BY <1>7, <4>1, <4>2, <4>3
    <3>2. ASSUME NEW i \in a .. m - 1 PROVE E[i] \in X2
      <4>1. i \in Shared(q) /\ i \in a .. m + n - 1
        BY <1>1, <1>3, <2>0
      <4> QED
        BY <1>8, <4>1
    <3>3. ASSUME NEW k \in 1 .. n PROVE r.local[k] \in X2
      <4>1. m + k - 1 \in a .. m + n - 1
        BY <1>1, <2>0
      <4> QED
        BY <1>9, <4>1
    <3>4. Buffer(r) \subseteq X2
      BY <3>3 DEF Buffer
    <3> QED
      BY <3>1, <3>2, <3>4
  <2>3. NewEntries(q, tm, E) = X \cup W
    BY DEF NewEntries
  <2>4. NewEntries(q2, tm2, F) = X2 \cup W2
    <3>1. q2.shared_in - 1 = m + n - 1 /\ q2.shared_out_end = a
      BY <1>1, <1>2
    <3> QED
      BY <3>1 DEF NewEntries
  <2> HIDE DEF W, W2, X, X2
  <2> QED
    BY <2>1, <2>2, <2>3, <2>4
<1>15. \A s \in Threads : BufferOK(tm2[s])
  BY <1>5, <1>6 DEF Entries
<1>16. q2.shared_out_start <= q2.shared_out_end /\ q2.shared_out_end <= q2.shared_in
  BY <1>1, <1>2 DEF Entries, Queue
<1>17. \A s \in Threads : tm2[s].pc = "copy" =>
        /\ q2.shared_out_end <= tm2[s].copy_start
        /\ tm2[s].copy_start + Len(tm2[s].local) <= q2.shared_in
        /\ \A k \in 1 .. Len(tm2[s].local) : F[tm2[s].copy_start + k - 1] = tm2[s].local[k]
  <2> SUFFICES ASSUME NEW s \in Threads, tm2[s].pc = "copy"
               PROVE  /\ q2.shared_out_end <= tm2[s].copy_start
                      /\ tm2[s].copy_start + Len(tm2[s].local) <= q2.shared_in
                      /\ \A k \in 1 .. Len(tm2[s].local) : F[tm2[s].copy_start + k - 1] = tm2[s].local[k]
    OBVIOUS
  <2>1. CASE s = t
    <3>1. q.shared_out_end <= m
      BY DEF Entries
    <3>2. tm2[s].copy_start = m /\ tm2[s].local = r.local
      BY <1>4, <1>5, <2>1
    <3> HIDE DEF m, r
    <3> QED
      BY ONLY <1>1, <1>2, <1>9, <3>1, <3>2
  <2>2. CASE s # t
    <3>1. tm2[s] = tm[s] /\ tm[s].pc = "copy"
      BY <1>5, <2>2
    <3>2. tm[s].copy_start \in Nat /\ Len(tm[s].local) \in Nat /\ q.shared_out_end \in Nat
      BY DEF Record, Queue
    <3>3. /\ q.shared_out_end <= tm[s].copy_start
          /\ tm[s].copy_start + Len(tm[s].local) <= m
          /\ \A k \in 1 .. Len(tm[s].local) : E[tm[s].copy_start + k - 1] = tm[s].local[k]
      BY <3>1 DEF Entries
    <3>4. \A k \in 1 .. Len(tm[s].local) : tm[s].copy_start + k - 1 \in Shared(q)
      BY <1>1, <1>3, <3>2, <3>3
    <3>5. \A k \in 1 .. Len(tm[s].local) : F[tm[s].copy_start + k - 1] = tm[s].local[k]
      BY <1>8, <3>3, <3>4
    <3>6. tm[s].copy_start + Len(tm[s].local) <= m + n
      BY <1>1, <3>2, <3>3
    <3> QED
      BY <1>2, <3>1, <3>3, <3>5, <3>6
  <2> QED
    BY <2>1, <2>2
<1>18. \A i \in Shared(q2) : (\A s \in Threads : i \notin Reserved(tm2[s])) => q2.shared[i] = F[i]
  <2> SUFFICES ASSUME NEW i \in Shared(q2), \A s \in Threads : i \notin Reserved(tm2[s])
               PROVE  q2.shared[i] = F[i]
    OBVIOUS
  <2>1. i \in Shared(q) /\ F[i] = E[i]
    BY <1>5, <1>6, <1>7
  <2>2. \A s \in Threads : i \notin Reserved(tm[s])
    BY <1>5, <1>6
  <2> QED
    BY <1>2, <2>1, <2>2 DEF Entries
<1>19. \A s \in Threads : \A i \in Shared(q2) : F[i] \notin Waiting(tm2[s])
  <2> SUFFICES ASSUME NEW s \in Threads, NEW i \in Shared(q2), F[i] \in Waiting(tm2[s]) PROVE FALSE
    OBVIOUS
  <2>1. Waiting(tm2[s]) \subseteq Waiting(tm[s])
    BY <1>5, <1>6
  <2>2. i \notin Shared(q)
    BY <1>8, <2>1 DEF Entries
  <2>3. F[i] \in Buffer(r)
    BY <1>7, <1>12, <2>2
  <2>4. CASE s = t
    BY <1>1, <1>5, <1>6, <2>3, <2>4 DEF BufferOK
  <2>5. CASE s # t
    <3>1. F[i] \in Buffer(tm[s]) \cup Pending(tm[s])
      BY <2>1 DEF Waiting
    <3> QED
      BY <2>3, <2>5, <3>1 DEF Entries
  <2> QED
    BY <2>4, <2>5
<1>20. \A s, x \in Threads : s # x =>
         (Buffer(tm2[s]) \cup Pending(tm2[s])) \cap (Buffer(tm2[x]) \cup Pending(tm2[x])) = {}
  <2>1. \A s \in Threads : Buffer(tm2[s]) = Buffer(tm[s]) /\ Pending(tm2[s]) = Pending(tm[s])
    BY <1>5, <1>6
  <2> QED
    BY <2>1 DEF Entries
<1>21. Entries(q2, tm2, F)
  BY <1>10, <1>13, <1>15, <1>16, <1>17, <1>18, <1>19, <1>20 DEF Entries
<1>22. Extends(q, tm, E, q2, tm2, F)
  BY <1>8, <1>14, <1>21 DEF Extends
<1> QED
  BY <1>22

\* Copying a buffer fills its entries.
LEMMA EntriesCopy ==
  ASSUME NEW q \in Queue, NEW tm \in [Threads -> Record], NEW E, Entries(q, tm, E),
         NEW t \in Threads, tm[t].pc = "copy"
  PROVE  LET r == tm[t]
             q2 == CopyToShared(q, r.local, r.copy_start)
             tm2 == [tm EXCEPT ![t] = Copied(r)] IN
         /\ q2 \in Queue /\ q2.shared_in = q.shared_in
         /\ q2.shared_out_start = q.shared_out_start /\ q2.shared_out_end = q.shared_out_end
         /\ Entries(q2, tm2, E) /\ NewEntries(q2, tm2, E) = NewEntries(q, tm, E)
<1> DEFINE r == tm[t]
           n == Len(r.local)
           c == r.copy_start
           q2 == CopyToShared(q, r.local, c)
           p == Copied(r)
           tm2 == [tm EXCEPT ![t] = p]
           entry(i) == IF i - c \in 0 .. n - 1 THEN r.local[i - c + 1] ELSE q.shared[i]
<1>1. /\ r \in Record /\ r.local \in Seq(Nodes) /\ n \in Nat /\ c \in Nat
      /\ \A k \in 1 .. n : r.local[k] \in Nodes
      /\ BufferOK(r)
  BY DEF Record, Entries
<1>2. /\ q2.shared_in = q.shared_in /\ q2.shared_out_start = q.shared_out_start
      /\ q2.shared_out_end = q.shared_out_end
      /\ q2.shared = [i \in Nodes |-> entry(i)]
  BY DEF Queue, CopyToShared
<1>3. q2 \in Queue
  <2>1. \A i \in Nodes : entry(i) \in Nodes \cup {Unset}
    <3> SUFFICES ASSUME NEW i \in Nodes PROVE entry(i) \in Nodes \cup {Unset}
      OBVIOUS
    <3>1. CASE i - c \in 0 .. n - 1
      <4>1. i - c + 1 \in 1 .. n
        BY <1>1, <3>1, NodesAre
      <4> QED
        BY <1>1, <3>1, <4>1
    <3>2. CASE i - c \notin 0 .. n - 1
      BY <3>2 DEF Queue
    <3> QED
      BY <3>1, <3>2
  <2>2. q2.shared \in [Nodes -> Nodes \cup {Unset}]
    <3> HIDE DEF entry, q2
    <3> QED
      BY <1>2, <2>1
  <2>3. q2 = [q EXCEPT !.shared = q2.shared]
    BY DEF CopyToShared, Queue
  <2> HIDE DEF q2
  <2> QED
    BY <2>2, <2>3 DEF Queue
<1>4. /\ p \in Record /\ p.pc # "copy" /\ p.pc # "flush" /\ p.local = r.pending /\ p.pending = <<>>
      /\ (p.pc = "barrier" => p.local = <<>>)
  BY <1>1, RecordCopy
<1> HIDE DEF p
<1>5. tm2[t] = p /\ \A s \in Threads : s # t => tm2[s] = tm[s]
  OBVIOUS
<1> HIDE DEF tm2
<1>6. /\ Buffer(p) = Pending(r) /\ Pending(p) = {} /\ BufferOK(p)
      /\ Waiting(r) = Pending(r) /\ Waiting(p) = Pending(r)
      /\ Reserved(r) = c .. c + n - 1 /\ Reserved(p) = {}
  <2>1. Buffer(p) = Pending(r) /\ Pending(p) = {}
    BY <1>4 DEF Buffer, Pending
  <2>2. \A i, j \in 1 .. Len(r.pending) : i = j
    <3>1. Len(r.pending) \in Nat /\ Len(r.pending) <= 1
      BY <1>1 DEF BufferOK, Record
    <3> QED
      BY <3>1
  <2>3. Len(p.pending) = 0
    BY <1>4
  <2>4. BufferOK(p)
    BY <1>4, <2>1, <2>2, <2>3 DEF BufferOK
  <2> QED
    BY <1>1, <1>4, <2>1, <2>4 DEF Waiting, Reserved
<1>7. /\ q.shared_out_end <= c /\ c + n <= q.shared_in
      /\ \A k \in 1 .. n : E[c + k - 1] = r.local[k]
  BY DEF Entries
<1>8. Shared(q2) = Shared(q) /\ Shared(q) \subseteq Nodes
  BY <1>2, EntriesFit DEF Shared
<1>9. NewEntries(q2, tm2, E) = NewEntries(q, tm, E)
  <2>1. \A s \in Threads : Waiting(tm2[s]) = Waiting(tm[s])
    BY <1>5, <1>6
  <2> HIDE DEF q2
  <2> QED
    BY <1>2, <2>1 DEF NewEntries
<1>10. \A s \in Threads : BufferOK(tm2[s])
  BY <1>5, <1>6 DEF Entries
<1>11. \A s \in Threads : tm2[s].pc = "copy" =>
        /\ q2.shared_out_end <= tm2[s].copy_start
        /\ tm2[s].copy_start + Len(tm2[s].local) <= q2.shared_in
        /\ \A k \in 1 .. Len(tm2[s].local) : E[tm2[s].copy_start + k - 1] = tm2[s].local[k]
  <2>1. \A s \in Threads : tm2[s].pc = "copy" => tm2[s] = tm[s]
    BY <1>4, <1>5
  <2> HIDE DEF q2
  <2> QED
    BY <1>2, <2>1 DEF Entries
<1>12. \A i \in Shared(q2) : (\A s \in Threads : i \notin Reserved(tm2[s])) => q2.shared[i] = E[i]
  <2> SUFFICES ASSUME NEW i \in Shared(q2), \A s \in Threads : i \notin Reserved(tm2[s])
               PROVE  entry(i) = E[i]
    <3> HIDE DEF entry, q2
    <3> QED
      BY <1>2, <1>8
  <2>0. i \in Nat /\ i \in Shared(q)
    BY <1>8, NodesAre
  <2>1. CASE i - c \in 0 .. n - 1
    <3>1. i - c + 1 \in 1 .. n /\ c + (i - c + 1) - 1 = i
      BY <1>1, <2>0, <2>1
    <3> DEFINE k == i - c + 1
    <3>2. k \in 1 .. n /\ c + k - 1 = i /\ entry(i) = r.local[k]
      BY <2>1, <3>1
    <3> HIDE DEF k, entry
    <3> QED
      BY <1>7, <3>2
  <2>2. CASE i - c \notin 0 .. n - 1
    <3>1. i \notin c .. c + n - 1
      BY <1>1, <2>0, <2>2
    <3>2. \A s \in Threads : i \notin Reserved(tm[s])
      BY <1>5, <1>6, <3>1
    <3>3. q.shared[i] = E[i]
      BY <2>0, <3>2 DEF Entries
    <3> QED
      BY <2>2, <3>3
  <2> QED
    BY <2>1, <2>2
<1>13. \A s \in Threads : \A i \in Shared(q2) : E[i] \notin Waiting(tm2[s])
  BY <1>5, <1>6, <1>8 DEF Entries
<1>14. \A s, x \in Threads : s # x =>
         (Buffer(tm2[s]) \cup Pending(tm2[s])) \cap (Buffer(tm2[x]) \cup Pending(tm2[x])) = {}
  <2>1. \A s \in Threads : Buffer(tm2[s]) \cup Pending(tm2[s]) \subseteq Buffer(tm[s]) \cup Pending(tm[s])
    BY <1>5, <1>6
  <2>2. \A s, x \in Threads : s # x =>
         (Buffer(tm[s]) \cup Pending(tm[s])) \cap (Buffer(tm[x]) \cup Pending(tm[x])) = {}
    BY DEF Entries
  <2> QED
    BY <2>1, <2>2
<1>15. Entries(q2, tm2, E)
  <2> HIDE DEF q2
  <2>1. E \in [Shared(q2) -> Nodes] /\ \A i, j \in Shared(q2) : E[i] = E[j] => i = j
    BY <1>8 DEF Entries
  <2>2. q2.shared_out_start <= q2.shared_out_end /\ q2.shared_out_end <= q2.shared_in
    BY <1>2 DEF Entries
  <2> QED
    BY <2>1, <2>2, <1>10, <1>11, <1>12, <1>13, <1>14 DEF Entries
<1> HIDE DEF q2
<1>16. /\ q2 \in Queue /\ q2.shared_in = q.shared_in
       /\ q2.shared_out_start = q.shared_out_start /\ q2.shared_out_end = q.shared_out_end
       /\ Entries(q2, tm2, E) /\ NewEntries(q2, tm2, E) = NewEntries(q, tm, E)
  BY <1>2, <1>3, <1>9, <1>15
<1> QED
  BY <1>16 DEF q2, tm2, p

\* The team at the start of a loop.
Rest == [t \in Threads |-> AtLoop]

\* A thread at the top of a loop holds nothing.
LEMMA RestIs ==
  /\ Rest \in [Threads -> Record]
  /\ \A t \in Threads : /\ Rest[t] = AtLoop /\ Rest[t].pc = "loop" /\ Rest[t].todo = {}
                        /\ Rest[t].local = <<>> /\ Rest[t].pending = <<>> /\ BufferOK(Rest[t])
                        /\ Waiting(Rest[t]) = {} /\ ~Leaving(Rest[t])
<1>1. AtLoop \in Record
  <2>1. <<>> \in Seq(Nodes) /\ 0 \in Nodes /\ 0 \in Nat /\ 0 \in Int
    BY NodesAre
  <2> QED
    BY <2>1 DEF AtLoop, Record, Labels
<1>2. /\ AtLoop.pc = "loop" /\ AtLoop.todo = {} /\ AtLoop.local = <<>> /\ AtLoop.pending = <<>>
  BY DEF AtLoop
<1>3. Buffer(AtLoop) = {} /\ Pending(AtLoop) = {} /\ Len(AtLoop.pending) = 0 /\ Len(AtLoop.local) = 0
  BY <1>2 DEF Buffer, Pending
<1>4. BufferOK(AtLoop) /\ Waiting(AtLoop) = {} /\ ~Leaving(AtLoop)
  BY <1>2, <1>3 DEF BufferOK, Waiting, Leaving
<1> QED
  BY <1>1, <1>2, <1>4 DEF Rest

\* A loop begins with empty buffers.
LEMMA EntriesRest ==
  ASSUME NEW q, NEW tm, NEW E, Entries(q, tm, E),
         \A t \in Threads : tm[t].local = <<>> /\ tm[t].pc \notin {"flush", "copy"}
  PROVE  /\ Entries(q, Rest, E) /\ NewEntries(q, Rest, E) = NewEntries(q, tm, E)
         /\ NewEntries(q, Rest, E) = {E[i] : i \in q.shared_out_end .. q.shared_in - 1}
<1>1. \A t \in Threads : tm[t].pending = <<>>
  BY DEF Entries, BufferOK
<1>2. \A t \in Threads : SameHeld(Rest[t], tm[t]) /\ BufferOK(Rest[t])
  BY <1>1, RestIs DEF SameHeld
<1>3. NewEntries(q, Rest, E) = {E[i] : i \in q.shared_out_end .. q.shared_in - 1}
  BY RestIs DEF NewEntries
<1> QED
  BY <1>2, <1>3, EntriesSame

\* A loop ends with the new entries for its window.
LEMMA EntriesSlide ==
  ASSUME NEW q \in Queue, NEW tm, NEW E, Entries(q, tm, E),
         \A t \in Threads : tm[t].pc = "barrier"
  PROVE  LET q2 == slide_window(q) IN
         /\ q2 \in Queue /\ q2.shared_out_end = q2.shared_in
         /\ Entries(q2, Rest, E) /\ WindowEntries(q2, E) = NewEntries(q, tm, E)
         /\ OldEntries(q2, E) = OldEntries(q, E) \cup NewEntries(q, tm, E)
<1> DEFINE q2 == slide_window(q)
<1>1. \A t \in Threads : tm[t].local = <<>>
  BY DEF Entries, BufferOK
<1>2. /\ Entries(q, Rest, E) /\ NewEntries(q, Rest, E) = NewEntries(q, tm, E)
      /\ NewEntries(q, Rest, E) = {E[i] : i \in q.shared_out_end .. q.shared_in - 1}
  BY <1>1, EntriesRest
<1>3. /\ q2 \in Queue /\ q2.shared_out_start = q.shared_out_end /\ q2.shared_out_end = q.shared_in
      /\ q2.shared_in = q.shared_in /\ q2.shared = q.shared
  BY DEF Queue, slide_window
<1> HIDE DEF q2
<1>4. Shared(q2) = Shared(q) /\ q.shared_in \in Nat /\ q.shared_out_end \in Nat
      /\ q.shared_out_end <= q.shared_in
  BY <1>3 DEF Shared, Queue, Entries
<1>5. Entries(q2, Rest, E)
  BY <1>2, <1>3, <1>4, RestIs DEF Entries
<1>6. WindowEntries(q2, E) = NewEntries(q, tm, E)
  BY <1>2, <1>3 DEF WindowEntries, WindowPositions
<1>7. OldEntries(q2, E) = OldEntries(q, E) \cup NewEntries(q, tm, E)
  <2>1. \A i : i \in 0 .. q.shared_in - 1
               <=> i \in 0 .. q.shared_out_end - 1 \/ i \in q.shared_out_end .. q.shared_in - 1
    BY <1>4
  <2>2. OldEntries(q2, E) = {E[i] : i \in 0 .. q.shared_in - 1}
    BY <1>3 DEF OldEntries
  <2> QED
    BY <1>2, <2>1, <2>2, ZenonT(60) DEF OldEntries
<1> QED
  BY <1>3, <1>5, <1>6, <1>7 DEF q2

\* What a thread reads from the window was written before.
LEMMA WindowRead ==
  ASSUME NEW q \in Queue, NEW tm \in [Threads -> Record], NEW E, Entries(q, tm, E)
  PROVE  /\ \A i \in WindowPositions(q) : /\ i \in Shared(q) /\ q.shared[i] = E[i] /\ E[i] \in Nodes
                                          /\ E[i] \in WindowEntries(q, E)
         /\ Window(q) = WindowEntries(q, E)
<1>1. ASSUME NEW i \in WindowPositions(q)
      PROVE  i \in Shared(q) /\ q.shared[i] = E[i] /\ E[i] \in Nodes /\ E[i] \in WindowEntries(q, E)
  <2>1. i \in Shared(q) /\ i \in Nat /\ i < q.shared_out_end
    BY DEF WindowPositions, Shared, Queue, Entries
  <2>2. ASSUME NEW t \in Threads, i \in Reserved(tm[t]) PROVE FALSE
    <3>1. tm[t].pc = "copy" /\ i \in tm[t].copy_start .. tm[t].copy_start + Len(tm[t].local) - 1
      BY <2>2 DEF Reserved
    <3>2. q.shared_out_end <= tm[t].copy_start /\ q.shared_out_end \in Nat
      BY <3>1 DEF Entries, Queue
    <3>3. i >= tm[t].copy_start /\ tm[t].copy_start \in Nat
      BY <3>1 DEF Record
    <3> QED
      BY <2>1, <3>2, <3>3
  <2>3. q.shared[i] = E[i]
    BY <2>1, <2>2 DEF Entries
  <2> QED
    BY <2>1, <2>3 DEF Entries, WindowEntries
<1> QED
  BY <1>1 DEF Window, WindowEntries

\* The search begins with one entry.
LEMMA EntriesInit ==
  ASSUME NEW v \in Nodes
  PROVE  LET q == slide_window(push_back(NewQueue(num_nodes), v))
             E == [i \in Shared(q) |-> v] IN
         /\ q \in Queue /\ q.shared_out_end = q.shared_in
         /\ Entries(q, Rest, E) /\ WindowEntries(q, E) = {v} /\ OldEntries(q, E) = {v}
<1> DEFINE p == push_back(NewQueue(num_nodes), v)
           q == slide_window(p)
           E == [i \in Shared(q) |-> v]
<1> DEFINE e == NewQueue(num_nodes)
<1>1. /\ e \in Queue /\ e.shared_in = 0 /\ e.shared_out_start = 0 /\ e.shared_out_end = 0
      /\ 0 \in Nodes
  BY NodesAre DEF NewQueue, Nodes, Queue
<1> HIDE DEF e
<1>2. /\ p \in Queue /\ p.shared_in = 1 /\ p.shared_out_start = 0 /\ p.shared_out_end = 0
      /\ p.shared[0] = v
  <2>1. p = [e EXCEPT !.shared[0] = v, !.shared_in = e.shared_in + 1]
    BY <1>1 DEF push_back, e
  <2>2. p.shared = [e.shared EXCEPT ![0] = v] /\ p.shared_in = e.shared_in + 1
        /\ p.shared_out_start = e.shared_out_start /\ p.shared_out_end = e.shared_out_end
        /\ p = [shared |-> p.shared, shared_in |-> p.shared_in,
                shared_out_start |-> p.shared_out_start, shared_out_end |-> p.shared_out_end]
    BY <1>1, <2>1 DEF Queue
  <2>3. p.shared \in [Nodes -> Nodes \cup {Unset}] /\ p.shared[0] = v
    BY <1>1, <2>2 DEF Queue
  <2> HIDE DEF p
  <2> QED
    BY <1>1, <2>2, <2>3 DEF Queue
<1> HIDE DEF p
<1>4. /\ q \in Queue /\ q.shared_out_end = 1 /\ q.shared_in = 1 /\ q.shared_out_start = 0
      /\ q.shared[0] = v
  BY <1>2 DEF slide_window, Queue
<1> HIDE DEF q
<1>5. 0 .. 1 - 1 = {0} /\ Shared(q) = {0}
  BY <1>4 DEF Shared
<1>6. E \in [Shared(q) -> Nodes] /\ E[0] = v
  BY <1>5
<1> HIDE DEF E
<1>7. WindowEntries(q, E) = {v} /\ OldEntries(q, E) = {v}
  BY <1>4, <1>5, <1>6 DEF WindowEntries, WindowPositions, OldEntries
<1>8. \A t \in Threads : Buffer(Rest[t]) = {} /\ Pending(Rest[t]) = {}
  BY RestIs DEF Waiting
<1>9. Entries(q, Rest, E)
  BY <1>4, <1>5, <1>6, <1>8, RestIs DEF Entries
<1> QED
  BY <1>4, <1>7, <1>9 DEF q, E, p, e

-----------------------------------------------------------------------------
(***************************************************************************)
(* Chunks and words.                                                        *)
(***************************************************************************)
\* A set of vertices has a first one.
LEMMA MinIs ==
  ASSUME NEW S \in SUBSET Nat, S # {}
  PROVE  Min(S) \in S /\ \A y \in S : Min(S) <= y
<1> DEFINE D == {n \in Nat : (\E y \in S : y <= n) => \E x \in S : \A y \in S : x <= y}
<1>1. 0 \in D
  OBVIOUS
<1>2. \A n \in Nat : n \in D => n + 1 \in D
  <2> SUFFICES ASSUME NEW n \in Nat, n \in D, NEW z \in S, z <= n + 1
               PROVE  \E x \in S : \A y \in S : x <= y
    OBVIOUS
  <2>1. CASE \E y \in S : y <= n
    BY <2>1
  <2>2. CASE \A y \in S : ~(y <= n)
    <3>1. \A y \in S : z <= y
      BY <2>2
    <3> QED
      BY <3>1
  <2> QED
    BY <2>1, <2>2
<1> HIDE DEF D
<1>3. \A n \in Nat : n \in D
  BY <1>1, <1>2, Induction
<1>4. PICK z \in S : TRUE
  OBVIOUS
<1>5. z \in D /\ z <= z /\ z \in Nat
  BY <1>3
<1>6. \E x \in S : \A y \in S : x <= y
  BY <1>5 DEF D
<1> QED
  BY <1>6 DEF Min

\* Quotient and remainder.
LEMMA DivModOf ==
  ASSUME NEW b \in Nat \ {0}, NEW n \in Nat
  PROVE  n \div b \in Nat /\ n % b \in 0 .. b - 1 /\ n = b * (n \div b) + (n % b)
OBVIOUS

\* The vertices before a multiple of b are in other words than those after it.
LEMMA DivApart ==
  ASSUME NEW b \in Nat \ {0}, NEW k \in Nat, NEW x \in Nat, NEW y \in Nat, x < b * k, b * k <= y
  PROVE  x \div b # y \div b
<1> DEFINE p == x \div b
           q == y \div b
<1>1. /\ p \in Nat /\ q \in Nat /\ x % b \in 0 .. b - 1 /\ y % b \in 0 .. b - 1
      /\ x = b * p + (x % b) /\ y = b * q + (y % b)
  BY DivModOf
<1> SUFFICES ASSUME p = q PROVE FALSE
  OBVIOUS
<1>2. b * p \in Nat /\ b * k \in Nat
  BY <1>1
<1> HIDE DEF p, q
<1>3. b * p < b * k /\ b * k < b * p + b
  BY <1>1, <1>2
<1>4. CASE k <= p
  <2>1. b * k <= b * p
    BY <1>1, <1>4
  <2> QED
    BY <1>2, <1>3, <2>1
<1>5. CASE k >= p + 1
  <2>1. b * k >= b * (p + 1)
    BY <1>1, <1>5
  <2>2. b * (p + 1) = b * p + b
    BY <1>1
  <2> QED
    BY <1>2, <1>3, <2>1, <2>2
<1> QED
  BY <1>1, <1>4, <1>5

\* A chunk is the vertices of an interval.
LEMMA ChunkIs ==
  ASSUME NEW n \in Nodes
  PROVE  ChunkFrom(n) = {x \in Nodes : n <= x /\ x < n + chunk_size}
<1> DEFINE S == {n + chunk_size, num_nodes}
           m == Min(S)
<1>1. n \in Nat /\ chunk_size \in Nat /\ num_nodes \in Nat
  BY NodesAre, BfsAssumption
<1>2. S \in SUBSET Nat /\ S # {}
  BY <1>1
<1>3. m \in S /\ \A y \in S : m <= y
  <2> HIDE DEF S
  <2> QED
    BY <1>2, MinIs
<1> HIDE DEF m
<1>4. m \in Nat /\ m <= n + chunk_size /\ m <= num_nodes /\ (m = n + chunk_size \/ m = num_nodes)
  BY <1>1, <1>3
<1>5. ChunkFrom(n) = n .. m - 1
  BY DEF ChunkFrom, m
<1> QED
  BY <1>1, <1>4, <1>5 DEF Nodes

\* Every vertex is in a chunk.
LEMMA ChunksCover ==
  ASSUME NEW x \in Nodes
  PROVE  \E n \in Chunks : x \in ChunkFrom(n)
<1> DEFINE c == chunk_size
           k == x \div c
           n == c * k
<1>1. c \in Nat \ {0} /\ x \in Nat
  BY BfsAssumption, NodesAre
<1>2. k \in Nat /\ x % c \in 0 .. c - 1 /\ x = c * k + (x % c)
  BY <1>1, DivModOf
<1>3. n \in Nat /\ n <= x /\ x < n + c /\ n % c = 0
  <2>1. n \in Nat
    BY <1>1, <1>2
  <2>2. n % c = 0
    BY <1>1, <1>2
  <2> QED
    BY <1>1, <1>2, <2>1, <2>2
<1> HIDE DEF n, k
<1>4. n \in Nodes
  BY <1>3, NodesAre DEF Nodes
<1>5. n \in Chunks
  BY <1>3, <1>4 DEF Chunks
<1> QED
  BY <1>3, <1>4, <1>5, ChunkIs

\* A chunk shares no word with the vertices of another.
LEMMA ChunksApart ==
  ASSUME NEW m \in Chunks, NEW n \in Chunks, m # n
  PROVE  WordsApart(ChunkFrom(m), ChunkFrom(n))
<1> DEFINE c == chunk_size
           b == kBitsPerWord
<1>1. c \in Nat \ {0} /\ b \in Nat \ {0} /\ c % b = 0
  BY BfsAssumption, ContainersAssumption
<1>2. ASSUME NEW i \in Chunks, NEW j \in Chunks, i < j,
             NEW x \in ChunkFrom(i), NEW y \in ChunkFrom(j)
      PROVE  x \div b # y \div b
  <2>1. i \in Nat /\ j \in Nat /\ i \in Nodes /\ j \in Nodes /\ i % c = 0 /\ j % c = 0
    BY NodesAre DEF Chunks
  <2>2. x \in Nat /\ y \in Nat /\ x < i + c /\ j <= y
    BY <2>1, ChunkIs, NodesAre
  <2> DEFINE p == i \div c
             q == j \div c
             w == c \div b
  <2>3. p \in Nat /\ q \in Nat /\ w \in Nat /\ i = c * p /\ j = c * q /\ c = b * w
    <3>1. i = c * p + 0 /\ p \in Nat
      BY <1>1, <2>1, DivModOf
    <3>2. j = c * q + 0 /\ q \in Nat
      BY <1>1, <2>1, DivModOf
    <3>3. c = b * w + 0 /\ w \in Nat
      BY <1>1, DivModOf
    <3>4. c * p \in Nat /\ c * q \in Nat /\ b * w \in Nat
      BY <1>1, <3>1, <3>2, <3>3
    <3> QED
      BY <3>1, <3>2, <3>3, <3>4
  <2> HIDE DEF p, q, w
  <2>4. i + c <= j
    <3>1. p < q
      <4> SUFFICES ASSUME q <= p PROVE FALSE
        BY <2>3
      <4>1. c * q <= c * p
        BY <1>1, <2>3
      <4> QED
        BY <1>2, <2>1, <2>3, <4>1
    <3>2. c * (p + 1) <= c * q
      BY <1>1, <2>3, <3>1
    <3>3. c * (p + 1) = c * p + c
      BY <1>1, <2>3
    <3> QED
      BY <2>3, <3>2, <3>3
  <2>5. w * q \in Nat /\ b * (w * q) = j
    BY <1>1, <2>3
  <2>6. x < b * (w * q) /\ b * (w * q) <= y
    BY <1>1, <2>1, <2>2, <2>4, <2>5
  <2> DEFINE k == w * q
  <2> HIDE DEF k, b, c
  <2>7. k \in Nat /\ x < b * k /\ b * k <= y
    BY <2>5, <2>6 DEF k
  <2> QED
    BY <1>1, <2>2, <2>7, DivApart
<1>3. m \in Nat /\ n \in Nat
  BY NodesAre DEF Chunks
<1>4. m < n \/ n < m
  BY <1>3
<1> QED
  BY <1>2, <1>4 DEF WordsApart

\* Storing a word that has not changed sets a bit and nothing else.
LEMMA StoreIs ==
  ASSUME NEW S, NEW v
  PROVE  StoreWord(S, v, WordOf(S, v)) = S \cup {v}
BY DEF StoreWord, WordOf

\* A bit of another word is not in a word.
LEMMA WordApart ==
  ASSUME NEW S, NEW v, NEW x, v \div kBitsPerWord # x \div kBitsPerWord
  PROVE  WordOf(S \cup {v}, x) = WordOf(S, x)
BY DEF WordOf

-----------------------------------------------------------------------------
(***************************************************************************)
(* The inductive invariant, and what the steps have in common.              *)
(***************************************************************************)
\* bfs.cc runs on graphs that were symmetrized.
Undirected == \A i \in Inputs : ~i.directed

Parts(B, d, E) ==
  /\ BfsTypeOK /\ TeamOK
  /\ Balls(B) /\ Tree(B)
  /\ Entries(queue, team, E)
  /\ Round(B, d, E)

BfsInv == \E B, E : \E d \in Nat : Parts(B, d, E)

\* The input is a graph and a vertex of it.
LEMMA InputIs ==
  ASSUME BfsTypeOK
  PROVE  /\ input.adj \in [Nodes -> SUBSET Nodes] /\ input.source \in Nodes
         /\ \A u \in Nodes : out_neigh(u) \subseteq Nodes /\ in_neigh(u) = out_neigh(u)
         /\ Undirected => \A u \in Nodes : \A v \in out_neigh(u) : u \in out_neigh(v)
<1>1. InputOK(input) /\ input \in Inputs
  BY BfsAssumption DEF BfsTypeOK
<1> QED
  BY <1>1 DEF InputOK, out_neigh, in_neigh, Undirected

\* The tree is the same when no parent changes.
LEMMA TreeKept ==
  ASSUME NEW B, Balls(B), Tree(B), input' = input, parent' = parent
  PROVE  Balls(B)' /\ Tree(B)' /\ Visited' = Visited /\ \A u \in Nodes : out_neigh(u)' = out_neigh(u)
<1>1. Visited' = Visited
  BY DEF Visited
<1>2. \A u : out_neigh(u)' = out_neigh(u)
  BY DEF out_neigh
<1>3. Balls(B)'
  BY DEF Balls, Grows
<1>4. Tree(B)'
  BY <1>1, <1>2 DEF Tree
<1> QED
  BY <1>1, <1>2, <1>3, <1>4

\* A vertex joins the tree one level below its parent.
LEMMA TreeGrows ==
  ASSUME BfsTypeOK, NEW B, Balls(B), Tree(B), NEW d \in Nat,
         NEW u \in B[d], NEW v \in B[d + 1], v \notin B[d], v \notin Visited, v \in out_neigh(u),
         input' = input, parent' = [parent EXCEPT ![v] = u]
  PROVE  /\ Balls(B)' /\ Tree(B)' /\ Visited' = Visited \cup {v} /\ parent' \in [Nodes -> Int]
         /\ \A n \in Nodes : n # v => parent'[n] = parent[n]
         /\ parent'[v] = u /\ u >= 0
<1>1. B[d] \in SUBSET Nodes /\ B[d + 1] \in SUBSET Nodes
  <2>1. B \in [Nat -> SUBSET Nodes] /\ d + 1 \in Nat
    BY DEF Balls
  <2> QED
    BY <2>1
<1>2. u \in Nat /\ u \in Nodes /\ v \in Nodes /\ u >= 0 /\ u \in Int
  <2>1. u \in Nodes /\ v \in Nodes
    BY <1>1
  <2>2. u \in Nat
    BY <2>1, NodesAre
  <2> QED
    BY <2>1, <2>2
<1>3. parent' \in [Nodes -> Int] /\ parent'[v] = u /\ \A n \in Nodes : n # v => parent'[n] = parent[n]
  BY <1>2 DEF BfsTypeOK
<1>4. Visited' = Visited \cup {v}
  BY <1>2, <1>3 DEF Visited
<1>5. \A x : out_neigh(x)' = out_neigh(x)
  BY DEF out_neigh
<1>6. Balls(B)'
  BY DEF Balls, Grows
<1>7. Tree(B)'
  <2>1. v # input.source
    <3>1. parent[input.source] = input.source /\ input.source \in Nodes
      BY InputIs DEF Tree
    <3>2. input.source \in Nat
      BY <3>1, NodesAre
    <3>3. input.source \in Visited
      BY <3>1, <3>2 DEF Visited
    <3> QED
      BY <3>3
  <2>2. parent'[input.source] = input.source
    BY <1>3, <2>1, InputIs DEF Tree
  <2>3. \A n \in Nodes : parent'[n] >= 0 => parent'[n] \in Nodes
    BY <1>2, <1>3 DEF Tree
  <2>4. ASSUME NEW n \in Visited', n # input.source
        PROVE  \E k \in Nat : n \in B[k + 1] \ B[k] /\ parent'[n] \in B[k] /\ n \in out_neigh(parent'[n])
    <3>1. CASE n = v
      BY <1>3, <3>1
    <3>2. CASE n # v
      <4>1. n \in Visited /\ n \in Nodes /\ parent'[n] = parent[n]
        BY <1>3, <1>4, <3>2 DEF Visited
      <4> QED
        BY <2>4, <4>1 DEF Tree
    <3> QED
      BY <3>1, <3>2
  <2> QED
    BY <1>5, <2>2, <2>3, <2>4 DEF Tree
<1> QED
  BY <1>2, <1>3, <1>4, <1>6, <1>7

\* One thread changes its record.
LEMMA TeamStep ==
  ASSUME BfsTypeOK, NEW t \in Threads, NEW r \in Record, Becomes(t, r)
  PROVE  /\ team' \in [Threads -> Record] /\ team'[t] = r
         /\ \A s \in Threads : s # t => team'[s] = team[s]
         /\ team[t] \in Record
BY DEF BfsTypeOK, Becomes

\* It keeps to the labels of the loop, and leaves when nothing is left.
LEMMA TeamKept ==
  ASSUME BfsTypeOK, TeamOK, NEW t \in Threads, NEW r \in Record, Becomes(t, r),
         phase' = phase, work' \subseteq work, r.pc \in LabelsOf(phase),
         Leaving(r) => work' = {} /\ r.todo = {}
  PROVE  TeamOK'
<1>1. team'[t] = r /\ \A s \in Threads : s # t => team'[s] = team[s]
  BY TeamStep
<1>2. LabelsOf(phase)' = LabelsOf(phase)
  BY DEF LabelsOf
<1>3. ASSUME NEW s \in Threads
      PROVE  /\ team'[s].pc \in LabelsOf(phase)
             /\ Leaving(team'[s]) => work' = {} /\ team'[s].todo = {}
  <2>1. CASE s = t
    BY <1>1, <2>1
  <2>2. CASE s # t
    <3>1. team[s].pc \in LabelsOf(phase) /\ (Leaving(team[s]) => work = {} /\ team[s].todo = {})
      BY DEF TeamOK
    <3> QED
      BY <1>1, <2>2, <3>1
  <2> QED
    BY <2>1, <2>2
<1> QED
  BY <1>2, <1>3 DEF TeamOK, Leaving

\* It does nothing with its buffer.
LEMMA QuietStep ==
  ASSUME BfsTypeOK, NEW E, Entries(queue, team, E), NEW t \in Threads, NEW r \in Record, Becomes(t, r),
         queue' = queue, team[t].pc \notin {"flush", "copy"}, r.pc # "copy",
         r.local = team[t].local, r.pending = team[t].pending, r.pc = "barrier" => r.local = <<>>
  PROVE  /\ Entries(queue, team, E)' /\ NewEntries(queue, team, E)' = NewEntries(queue, team, E)
         /\ Settled => Settled'
<1>1. team'[t] = r /\ \A s \in Threads : s # t => team'[s] = team[s]
  BY TeamStep
<1>2. \A s \in Threads : BufferOK(team[s])
  BY DEF Entries
<1>3. r.pending = <<>> /\ BufferOK(team[t])
  BY <1>2 DEF BufferOK
<1>4. BufferOK(r) /\ SameHeld(r, team[t])
  <2>1. SameHeld(r, team[t])
    BY DEF SameHeld
  <2>2. Buffer(r) = Buffer(team[t]) /\ Pending(r) = Pending(team[t])
    BY <2>1, HeldSame
  <2> QED
    BY <1>3, <2>1, <2>2 DEF BufferOK
<1>5. \A s \in Threads : SameHeld(team'[s], team[s]) /\ BufferOK(team'[s])
  <2>1. \A s \in Threads : SameHeld(team[s], team[s])
    BY DEF SameHeld
  <2> QED
    BY <1>1, <1>2, <1>4, <2>1
<1>6. Entries(queue, team', E) /\ NewEntries(queue, team', E) = NewEntries(queue, team, E)
  BY <1>5, EntriesSame
<1>7. Settled => Settled'
  BY <1>1 DEF Settled
<1> QED
  BY <1>6, <1>7

\* A thread at the top of a loop is not in the middle of anything.
LEMMA TopIs ==
  ASSUME NEW E, Entries(queue, team, E), NEW t \in Threads, team[t].pc \in {"loop", "cas", "store"}
  PROVE  team[t].pending = <<>> /\ ~Leaving(team[t])
BY DEF Entries, BufferOK, Leaving

\* Labels, loop by loop.
LEMMA LabelsAre ==
  /\ LabelsOf("head") = {"loop"} /\ LabelsOf("done") = {"loop"}
  /\ LabelsOf("TDStep") = {"loop", "cas", "flush", "copy", "barrier"}
  /\ LabelsOf("QueueToBitmap") = {"loop", "store", "barrier"}
  /\ LabelsOf("BUStep") = {"loop", "store", "barrier"}
  /\ LabelsOf("BitmapToQueue") = {"loop", "flush", "copy", "barrier"}
BY DEF LabelsOf

\* Between the loops the team rests.
LEMMA StartIs ==
  ASSUME NEW name \in Phases, NEW iterations, StartLoop(name, iterations)
  PROVE  /\ phase' = name /\ work' = iterations /\ team' = Rest
         /\ team' \in [Threads -> Record] /\ TeamOK'
<1>1. phase' = name /\ work' = iterations /\ team' = Rest
  BY DEF StartLoop, Rest
<1>2. "loop" \in LabelsOf(name)
  BY LabelsAre DEF Phases
<1>3. \A t \in Threads : team'[t].pc \in LabelsOf(phase') /\ ~Leaving(team'[t])
  BY <1>1, <1>2, RestIs
<1>4. TeamOK'
  BY <1>3 DEF TeamOK
<1> QED
  BY <1>1, <1>4, RestIs

-----------------------------------------------------------------------------
(***************************************************************************)
(* The steps between the loops.                                             *)
(***************************************************************************)
\* A bottom-up phase begins.
LEMMA GoBottomUpKeeps ==
  ASSUME NEW B, NEW E, NEW d \in Nat, Parts(B, d, E), GoBottomUp
  PROVE  Parts(B, d, E)'
<1>0. /\ BfsTypeOK /\ Balls(B) /\ Tree(B) /\ Entries(queue, team, E) /\ HeadInv(B, d, E)
      /\ TeamOK /\ phase = "head"
  BY DEF Parts, Round, GoBottomUp
<1>1. /\ input' = input /\ parent' = parent /\ queue' = queue /\ front' = front /\ curr' = curr
      /\ StartLoop("QueueToBitmap", WindowPositions(queue))
  BY DEF GoBottomUp
<1>2. /\ phase' = "QueueToBitmap" /\ work' = WindowPositions(queue) /\ team' = Rest
      /\ team' \in [Threads -> Record] /\ TeamOK'
  BY <1>1, StartIs DEF Phases
<1>3. BfsTypeOK'
  BY <1>0, <1>1, <1>2 DEF BfsTypeOK, Phases
<1>4. Balls(B)' /\ Tree(B)' /\ Visited' = Visited
  BY <1>0, <1>1, TreeKept
<1>5. \A t \in Threads : team[t].local = <<>> /\ team[t].pc \notin {"flush", "copy"}
  BY <1>0, LabelsAre DEF HeadInv, Settled, TeamOK
<1>6. Entries(queue, Rest, E)
  BY <1>0, <1>5, EntriesRest
<1>7. Entries(queue, team, E)'
  BY <1>1, <1>2, <1>6
<1>8. QBInv(B, d, E)'
  <2>1. Settled'
    BY <1>0, <1>1, <1>2, RestIs DEF HeadInv, Settled
  <2>2. \A t \in Threads : team'[t].todo = {} /\ team'[t].pc # "store"
    BY <1>2, RestIs
  <2>3. \A u \in Ring(B, d) : \E i \in work' : E[i] = u
    <3>1. WindowEntries(queue, E) = Ring(B, d)
      BY <1>0 DEF HeadInv
    <3> QED
      BY <1>2, <3>1 DEF WindowEntries
  <2> QED
    BY <1>0, <1>1, <1>2, <1>4, <2>1, <2>2, <2>3 DEF HeadInv, QBInv
<1>9. Round(B, d, E)'
  BY <1>2, <1>8 DEF Round
<1> QED
  BY <1>2, <1>3, <1>4, <1>7, <1>9 DEF Parts

\* A top-down step begins.
LEMMA GoTopDownKeeps ==
  ASSUME NEW B, NEW E, NEW d \in Nat, Parts(B, d, E), GoTopDown
  PROVE  Parts(B, d, E)'
<1>0. /\ BfsTypeOK /\ Balls(B) /\ Tree(B) /\ Entries(queue, team, E) /\ HeadInv(B, d, E)
      /\ TeamOK /\ phase = "head"
  BY DEF Parts, Round, GoTopDown
<1>1. /\ input' = input /\ parent' = parent /\ queue' = queue /\ front' = front /\ curr' = curr
      /\ StartLoop("TDStep", WindowPositions(queue))
  BY DEF GoTopDown
<1>2. /\ phase' = "TDStep" /\ work' = WindowPositions(queue) /\ team' = Rest
      /\ team' \in [Threads -> Record] /\ TeamOK'
  BY <1>1, StartIs DEF Phases
<1>3. BfsTypeOK'
  BY <1>0, <1>1, <1>2 DEF BfsTypeOK, Phases
<1>4. Balls(B)' /\ Tree(B)' /\ Visited' = Visited
  BY <1>0, <1>1, TreeKept
<1>5. \A t \in Threads : team[t].local = <<>> /\ team[t].pc \notin {"flush", "copy"}
  BY <1>0, LabelsAre DEF HeadInv, Settled, TeamOK
<1>6. /\ Entries(queue, Rest, E)
      /\ NewEntries(queue, Rest, E) = {E[i] : i \in queue.shared_out_end .. queue.shared_in - 1}
  BY <1>0, <1>5, EntriesRest
<1>7. Entries(queue, team, E)'
  BY <1>1, <1>2, <1>6
<1>8. TDInv(B, d, E)'
  <2>1. NewEntries(queue, team, E)' = {}
    <3>1. queue.shared_in = queue.shared_out_end /\ queue.shared_in \in Nat
      BY <1>0 DEF HeadInv, Settled, BfsTypeOK, Queue
    <3>2. queue.shared_out_end .. queue.shared_in - 1 = {}
      BY <3>1
    <3> QED
      BY <1>1, <1>2, <1>6, <3>2
  <2>2. \A t \in Threads : team'[t].todo = {} /\ team'[t].pc # "cas"
    BY <1>2, RestIs
  <2>3. \A u \in Ring(B, d) : \E i \in work' : E[i] = u
    <3>1. WindowEntries(queue, E) = Ring(B, d)
      BY <1>0 DEF HeadInv
    <3> QED
      BY <1>2, <3>1 DEF WindowEntries
  <2>4. B[d] \subseteq B[d + 1]
    BY <1>0, BallsNext
  <2>5. \A t \in Threads : TDThread(team[t], B, d)'
    BY <2>2 DEF TDThread
  <2>6. TDCovers(B, d, E)'
    BY <2>3 DEF TDCovers
  <2> QED
    BY <1>0, <1>1, <1>2, <1>4, <2>1, <2>4, <2>5, <2>6 DEF HeadInv, TDInv
<1>9. Round(B, d, E)'
  BY <1>2, <1>8 DEF Round
<1> QED
  BY <1>2, <1>3, <1>4, <1>7, <1>9 DEF Parts

\* The search ends when a level is empty.
LEMMA FinishKeeps ==
  ASSUME NEW B, NEW E, NEW d \in Nat, Parts(B, d, E), Finish
  PROVE  Parts(B, d, E)'
<1>0. /\ BfsTypeOK /\ Balls(B) /\ Tree(B) /\ Entries(queue, team, E) /\ HeadInv(B, d, E)
      /\ TeamOK /\ phase = "head"
  BY DEF Parts, Round, Finish
<1>1. /\ input' = input /\ queue' = queue /\ front' = front /\ curr' = curr /\ work' = work
      /\ team' = team /\ phase' = "done" /\ EmptyWindow(queue)
      /\ parent' = [n \in Nodes |-> IF parent[n] < -1 THEN -1 ELSE parent[n]]
  BY DEF Finish
<1>2. \A n \in Nodes : /\ parent'[n] \in Int /\ (parent[n] >= 0 => parent'[n] = parent[n])
                       /\ (parent'[n] >= 0 <=> parent[n] >= 0)
                       /\ (~(parent'[n] >= 0) => parent'[n] = -1)
  <2> SUFFICES ASSUME NEW n \in Nodes
               PROVE  /\ parent'[n] \in Int /\ (parent[n] >= 0 => parent'[n] = parent[n])
                      /\ (parent'[n] >= 0 <=> parent[n] >= 0)
                      /\ (~(parent'[n] >= 0) => parent'[n] = -1)
    OBVIOUS
  <2>1. parent[n] \in Int /\ parent'[n] = IF parent[n] < -1 THEN -1 ELSE parent[n]
    BY <1>0, <1>1 DEF BfsTypeOK
  <2> QED
    BY <2>1
<1>3. parent' \in [Nodes -> Int]
  BY <1>1, <1>2
<1>4. BfsTypeOK'
  BY <1>0, <1>1, <1>3 DEF BfsTypeOK, Phases
<1>5. Visited' = Visited /\ \A n \in Visited : parent'[n] = parent[n]
  BY <1>2 DEF Visited
<1>6. Balls(B)'
  BY <1>0, <1>1 DEF Balls, Grows
<1>7. Tree(B)'
  <2>1. input.source \in Visited /\ parent[input.source] = input.source
    <3>1. parent[input.source] = input.source /\ input.source \in Nodes
      BY <1>0, InputIs DEF Tree
    <3>2. input.source \in Nat
      BY <3>1, NodesAre
    <3> QED
      BY <3>1, <3>2 DEF Visited
  <2>2. \A n \in Nodes : parent'[n] >= 0 => parent'[n] \in Nodes
    BY <1>0, <1>2 DEF Tree
  <2>3. \A u : out_neigh(u)' = out_neigh(u)
    BY <1>1 DEF out_neigh
  <2> QED
    BY <1>0, <1>1, <1>5, <2>1, <2>2, <2>3 DEF Tree
<1>8. TeamOK'
  BY <1>0, <1>1, LabelsAre DEF TeamOK, Leaving
<1>9. Entries(queue, team, E)'
  BY <1>0, <1>1
<1>10. DoneInv(B, d)'
  <2>1. WindowPositions(queue) = {}
    <3>1. queue.shared_out_start = queue.shared_out_end /\ queue.shared_out_end \in Nat
      BY <1>0, <1>1 DEF EmptyWindow, BfsTypeOK, Queue
    <3> QED
      BY <3>1 DEF WindowPositions
  <2>2. Ring(B, d) = {} /\ Visited = B[d]
    BY <1>0, <2>1 DEF HeadInv, WindowEntries
  <2> QED
    BY <1>2, <1>5, <2>2 DEF DoneInv, Visited
<1>11. Round(B, d, E)'
  BY <1>1, <1>10 DEF Round
<1> QED
  BY <1>4, <1>6, <1>7, <1>8, <1>9, <1>11 DEF Parts

\* At a barrier nothing is left to take and no buffer is full.
LEMMA BarrierIs ==
  ASSUME NEW E, BfsTypeOK, TeamOK, Entries(queue, team, E), NEW name, Barrier(name)
  PROVE  /\ phase = name /\ work = {}
         /\ \A t \in Threads : team[t].pc = "barrier" /\ team[t].todo = {} /\ team[t].local = <<>>
<1>1. phase = name /\ \A t \in Threads : team[t].pc = "barrier"
  BY DEF Barrier
<1>2. \A t \in Threads : team[t].local = <<>>
  BY <1>1 DEF Entries, BufferOK
<1>3. \A t \in Threads : work = {} /\ team[t].todo = {}
  BY <1>1 DEF TeamOK, Leaving
<1> QED
  BY <1>1, <1>2, <1>3, BfsAssumption

\* All of the queue is in front when the bottom-up steps begin.
LEMMA EndQueueToBitmapKeeps ==
  ASSUME NEW B, NEW E, NEW d \in Nat, Parts(B, d, E), EndQueueToBitmap
  PROVE  Parts(B, d, E)'
<1>0. /\ BfsTypeOK /\ Balls(B) /\ Tree(B) /\ Entries(queue, team, E) /\ QBInv(B, d, E) /\ TeamOK
      /\ work = {}
      /\ \A t \in Threads : team[t].pc = "barrier" /\ team[t].todo = {} /\ team[t].local = <<>>
  BY BarrierIs DEF Parts, Round, EndQueueToBitmap, Barrier
<1>1. /\ input' = input /\ parent' = parent /\ queue' = slide_window(queue) /\ front' = front
      /\ curr' = {} /\ StartLoop("BUStep", Chunks)
  BY DEF EndQueueToBitmap, StartBUStep, NextReset
<1>2. /\ phase' = "BUStep" /\ work' = Chunks /\ team' = Rest
      /\ team' \in [Threads -> Record] /\ TeamOK'
  BY <1>1, StartIs DEF Phases
<1>3. /\ queue' \in Queue /\ queue'.shared_out_end = queue'.shared_in /\ Entries(queue', Rest, E)
      /\ OldEntries(queue', E) = OldEntries(queue, E) \cup NewEntries(queue, team, E)
  BY <1>0, <1>1, EntriesSlide DEF BfsTypeOK
<1>4. BfsTypeOK'
  BY <1>0, <1>1, <1>2, <1>3 DEF BfsTypeOK, Phases
<1>5. Balls(B)' /\ Tree(B)' /\ Visited' = Visited
  BY <1>0, <1>1, TreeKept
<1>6. Entries(queue, team, E)'
  BY <1>2, <1>3
<1>7. BUInv(B, d, E)'
  <2>1. Settled'
    BY <1>2, <1>3, RestIs DEF Settled
  <2>2. NewEntries(queue, team, E) = {}
    <3>1. NewEntries(queue, team, E) = {E[i] : i \in queue.shared_out_end .. queue.shared_in - 1}
      BY <1>0, EntriesRest
    <3>2. queue.shared_in = queue.shared_out_end /\ queue.shared_in \in Nat
      BY <1>0 DEF QBInv, Settled, BfsTypeOK, Queue
    <3>3. queue.shared_out_end .. queue.shared_in - 1 = {}
      BY <3>2
    <3> QED
      BY <3>1, <3>3
  <2>3. Ring(B, d) \subseteq front /\ front \subseteq B[d] /\ Visited = B[d]
    BY <1>0 DEF QBInv
  <2>4. Storing' = {} /\ \A t \in Threads : team'[t].pc = "loop" /\ Mine(team'[t]) = {}
    BY <1>2, RestIs DEF Storing, Mine
  <2>5. OldEntries(queue', E) \subseteq B[d]
    BY <1>0, <1>3, <2>2 DEF QBInv
  <2>6. B[d] \subseteq B[d + 1] /\ B[d + 1] \subseteq Nodes
    <3>1. d + 1 \in Nat
      OBVIOUS
    <3> QED
      BY <1>0, <3>1, BallsNext
  <2>7. \A w \in B[d + 1] : \E n \in work' : w \in ChunkFrom(n)
    BY <1>2, <2>6, ChunksCover
  <2>8. /\ \A t \in Threads : \A n \in work' : WordsApart(Mine(team'[t]), ChunkFrom(n))
        /\ \A s, t \in Threads : WordsApart(Mine(team'[s]), Mine(team'[t]))
    BY <2>4 DEF WordsApart
  <2> QED
    BY <1>1, <1>2, <1>5, <2>1, <2>3, <2>4, <2>5, <2>6, <2>7, <2>8 DEF BUInv
<1>8. Round(B, d, E)'
  BY <1>2, <1>7 DEF Round
<1> QED
  BY <1>2, <1>4, <1>5, <1>6, <1>8 DEF Parts

\* A bottom-up step ends with the whole of the next level.
LEMMA BUStepEnds ==
  ASSUME NEW B, NEW E, NEW d \in Nat, Parts(B, d, E), Barrier("BUStep")
  PROVE  Visited = B[d + 1] /\ curr = Ring(B, d + 1)
<1>1. /\ Balls(B) /\ BUInv(B, d, E) /\ work = {}
      /\ \A t \in Threads : team[t].pc = "barrier" /\ team[t].todo = {}
  BY BarrierIs DEF Parts, Round, Barrier
<1>2. Visited = B[d + 1]
  BY <1>1 DEF BUInv
<1>3. Storing = {}
  BY <1>1 DEF Storing
<1>4. curr = Visited \ B[d]
  BY <1>1, <1>3 DEF BUInv
<1>5. Ring(B, d + 1) = B[d + 1] \ B[d]
  BY <1>1, RingIs
<1> QED
  BY <1>2, <1>4, <1>5

\* A bottom-up step follows another.
LEMMA AgainBottomUpKeeps ==
  ASSUME NEW B, NEW E, NEW d \in Nat, Parts(B, d, E), AgainBottomUp
  PROVE  Parts(B, d + 1, E)'
<1>0. /\ BfsTypeOK /\ Balls(B) /\ Tree(B) /\ Entries(queue, team, E) /\ BUInv(B, d, E) /\ TeamOK
      /\ \A t \in Threads : team[t].pc = "barrier" /\ team[t].local = <<>>
      /\ Visited = B[d + 1] /\ curr = Ring(B, d + 1)
  BY BarrierIs, BUStepEnds DEF Parts, Round, AgainBottomUp, Barrier
<1>1. /\ input' = input /\ parent' = parent /\ queue' = queue /\ front' = curr
      /\ curr' = {} /\ StartLoop("BUStep", Chunks)
  BY DEF AgainBottomUp, StartBUStep, NextReset
<1>2. /\ phase' = "BUStep" /\ work' = Chunks /\ team' = Rest
      /\ team' \in [Threads -> Record] /\ TeamOK'
  BY <1>1, StartIs DEF Phases
<1>3. Entries(queue, Rest, E)
  BY <1>0, EntriesRest
<1>4. BfsTypeOK'
  BY <1>0, <1>1, <1>2 DEF BfsTypeOK, Phases
<1>5. Balls(B)' /\ Tree(B)' /\ Visited' = Visited
  BY <1>0, <1>1, TreeKept
<1>6. Entries(queue, team, E)'
  BY <1>1, <1>2, <1>3
<1>7. BUInv(B, d + 1, E)'
  <2> DEFINE e == d + 1
  <2>0. e \in Nat /\ e + 1 \in Nat
    OBVIOUS
  <2>1. Settled'
    BY <1>0, <1>1, <1>2, RestIs DEF BUInv, Settled
  <2>2. Ring(B, e) \subseteq front' /\ front' \subseteq B[e] /\ Visited' = B[e]
    BY <1>0, <1>1, <1>5, <2>0, RingIs
  <2>3. Storing' = {} /\ \A t \in Threads : team'[t].pc = "loop" /\ Mine(team'[t]) = {}
    BY <1>2, RestIs DEF Storing, Mine
  <2>4. OldEntries(queue', E) \subseteq B[e]
    BY <1>0, <1>1, BallsNext DEF BUInv
  <2>5. B[e] \subseteq B[e + 1] /\ B[e + 1] \subseteq Nodes
    <3> HIDE DEF e
    <3> QED
      BY <1>0, <2>0, BallsNext
  <2>6. \A w \in B[e + 1] : \E n \in work' : w \in ChunkFrom(n)
    BY <1>2, <2>5, ChunksCover
  <2>7. /\ \A t \in Threads : \A n \in work' : WordsApart(Mine(team'[t]), ChunkFrom(n))
        /\ \A s, t \in Threads : WordsApart(Mine(team'[s]), Mine(team'[t]))
    BY <2>3 DEF WordsApart
  <2> HIDE DEF e
  <2>8. BUInv(B, e, E)'
    BY <1>1, <1>2, <2>1, <2>2, <2>3, <2>4, <2>5, <2>6, <2>7 DEF BUInv
  <2> QED
    BY <2>8 DEF e
<1>8. Round(B, d + 1, E)'
  BY <1>2, <1>7 DEF Round
<1> QED
  BY <1>2, <1>4, <1>5, <1>6, <1>8 DEF Parts

\* The bottom-up steps end, and the last level is to go back to the queue.
LEMMA LeaveBottomUpKeeps ==
  ASSUME NEW B, NEW E, NEW d \in Nat, Parts(B, d, E), LeaveBottomUp
  PROVE  Parts(B, d + 1, E)'
<1>0. /\ BfsTypeOK /\ Balls(B) /\ Tree(B) /\ Entries(queue, team, E) /\ BUInv(B, d, E) /\ TeamOK
      /\ \A t \in Threads : team[t].pc = "barrier" /\ team[t].local = <<>>
      /\ Visited = B[d + 1] /\ curr = Ring(B, d + 1)
  BY BarrierIs, BUStepEnds DEF Parts, Round, LeaveBottomUp, Barrier
<1>1. /\ input' = input /\ parent' = parent /\ queue' = queue /\ front' = curr
      /\ curr' = front /\ StartLoop("BitmapToQueue", Nodes)
  BY DEF LeaveBottomUp
<1>2. /\ phase' = "BitmapToQueue" /\ work' = Nodes /\ team' = Rest
      /\ team' \in [Threads -> Record] /\ TeamOK'
  BY <1>1, StartIs DEF Phases
<1>3. /\ Entries(queue, Rest, E)
      /\ NewEntries(queue, Rest, E) = {E[i] : i \in queue.shared_out_end .. queue.shared_in - 1}
  BY <1>0, EntriesRest
<1>4. BfsTypeOK'
  BY <1>0, <1>1, <1>2 DEF BfsTypeOK, Phases
<1>5. Balls(B)' /\ Tree(B)' /\ Visited' = Visited
  BY <1>0, <1>1, TreeKept
<1>6. Entries(queue, team, E)'
  BY <1>1, <1>2, <1>3
<1>7. BQInv(B, d + 1, E)'
  <2>1. NewEntries(queue, team, E)' = {}
    <3>1. queue.shared_in = queue.shared_out_end /\ queue.shared_in \in Nat
      BY <1>0 DEF BUInv, Settled, BfsTypeOK, Queue
    <3>2. queue.shared_out_end .. queue.shared_in - 1 = {}
      BY <3>1
    <3> QED
      BY <1>1, <1>2, <1>3, <3>2
  <2>2. front' \subseteq Nodes /\ front' = Ring(B, d + 1)
    BY <1>0, <1>1 DEF BfsTypeOK
  <2>3. OldEntries(queue', E) \cap front' = {} /\ OldEntries(queue', E) \subseteq B[d + 1]
    <3>1. OldEntries(queue, E) \subseteq B[d] /\ B[d] \subseteq B[d + 1] /\ front' = B[d + 1] \ B[d]
      BY <1>0, <1>1, BallsNext, RingIs DEF BUInv
    <3> QED
      BY <1>1, <3>1
  <2>4. \A t \in Threads : team'[t].todo = {}
    BY <1>2, RestIs
  <2> QED
    BY <1>0, <1>2, <1>5, <2>1, <2>2, <2>3, <2>4 DEF BQInv
<1>8. Round(B, d + 1, E)'
  BY <1>2, <1>7 DEF Round
<1> QED
  BY <1>2, <1>4, <1>5, <1>6, <1>8 DEF Parts

\* A round ends with its level in the queue.
LEMMA SlideKeeps ==
  ASSUME NEW B, NEW E, NEW d \in Nat, BfsTypeOK, TeamOK, Balls(B), Tree(B), Entries(queue, team, E),
         \A t \in Threads : team[t].pc = "barrier",
         input' = input, parent' = parent, queue' = slide_window(queue), front' = front, curr' = curr,
         StartLoop("head", {}),
         Visited = B[d], NewEntries(queue, team, E) = Ring(B, d),
         OldEntries(queue, E) \subseteq B[d], front \subseteq B[d]
  PROVE  Parts(B, d, E)'
<1>1. /\ phase' = "head" /\ team' = Rest /\ team' \in [Threads -> Record] /\ TeamOK'
  BY StartIs DEF Phases
<1>2. /\ queue' \in Queue /\ queue'.shared_out_end = queue'.shared_in /\ Entries(queue', Rest, E)
      /\ WindowEntries(queue', E) = NewEntries(queue, team, E)
      /\ OldEntries(queue', E) = OldEntries(queue, E) \cup NewEntries(queue, team, E)
  BY EntriesSlide DEF BfsTypeOK
<1>3. BfsTypeOK'
  BY <1>1, <1>2 DEF BfsTypeOK, Phases
<1>4. Balls(B)' /\ Tree(B)' /\ Visited' = Visited
  BY TreeKept
<1>5. Entries(queue, team, E)'
  BY <1>1, <1>2
<1>6. HeadInv(B, d, E)'
  <2>1. Settled'
    BY <1>1, <1>2, RestIs DEF Settled
  <2>2. OldEntries(queue', E) \subseteq B[d]
    BY <1>2, RingIs
  <2> QED
    BY <1>2, <1>4, <2>1, <2>2 DEF HeadInv
<1>7. Round(B, d, E)'
  BY <1>1, <1>6 DEF Round
<1> QED
  BY <1>1, <1>3, <1>4, <1>5, <1>7 DEF Parts

\* The round that went back from the bitmap.
LEMMA EndBitmapToQueueKeeps ==
  ASSUME NEW B, NEW E, NEW d \in Nat, Parts(B, d, E), EndBitmapToQueue
  PROVE  Parts(B, d, E)'
<1>0. /\ BfsTypeOK /\ Balls(B) /\ Tree(B) /\ Entries(queue, team, E) /\ BQInv(B, d, E) /\ TeamOK
      /\ work = {} /\ \A t \in Threads : team[t].pc = "barrier"
  BY BarrierIs DEF Parts, Round, EndBitmapToQueue, Barrier
<1>1. /\ input' = input /\ parent' = parent /\ queue' = slide_window(queue) /\ front' = front
      /\ curr' = curr /\ StartLoop("head", {})
  BY DEF EndBitmapToQueue
<1>2. Visited = B[d] /\ NewEntries(queue, team, E) = Ring(B, d)
      /\ OldEntries(queue, E) \subseteq B[d] /\ front \subseteq B[d]
  BY <1>0, RingIs DEF BQInv
<1> QED
  BY <1>0, <1>1, <1>2, SlideKeeps

\* A top-down step ends with the whole of the next level.
LEMMA EndTDStepKeeps ==
  ASSUME NEW B, NEW E, NEW d \in Nat, Parts(B, d, E), EndTDStep
  PROVE  Parts(B, d + 1, E)'
<1>0. /\ BfsTypeOK /\ Balls(B) /\ Tree(B) /\ Entries(queue, team, E) /\ TDInv(B, d, E) /\ TeamOK
      /\ work = {} /\ \A t \in Threads : team[t].pc = "barrier" /\ team[t].todo = {}
  BY BarrierIs DEF Parts, Round, EndTDStep, Barrier
<1>1. /\ input' = input /\ parent' = parent /\ queue' = slide_window(queue) /\ front' = front
      /\ curr' = curr /\ StartLoop("head", {})
  BY DEF EndTDStep
<1>2. Visited = B[d + 1]
  <2>1. \A u \in Ring(B, d) : \A w \in out_neigh(u) : w \in Visited
    BY <1>0 DEF TDInv, TDCovers, Carries
  <2>2. \A w \in B[d + 1] : w \in B[d] \/ \E u \in Ring(B, d) : w \in out_neigh(u)
    BY <1>0, BallsNext
  <2>3. B[d] \subseteq Visited /\ Visited \subseteq B[d + 1]
    BY <1>0 DEF TDInv
  <2> QED
    BY <2>1, <2>2, <2>3
<1>3. NewEntries(queue, team, E) = Ring(B, d + 1)
  BY <1>0, <1>2, RingIs DEF TDInv
<1>4. OldEntries(queue, E) \subseteq B[d + 1] /\ front \subseteq B[d + 1]
  BY <1>0, BallsNext DEF TDInv
<1>5. d + 1 \in Nat
  OBVIOUS
<1> QED
  BY <1>0, <1>1, <1>2, <1>3, <1>4, <1>5, SlideKeeps

-----------------------------------------------------------------------------
(***************************************************************************)
(* The steps of a top-down loop, and those of any loop.                     *)
(***************************************************************************)
\* A step of a thread in a top-down loop: no edge is forgotten.
LEMMA TDMove ==
  ASSUME BfsTypeOK, NEW B, NEW E, NEW F, NEW d \in Nat, TDInv(B, d, E),
         NEW t \in Threads, NEW r \in Record, Becomes(t, r),
         input' = input, front' = front,
         Visited \subseteq Visited', Visited' \subseteq B[d + 1],
         \A n \in Nodes : parent'[n] = parent[n] \/ parent'[n] >= 0,
         work' \subseteq work,
         WindowPositions(queue') = WindowPositions(queue),
         \A i \in WindowPositions(queue) : F[i] = E[i],
         OldEntries(queue', F) = OldEntries(queue, E),
         NewEntries(queue', team', F) = Visited' \ B[d],
         r.todo \subseteq out_neigh(r.u),
         r.todo # {} \/ r.pc = "cas" => r.u \in B[d],
         r.pc = "cas" => /\ r.v \in out_neigh(r.u) /\ r.seen < 0
                         /\ parent'[r.v] = r.seen \/ parent'[r.v] >= 0,
         \A u : \A w \in out_neigh(u) :
           Carries(team[t], u, w) => w \in Visited' \/ Carries(r, u, w),
         \A i \in work \ work' : \A w \in out_neigh(E[i]) : Carries(r, E[i], w)
  PROVE  TDInv(B, d, F)'
<1>1. /\ team'[t] = r /\ \A s \in Threads : s # t => team'[s] = team[s]
      /\ \A s \in Threads : team[s] \in Record
  BY TeamStep DEF BfsTypeOK
<1>2. \A u : out_neigh(u)' = out_neigh(u)
  BY DEF out_neigh
<1>3. /\ work \subseteq WindowPositions(queue) /\ WindowEntries(queue, E) = Ring(B, d)
      /\ OldEntries(queue, E) \subseteq B[d] /\ B[d] \subseteq Visited /\ front \subseteq B[d]
      /\ \A s \in Threads : TDThread(team[s], B, d)
      /\ TDCovers(B, d, E)
  BY DEF TDInv
<1>4. \A s \in Threads : TDThread(team[s], B, d)'
  <2> SUFFICES ASSUME NEW s \in Threads
               PROVE  /\ team'[s].todo \subseteq out_neigh(team'[s].u)
                      /\ team'[s].todo # {} \/ team'[s].pc = "cas" => team'[s].u \in B[d]
                      /\ team'[s].pc = "cas" =>
                           /\ team'[s].v \in out_neigh(team'[s].u) /\ team'[s].seen < 0
                           /\ parent'[team'[s].v] = team'[s].seen \/ parent'[team'[s].v] >= 0
    BY <1>2 DEF TDThread
  <2>1. CASE s = t
    BY <1>1, <2>1
  <2>2. CASE s # t
    <3>1. team'[s] = team[s] /\ team[s].v \in Nodes
      BY <1>1, <2>2 DEF Record
    <3>2. TDThread(team[s], B, d)
      BY <1>3
    <3>3. parent'[team[s].v] = parent[team[s].v] \/ parent'[team[s].v] >= 0
      BY <3>1
    <3>4. team[s].pc = "cas" => parent[team[s].v] = team[s].seen \/ parent[team[s].v] >= 0
      BY <3>2 DEF TDThread
    <3>5. team[s].pc = "cas" => parent'[team[s].v] = team[s].seen \/ parent'[team[s].v] >= 0
      BY <3>3, <3>4
    <3> QED
      BY <3>1, <3>2, <3>5 DEF TDThread
  <2> QED
    BY <2>1, <2>2
<1>5. WindowEntries(queue', F) = Ring(B, d)
  BY <1>3 DEF WindowEntries
<1>6. TDCovers(B, d, F)'
  <2> SUFFICES ASSUME NEW u \in Ring(B, d), NEW w \in out_neigh(u)
               PROVE  \/ w \in Visited' \/ \E i \in work' : F[i] = u
                      \/ \E s \in Threads : Carries(team'[s], u, w)
    BY <1>2 DEF TDCovers, Carries
  <2>1. CASE w \in Visited
    BY <2>1
  <2>2. CASE \E i \in work : E[i] = u
    <3>1. PICK i \in work : E[i] = u
      BY <2>2
    <3>2. CASE i \in work'
      BY <1>3, <3>1, <3>2
    <3>3. CASE i \notin work'
      BY <1>1, <3>1, <3>3
    <3> QED
      BY <3>2, <3>3
  <2>3. CASE \E s \in Threads : Carries(team[s], u, w)
    <3>1. PICK s \in Threads : Carries(team[s], u, w)
      BY <2>3
    <3>2. CASE s = t
      BY <1>1, <3>1, <3>2
    <3>3. CASE s # t
      BY <1>1, <3>1, <3>3
    <3> QED
      BY <3>2, <3>3
  <2> QED
    BY <1>3, <2>1, <2>2, <2>3 DEF TDCovers
<1> QED
  BY <1>3, <1>4, <1>5, <1>6 DEF TDInv

\* A step of a thread in the loop from the bitmap to the queue.
LEMMA BQMove ==
  ASSUME BfsTypeOK, NEW B, NEW E, NEW F, NEW d \in Nat, BQInv(B, d, E),
         NEW t \in Threads, NEW r \in Record, Becomes(t, r),
         front' = front, Visited' = Visited,
         OldEntries(queue', F) = OldEntries(queue, E),
         NewEntries(queue', team', F) = front \ work', r.todo = {}
  PROVE  BQInv(B, d, F)'
<1>1. /\ team'[t] = r /\ \A s \in Threads : s # t => team'[s] = team[s]
  BY TeamStep
<1> QED
  BY <1>1 DEF BQInv

\* A thread comes to the end of a loop.
LEMMA LeaveLoopKeeps ==
  ASSUME NEW B, NEW E, NEW d \in Nat, Parts(B, d, E), NEW t \in Threads, LeaveLoop(t)
  PROVE  Parts(B, d, E)'
<1>0. /\ BfsTypeOK /\ Balls(B) /\ Tree(B) /\ Entries(queue, team, E) /\ TeamOK /\ Round(B, d, E)
      /\ phase \in {"QueueToBitmap", "BUStep", "BitmapToQueue", "TDStep"}
      /\ team[t].pc = "loop" /\ team[t].todo = {} /\ work = {}
      /\ input' = input /\ parent' = parent /\ queue' = queue /\ front' = front /\ curr' = curr
      /\ phase' = phase /\ work' = work
  BY DEF Parts, LeaveLoop, AtTop
<1>1. PICK s : s = team[t]
  OBVIOUS
<1>2. PICK r : r = [s EXCEPT !.pc = IF s.local = <<>> THEN "barrier" ELSE "flush"]
  OBVIOUS
<1>3. Becomes(t, r) /\ s \in Record
  BY <1>0, <1>1, <1>2 DEF LeaveLoop, BfsTypeOK
<1>4. /\ r \in Record /\ r.pc = (IF s.local = <<>> THEN "barrier" ELSE "flush")
      /\ r.local = s.local /\ r.pending = s.pending /\ r.todo = s.todo /\ r.u = s.u /\ r.v = s.v
      /\ r.seen = s.seen /\ r.word = s.word
  BY <1>2, <1>3 DEF Record, Labels
<1>5. s.pc = "loop" /\ s.todo = {} /\ r.pc \in {"barrier", "flush"}
  BY <1>0, <1>1, <1>4
<1>6. /\ Entries(queue, team, E)' /\ NewEntries(queue, team, E)' = NewEntries(queue, team, E)
      /\ Settled => Settled'
  BY <1>0, <1>1, <1>3, <1>4, <1>5, QuietStep
<1>7. r.pc \in LabelsOf(phase)
  <2>1. CASE phase \in {"QueueToBitmap", "BUStep"}
    <3>1. Settled
      BY <1>0, <2>1 DEF Round, QBInv, BUInv
    <3>2. s.local = <<>>
      BY <1>1, <3>1 DEF Settled
    <3> QED
      BY <1>4, <2>1, <3>2, LabelsAre
  <2>2. CASE phase \in {"BitmapToQueue", "TDStep"}
    BY <1>5, <2>2, LabelsAre
  <2> QED
    BY <1>0, <2>1, <2>2
<1>8. TeamOK'
  BY <1>0, <1>3, <1>4, <1>5, <1>7, TeamKept
<1>9. /\ team' \in [Threads -> Record] /\ team'[t] = r
      /\ \A x \in Threads : x # t => team'[x] = team[x]
  BY <1>0, <1>3, <1>4, TeamStep
<1>10. BfsTypeOK'
  BY <1>0, <1>9 DEF BfsTypeOK
<1>11. Balls(B)' /\ Tree(B)' /\ Visited' = Visited /\ \A u : out_neigh(u)' = out_neigh(u)
  BY <1>0, TreeKept DEF out_neigh
<1>12. ASSUME phase = "TDStep" PROVE Round(B, d, E)'
  <2>1. TDInv(B, d, E)
    BY <1>0, <1>12 DEF Round
  <2>2. NewEntries(queue', team', E) = Visited' \ B[d] /\ Visited' \subseteq B[d + 1]
    BY <1>6, <1>11, <2>1 DEF TDInv
  <2>3. \A u : \A w : ~Carries(team[t], u, w)
    BY <1>0 DEF Carries
  <2>4. r.todo = {} /\ r.pc # "cas"
    BY <1>4, <1>5
  <2>5. TDInv(B, d, E)'
    BY <1>0, <1>3, <1>4, <1>11, <2>1, <2>2, <2>3, <2>4, TDMove
  <2> QED
    BY <1>0, <1>12, <2>5 DEF Round
<1>13. ASSUME phase = "BitmapToQueue" PROVE Round(B, d, E)'
  <2>1. BQInv(B, d, E)
    BY <1>0, <1>13 DEF Round
  <2>2. NewEntries(queue', team', E) = front \ work' /\ r.todo = {}
    BY <1>0, <1>4, <1>5, <1>6, <2>1 DEF BQInv
  <2>3. BQInv(B, d, E)'
    BY <1>0, <1>3, <1>4, <1>11, <2>1, <2>2, BQMove
  <2> QED
    BY <1>0, <1>13, <2>3 DEF Round
<1>14. ASSUME phase = "QueueToBitmap" PROVE Round(B, d, E)'
  <2>1. QBInv(B, d, E)
    BY <1>0, <1>14 DEF Round
  <2>2. \A x \in Threads : /\ team'[x].todo = team[x].todo /\ team'[x].v = team[x].v
                           /\ (team'[x].pc = "store" <=> team[x].pc = "store")
    BY <1>1, <1>4, <1>5, <1>9
  <2>3. QBInv(B, d, E)'
    BY <1>0, <1>6, <1>11, <2>1, <2>2 DEF QBInv
  <2> QED
    BY <1>0, <1>14, <2>3 DEF Round
<1>15. ASSUME phase = "BUStep" PROVE Round(B, d, E)'
  <2>1. BUInv(B, d, E)
    BY <1>0, <1>15 DEF Round
  <2>2. \A x \in Threads : /\ team'[x].todo = team[x].todo /\ team'[x].v = team[x].v
                           /\ team'[x].word = team[x].word
                           /\ (team'[x].pc = "store" <=> team[x].pc = "store")
    BY <1>1, <1>4, <1>5, <1>9
  <2>3. \A x \in Threads : Mine(team'[x]) = Mine(team[x])
    BY <2>2 DEF Mine
  <2>4. Storing' = Storing
    BY <2>2 DEF Storing
  <2>5. BUInv(B, d, E)'
    BY <1>0, <1>6, <1>11, <2>1, <2>2, <2>3, <2>4 DEF BUInv
  <2> QED
    BY <1>0, <1>15, <2>5 DEF Round
<1>16. Round(B, d, E)'
  BY <1>0, <1>12, <1>13, <1>14, <1>15
<1> QED
  BY <1>6, <1>8, <1>10, <1>11, <1>16 DEF Parts

\* What flush() does to the round: nothing.
LEMMA FlushedRound ==
  ASSUME NEW B, NEW E, NEW F, NEW d \in Nat, BfsTypeOK, Balls(B), Tree(B), Round(B, d, E),
         phase \in {"TDStep", "BitmapToQueue"},
         NEW t \in Threads, NEW r \in Record, Becomes(t, r), team[t].pc # "cas", r.pc # "cas",
         r.todo = team[t].todo, r.u = team[t].u,
         input' = input, parent' = parent, front' = front, phase' = phase, work' = work,
         WindowPositions(queue') = WindowPositions(queue),
         \A i \in WindowPositions(queue) : F[i] = E[i],
         OldEntries(queue', F) = OldEntries(queue, E),
         NewEntries(queue', team', F) = NewEntries(queue, team, E)
  PROVE  Round(B, d, F)'
<1>1. Balls(B)' /\ Tree(B)' /\ Visited' = Visited /\ \A u : out_neigh(u)' = out_neigh(u)
  BY TreeKept DEF out_neigh
<1>2. CASE phase = "TDStep"
  <2>1. TDInv(B, d, E)
    BY <1>2 DEF Round
  <2>2. NewEntries(queue', team', F) = Visited' \ B[d] /\ Visited' \subseteq B[d + 1]
    BY <1>1, <2>1 DEF TDInv
  <2>3. TDThread(team[t], B, d)
    BY <2>1 DEF TDInv
  <2>4. r.todo \subseteq out_neigh(r.u) /\ (r.todo # {} => r.u \in B[d])
    BY <2>3 DEF TDThread
  <2>5. \A u : \A w \in out_neigh(u) : Carries(team[t], u, w) => Carries(r, u, w)
    BY DEF Carries
  <2>6. TDInv(B, d, F)'
    BY <1>1, <2>1, <2>2, <2>4, <2>5, TDMove
  <2> QED
    BY <1>2, <2>6 DEF Round
<1>3. CASE phase = "BitmapToQueue"
  <2>1. BQInv(B, d, E)
    BY <1>3 DEF Round
  <2>2. NewEntries(queue', team', F) = front \ work' /\ r.todo = {}
    BY <2>1 DEF BQInv
  <2>3. BQInv(B, d, F)'
    BY <1>1, <2>1, <2>2, BQMove
  <2> QED
    BY <1>3, <2>3 DEF Round
<1> QED
  BY <1>2, <1>3

\* A thread reserves its entries.
LEMMA FlushKeeps ==
  ASSUME NEW B, NEW E, NEW d \in Nat, Parts(B, d, E), NEW t \in Threads, Flush(t)
  PROVE  \E F : Parts(B, d, F)'
<1>0. /\ BfsTypeOK /\ Balls(B) /\ Tree(B) /\ Entries(queue, team, E) /\ TeamOK /\ Round(B, d, E)
      /\ team[t].pc = "flush" /\ team[t] \in Record /\ queue \in Queue
      /\ team \in [Threads -> Record]
      /\ input' = input /\ parent' = parent /\ front' = front /\ curr' = curr
      /\ phase' = phase /\ work' = work
      /\ queue' = ReserveSpace(queue, Len(team[t].local))
  BY DEF Parts, Flush, BfsTypeOK
<1>1. PICK s : s = team[t]
  OBVIOUS
<1>2. PICK m : m = queue.shared_in
  OBVIOUS
<1>3. PICK r : r = Copying(s, m)
  OBVIOUS
<1>4. Becomes(t, r) /\ team' = [team EXCEPT ![t] = Copying(team[t], queue.shared_in)]
      /\ s \in Record /\ m \in Nat
  BY <1>0, <1>1, <1>2, <1>3 DEF Flush, Becomes, Copying, Queue
<1>5. /\ r \in Record /\ r.pc = "copy" /\ r.pending = s.pending /\ r.todo = s.todo /\ r.u = s.u
  BY <1>3, <1>4, RecordFlush
<1>6. PICK F : Extends(queue, team, E, queue', team', F)
  BY <1>0, <1>4, EntriesFlush
<1>7. /\ queue' \in Queue /\ queue'.shared_out_start = queue.shared_out_start
      /\ queue'.shared_out_end = queue.shared_out_end
  <2>1. Len(s.local) \in Nat /\ queue' = ReserveSpace(queue, Len(s.local))
    BY <1>0, <1>1, <1>4 DEF Record
  <2> QED
    BY <1>0, <2>1, SMTT(30) DEF Queue, ReserveSpace
<1>8. 0 .. queue.shared_out_end - 1 \subseteq Shared(queue)
      /\ WindowPositions(queue) \subseteq Shared(queue)
  BY <1>0 DEF Shared, WindowPositions, Queue, Entries
<1>9. OldEntries(queue', F) = OldEntries(queue, E)
  <2>1. \A i \in 0 .. queue.shared_out_end - 1 : F[i] = E[i]
    BY <1>6, <1>8 DEF Extends
  <2> QED
    BY <1>7, <2>1 DEF OldEntries
<1>10. WindowPositions(queue') = WindowPositions(queue)
  BY <1>7 DEF WindowPositions
<1>11. phase \in {"TDStep", "BitmapToQueue"}
  BY <1>0, LabelsAre DEF TeamOK, BfsTypeOK, Phases
<1>12. Round(B, d, F)'
  <2>1. \A i \in WindowPositions(queue) : F[i] = E[i]
    BY <1>6, <1>8 DEF Extends
  <2>2. NewEntries(queue', team', F) = NewEntries(queue, team, E)
    BY <1>6 DEF Extends
  <2> QED
    BY <1>0, <1>1, <1>4, <1>5, <1>9, <1>10, <1>11, <2>1, <2>2, FlushedRound
<1>13. TeamOK'
  <2>1. r.pc \in LabelsOf(phase)
    BY <1>5, <1>11, LabelsAre
  <2>2. Leaving(r) => work' = {} /\ r.todo = {}
    BY <1>0, <1>1, <1>5 DEF Leaving, TeamOK
  <2> QED
    BY <1>0, <1>4, <1>5, <2>1, <2>2, TeamKept
<1>14. BfsTypeOK'
  <2>1. team' \in [Threads -> Record]
    BY <1>0, <1>4, <1>5, TeamStep
  <2> QED
    BY <1>0, <1>7, <2>1 DEF BfsTypeOK
<1>15. Balls(B)' /\ Tree(B)'
  BY <1>0, TreeKept
<1>16. Entries(queue, team, F)'
  BY <1>6 DEF Extends
<1> QED
  BY <1>12, <1>13, <1>14, <1>15, <1>16 DEF Parts

\* A thread copies its buffer.
LEMMA CopyKeeps ==
  ASSUME NEW B, NEW E, NEW d \in Nat, Parts(B, d, E), NEW t \in Threads, Copy(t)
  PROVE  Parts(B, d, E)'
<1>0. /\ BfsTypeOK /\ Balls(B) /\ Tree(B) /\ Entries(queue, team, E) /\ TeamOK /\ Round(B, d, E)
      /\ team[t].pc = "copy" /\ team[t] \in Record /\ queue \in Queue
      /\ team \in [Threads -> Record]
      /\ input' = input /\ parent' = parent /\ front' = front /\ curr' = curr
      /\ phase' = phase /\ work' = work
      /\ queue' = CopyToShared(queue, team[t].local, team[t].copy_start)
  BY DEF Parts, Copy, BfsTypeOK
<1>1. PICK s : s = team[t]
  OBVIOUS
<1>2. PICK r : r = Copied(s)
  OBVIOUS
<1>3. Becomes(t, r) /\ team' = [team EXCEPT ![t] = Copied(team[t])] /\ s \in Record
  BY <1>0, <1>1, <1>2 DEF Copy, Becomes, Copied
<1>4. /\ r \in Record /\ r.pc = (IF s.pending = <<>> THEN "barrier" ELSE "loop")
      /\ r.pending = <<>> /\ r.todo = s.todo /\ r.u = s.u
  BY <1>2, <1>3, RecordCopy
<1>5. /\ queue' \in Queue /\ queue'.shared_out_start = queue.shared_out_start
      /\ queue'.shared_out_end = queue.shared_out_end
      /\ Entries(queue', team', E) /\ NewEntries(queue', team', E) = NewEntries(queue, team, E)
  BY <1>0, <1>3, EntriesCopy, ZenonT(60)
<1>6. OldEntries(queue', E) = OldEntries(queue, E) /\ WindowPositions(queue') = WindowPositions(queue)
  BY <1>5 DEF OldEntries, WindowPositions
<1>7. phase \in {"TDStep", "BitmapToQueue"}
  BY <1>0, LabelsAre DEF TeamOK, BfsTypeOK, Phases
<1>8. Round(B, d, E)'
  BY <1>0, <1>1, <1>3, <1>4, <1>5, <1>6, <1>7, FlushedRound
<1>9. TeamOK'
  <2>1. r.pc \in LabelsOf(phase)
    BY <1>4, <1>7, LabelsAre
  <2>2. Leaving(r) => Leaving(s)
    BY <1>0, <1>1, <1>4 DEF Leaving
  <2>3. Leaving(r) => work' = {} /\ r.todo = {}
    BY <1>0, <1>1, <1>4, <2>2 DEF TeamOK
  <2> QED
    BY <1>0, <1>3, <1>4, <2>1, <2>3, TeamKept
<1>10. BfsTypeOK'
  <2>1. team' \in [Threads -> Record]
    BY <1>0, <1>3, <1>4, TeamStep
  <2> QED
    BY <1>0, <1>5, <2>1 DEF BfsTypeOK
<1>11. Balls(B)' /\ Tree(B)'
  BY <1>0, TreeKept
<1>12. Entries(queue, team, E)'
  BY <1>5
<1> QED
  BY <1>8, <1>9, <1>10, <1>11, <1>12 DEF Parts

\* A vertex of the window: all its neighbours are to be looked at.
LEMMA TDTakeKeeps ==
  ASSUME NEW B, NEW E, NEW d \in Nat, Parts(B, d, E), NEW t \in Threads, TDTake(t)
  PROVE  Parts(B, d, E)'
<1>0. /\ BfsTypeOK /\ Balls(B) /\ Tree(B) /\ Entries(queue, team, E) /\ TeamOK /\ TDInv(B, d, E)
      /\ phase = "TDStep" /\ team[t].pc = "loop" /\ team[t].todo = {}
      /\ queue \in Queue /\ team \in [Threads -> Record]
      /\ input' = input /\ parent' = parent /\ queue' = queue /\ front' = front /\ curr' = curr
      /\ phase' = phase
  BY DEF Parts, Round, TDTake, AtTop, BfsTypeOK
<1>1. PICK s : s = team[t]
  OBVIOUS
<1>2. PICK i \in work : /\ work' = work \ {i}
                        /\ Becomes(t, [team[t] EXCEPT !.u = queue.shared[i],
                                                      !.todo = out_neigh(queue.shared[i])])
  BY DEF TDTake
<1>3. i \in WindowPositions(queue) /\ WindowEntries(queue, E) = Ring(B, d)
  BY <1>0, <1>2 DEF TDInv
<1>4. queue.shared[i] = E[i] /\ E[i] \in Nodes /\ E[i] \in Ring(B, d)
  BY <1>0, <1>3, WindowRead
<1>5. PICK x : x = E[i]
  OBVIOUS
<1>6. PICK S : S = out_neigh(x)
  OBVIOUS
<1>7. S \in SUBSET Nodes /\ x \in Nodes
  BY <1>0, <1>4, <1>5, <1>6, InputIs
<1>8. PICK r : r = [s EXCEPT !.u = x, !.todo = S]
  OBVIOUS
<1>9. Becomes(t, r) /\ s \in Record
  BY <1>0, <1>1, <1>2, <1>4, <1>5, <1>6, <1>8
<1>10. /\ r \in Record /\ r.pc = s.pc /\ r.local = s.local /\ r.pending = s.pending
       /\ r.todo = S /\ r.u = x
  BY <1>7, <1>8, <1>9 DEF Record
<1>11. r.pc = "loop"
  BY <1>0, <1>1, <1>10
<1>12. /\ Entries(queue, team, E)' /\ NewEntries(queue, team, E)' = NewEntries(queue, team, E)
  BY <1>0, <1>1, <1>9, <1>10, <1>11, QuietStep
<1>13. TeamOK'
  <2>1. r.pc \in LabelsOf(phase) /\ ~Leaving(r)
    BY <1>0, <1>11, LabelsAre DEF Leaving
  <2> QED
    BY <1>0, <1>2, <1>9, <1>10, <2>1, TeamKept
<1>14. BfsTypeOK'
  <2>1. team' \in [Threads -> Record]
    BY <1>0, <1>9, <1>10, TeamStep
  <2> QED
    BY <1>0, <2>1 DEF BfsTypeOK
<1>15. Balls(B)' /\ Tree(B)' /\ Visited' = Visited
  BY <1>0, TreeKept
<1>16. TDInv(B, d, E)'
  <2>1. NewEntries(queue', team', E) = Visited' \ B[d] /\ Visited' \subseteq B[d + 1]
    BY <1>12, <1>15, <1>0 DEF TDInv
  <2>2. \A u, w : ~Carries(team[t], u, w)
    BY <1>0 DEF Carries
  <2>3. r.todo \subseteq out_neigh(r.u) /\ r.u \in B[d] /\ r.pc # "cas"
    BY <1>0, <1>4, <1>5, <1>6, <1>10, <1>11, RingIs
  <2>4. \A j \in work \ work' : \A w \in out_neigh(E[j]) : Carries(r, E[j], w)
    <3>1. \A w \in out_neigh(E[i]) : Carries(r, E[i], w)
      BY <1>5, <1>6, <1>10 DEF Carries
    <3>2. \A j \in work \ work' : j = i
      BY <1>2
    <3> QED
      BY <3>1, <3>2
  <2>5. work' \subseteq work
    BY <1>2
  <2> QED
    BY <1>0, <1>9, <1>10, <1>15, <2>1, <2>2, <2>3, <2>4, <2>5, TDMove
<1>17. Round(B, d, E)'
  BY <1>0, <1>16 DEF Round
<1> QED
  BY <1>12, <1>13, <1>14, <1>15, <1>17 DEF Parts

\* A neighbour: it is visited, or to be claimed.
LEMMA TDLookKeeps ==
  ASSUME NEW B, NEW E, NEW d \in Nat, Parts(B, d, E), NEW t \in Threads, TDLook(t)
  PROVE  Parts(B, d, E)'
<1>0. /\ BfsTypeOK /\ Balls(B) /\ Tree(B) /\ Entries(queue, team, E) /\ TeamOK /\ TDInv(B, d, E)
      /\ phase = "TDStep" /\ team[t].pc = "loop"
      /\ queue \in Queue /\ team \in [Threads -> Record] /\ parent \in [Nodes -> Int]
      /\ input' = input /\ parent' = parent /\ queue' = queue /\ front' = front /\ curr' = curr
      /\ phase' = phase /\ work' = work
  BY DEF Parts, Round, TDLook, BfsTypeOK
<1>1. PICK s : s = team[t]
  OBVIOUS
<1>2. PICK v \in s.todo :
        Becomes(t, [team[t] EXCEPT !.todo = @ \ {v}, !.v = v, !.seen = parent[v],
                                   !.pc = IF parent[v] < 0 THEN "cas" ELSE "loop"])
  BY <1>1 DEF TDLook
<1>3. s \in Record /\ v \in Nodes /\ s.todo \in SUBSET Nodes /\ s.pc = "loop"
  <2>1. s \in Record /\ s.pc = "loop"
    BY <1>0, <1>1
  <2>2. s.todo \in SUBSET Nodes
    BY <2>1 DEF Record
  <2> QED
    BY <1>2, <2>1, <2>2
<1>4. PICK z : z = parent[v]
  OBVIOUS
<1>5. z \in Int
  BY <1>0, <1>3, <1>4
<1>6. PICK r : r = [s EXCEPT !.todo = s.todo \ {v}, !.v = v, !.seen = z,
                             !.pc = IF z < 0 THEN "cas" ELSE "loop"]
  OBVIOUS
<1>7. Becomes(t, r)
  BY <1>1, <1>2, <1>4, <1>6
<1>8. /\ r \in Record /\ r.pc = (IF z < 0 THEN "cas" ELSE "loop")
      /\ r.local = s.local /\ r.pending = s.pending
      /\ r.todo = s.todo \ {v} /\ r.u = s.u /\ r.v = v /\ r.seen = z
  BY <1>3, <1>5, <1>6 DEF Record, Labels
<1>9. r.pc \in {"loop", "cas"}
  BY <1>8
<1>10. /\ Entries(queue, team, E)' /\ NewEntries(queue, team, E)' = NewEntries(queue, team, E)
  BY <1>0, <1>1, <1>7, <1>8, <1>9, QuietStep
<1>11. TeamOK'
  <2>1. r.pc \in LabelsOf(phase) /\ ~Leaving(r)
    BY <1>0, <1>9, LabelsAre DEF Leaving
  <2> QED
    BY <1>0, <1>7, <1>8, <2>1, TeamKept
<1>12. BfsTypeOK'
  <2>1. team' \in [Threads -> Record]
    BY <1>0, <1>7, <1>8, TeamStep
  <2> QED
    BY <1>0, <2>1 DEF BfsTypeOK
<1>13. Balls(B)' /\ Tree(B)' /\ Visited' = Visited
  BY <1>0, TreeKept
<1>14. TDInv(B, d, E)'
  <2>1. NewEntries(queue', team', E) = Visited' \ B[d] /\ Visited' \subseteq B[d + 1]
    BY <1>10, <1>13, <1>0 DEF TDInv
  <2>2. TDThread(s, B, d)
    BY <1>0, <1>1 DEF TDInv
  <2>3. s.todo \subseteq out_neigh(s.u) /\ s.u \in B[d]
    BY <1>2, <2>2 DEF TDThread
  <2>4. v \notin Visited' => r.pc = "cas"
    BY <1>3, <1>4, <1>5, <1>8, <1>13 DEF Visited
  <2>5. \A u, w : Carries(s, u, w) => w \in Visited' \/ Carries(r, u, w)
    <3> SUFFICES ASSUME NEW u, NEW w, Carries(s, u, w), w \notin Visited' PROVE Carries(r, u, w)
      OBVIOUS
    <3>1. s.u = u /\ w \in s.todo
      BY <1>3 DEF Carries
    <3>2. CASE w = v
      BY <1>8, <2>4, <3>1, <3>2 DEF Carries
    <3>3. CASE w # v
      BY <1>8, <3>1, <3>3 DEF Carries
    <3> QED
      BY <3>2, <3>3
  <2>6. r.todo \subseteq out_neigh(r.u) /\ r.u \in B[d] /\ r.v \in out_neigh(r.u)
    BY <1>2, <1>8, <2>3
  <2>7. r.pc = "cas" => r.seen < 0
    BY <1>5, <1>8
  <2>8. parent'[r.v] = r.seen
    BY <1>0, <1>4, <1>8
  <2>9. \A u : \A w \in out_neigh(u) : Carries(team[t], u, w) => w \in Visited' \/ Carries(r, u, w)
    BY <1>1, <2>5
  <2> QED
    BY <1>0, <1>7, <1>8, <1>13, <2>1, <2>6, <2>7, <2>8, <2>9, TDMove
<1>15. Round(B, d, E)'
  BY <1>0, <1>14 DEF Round
<1> QED
  BY <1>10, <1>11, <1>12, <1>13, <1>15 DEF Parts

\* The first thread to claim a vertex gets it.
LEMMA TDClaimKeeps ==
  ASSUME NEW B, NEW E, NEW d \in Nat, Parts(B, d, E), NEW t \in Threads, TDClaim(t)
  PROVE  Parts(B, d, E)'
<1>0. /\ BfsTypeOK /\ Balls(B) /\ Tree(B) /\ Entries(queue, team, E) /\ TeamOK /\ TDInv(B, d, E)
      /\ phase = "TDStep" /\ team[t].pc = "cas"
      /\ queue \in Queue /\ team \in [Threads -> Record] /\ parent \in [Nodes -> Int]
      /\ input' = input /\ queue' = queue /\ front' = front /\ curr' = curr
      /\ phase' = phase /\ work' = work
  BY DEF Parts, Round, TDClaim, BfsTypeOK
<1>1. PICK s : s = team[t]
  OBVIOUS
<1>2. s \in Record /\ s.pc = "cas" /\ s.v \in Nodes /\ s.u \in Nodes /\ s.seen \in Int
  <2>1. s \in Record
    BY <1>0, <1>1
  <2> QED
    BY <1>0, <1>1, <2>1 DEF Record
<1>3. /\ s.todo \subseteq out_neigh(s.u) /\ s.u \in B[d] /\ s.v \in out_neigh(s.u) /\ s.seen < 0
      /\ parent[s.v] = s.seen \/ parent[s.v] >= 0
  <2>1. TDThread(s, B, d)
    BY <1>0, <1>1 DEF TDInv
  <2> QED
    BY <1>2, <2>1 DEF TDThread
<1>4. /\ B[d] \subseteq Visited /\ Visited \subseteq B[d + 1] /\ OldEntries(queue, E) \subseteq B[d]
      /\ NewEntries(queue, team, E) = Visited \ B[d]
  BY <1>0 DEF TDInv
<1>5. CASE parent[s.v] = s.seen
  <2>1. PICK r : r = Pushed(s, s.v)
    OBVIOUS
  <2>2. parent' = [parent EXCEPT ![s.v] = s.u] /\ Becomes(t, r)
        /\ team' = [team EXCEPT ![t] = Pushed(team[t], s.v)]
    BY <1>1, <1>5, <2>1 DEF TDClaim, Becomes
  <2>3. /\ r \in Record /\ r.todo = s.todo /\ r.u = s.u
        /\ (r.pc = "flush" /\ r.pending # <<>>) \/ r.pc = "loop"
    <3>1. <<s.v>> # <<>>
      OBVIOUS
    <3> QED
      BY <1>2, <2>1, <3>1, RecordPushed
  <2>4. s.v \notin Visited /\ s.v \notin B[d] /\ s.v \in B[d + 1]
    <3>1. ~(parent[s.v] >= 0)
      BY <1>2, <1>3, <1>5
    <3>2. s.v \notin Visited
      BY <3>1 DEF Visited
    <3>3. s.v \in B[d + 1]
      BY <1>0, <1>3, BallsNext
    <3> QED
      BY <1>4, <3>2, <3>3
  <2>5. /\ Balls(B)' /\ Tree(B)' /\ Visited' = Visited \cup {s.v} /\ parent' \in [Nodes -> Int]
        /\ \A n \in Nodes : n # s.v => parent'[n] = parent[n]
        /\ parent'[s.v] = s.u /\ s.u >= 0
    BY <1>0, <1>3, <2>2, <2>4, TreeGrows
  <2>6. /\ Entries(queue, team', E)
        /\ NewEntries(queue, team', E) = NewEntries(queue, team, E) \cup {s.v}
    <3>1. s.v \notin OldEntries(queue, E) /\ s.v \notin NewEntries(queue, team, E)
      BY <1>4, <2>4
    <3>2. Receives(queue, team, E, [team EXCEPT ![t] = Pushed(team[t], s.v)], s.v)
      BY <1>0, <1>2, <3>1, EntriesPush
    <3>3. Receives(queue, team, E, team', s.v)
      BY <2>2, <3>2
    <3> QED
      BY <3>3 DEF Receives
  <2>7. Entries(queue, team, E)'
    BY <1>0, <2>6
  <2>8. TeamOK'
    <3>1. r.pc \in LabelsOf(phase) /\ ~Leaving(r)
      BY <1>0, <2>3, LabelsAre DEF Leaving
    <3> QED
      BY <1>0, <2>2, <2>3, <3>1, TeamKept
  <2>9. BfsTypeOK'
    <3>1. team' \in [Threads -> Record]
      BY <1>0, <2>2, <2>3, TeamStep
    <3> QED
      BY <1>0, <2>5, <3>1 DEF BfsTypeOK
  <2>10. TDInv(B, d, E)'
    <3>1. /\ NewEntries(queue', team', E) = Visited' \ B[d] /\ Visited' \subseteq B[d + 1]
          /\ Visited \subseteq Visited'
      BY <1>0, <1>4, <2>4, <2>5, <2>6
    <3>2. \A n \in Nodes : parent'[n] = parent[n] \/ parent'[n] >= 0
      BY <2>5
    <3>3. r.todo \subseteq out_neigh(r.u) /\ r.u \in B[d] /\ r.pc # "cas"
      BY <1>3, <2>3
    <3>4. \A u, w : Carries(s, u, w) => w \in Visited' \/ Carries(r, u, w)
      BY <2>3, <2>5 DEF Carries
    <3>5. \A u : \A w \in out_neigh(u) : Carries(team[t], u, w) => w \in Visited' \/ Carries(r, u, w)
      BY <1>1, <3>4
    <3> QED
      BY <1>0, <2>2, <2>3, <3>1, <3>2, <3>3, <3>5, TDMove
  <2>11. Round(B, d, E)'
    BY <1>0, <2>10 DEF Round
  <2> QED
    BY <2>5, <2>7, <2>8, <2>9, <2>11 DEF Parts
<1>6. CASE parent[s.v] # s.seen
  <2>1. PICK r : r = [s EXCEPT !.pc = "loop"]
    OBVIOUS
  <2>2. parent' = parent /\ Becomes(t, r)
    BY <1>1, <1>6, <2>1 DEF TDClaim
  <2>3. /\ r \in Record /\ r.pc = "loop" /\ r.local = s.local /\ r.pending = s.pending
        /\ r.todo = s.todo /\ r.u = s.u
    BY <1>2, <2>1 DEF Record, Labels
  <2>4. s.v \in Visited
    BY <1>2, <1>3, <1>6 DEF Visited
  <2>5. /\ Entries(queue, team, E)' /\ NewEntries(queue, team, E)' = NewEntries(queue, team, E)
    BY <1>0, <1>1, <2>2, <2>3, QuietStep
  <2>6. TeamOK'
    <3>1. r.pc \in LabelsOf(phase) /\ ~Leaving(r)
      BY <1>0, <2>3, LabelsAre DEF Leaving
    <3> QED
      BY <1>0, <2>2, <2>3, <3>1, TeamKept
  <2>7. BfsTypeOK'
    <3>1. team' \in [Threads -> Record]
      BY <1>0, <2>2, <2>3, TeamStep
    <3> QED
      BY <1>0, <2>2, <3>1 DEF BfsTypeOK
  <2>8. Balls(B)' /\ Tree(B)' /\ Visited' = Visited
    BY <1>0, <2>2, TreeKept
  <2>9. TDInv(B, d, E)'
    <3>1. NewEntries(queue', team', E) = Visited' \ B[d] /\ Visited' \subseteq B[d + 1]
      BY <1>4, <2>5, <2>8
    <3>2. r.todo \subseteq out_neigh(r.u) /\ r.u \in B[d] /\ r.pc # "cas"
      BY <1>3, <2>3
    <3>3. \A u, w : Carries(s, u, w) => w \in Visited' \/ Carries(r, u, w)
      BY <2>3, <2>4, <2>8 DEF Carries
    <3>4. \A u : \A w \in out_neigh(u) : Carries(team[t], u, w) => w \in Visited' \/ Carries(r, u, w)
      BY <1>1, <3>3
    <3> QED
      BY <1>0, <2>2, <2>3, <2>8, <3>1, <3>2, <3>4, TDMove
  <2>10. Round(B, d, E)'
    BY <1>0, <2>9 DEF Round
  <2> QED
    BY <2>5, <2>6, <2>7, <2>8, <2>10 DEF Parts
<1> QED
  BY <1>5, <1>6

-----------------------------------------------------------------------------
(***************************************************************************)
(* The steps of the other loops.                                            *)
(***************************************************************************)
\* A step of a thread in the loop from the queue to the bitmap.
LEMMA QBMove ==
  ASSUME BfsTypeOK, NEW B, NEW E, NEW d \in Nat, QBInv(B, d, E),
         NEW t \in Threads, NEW r \in Record, Becomes(t, r),
         queue' = queue, Visited' = Visited, Settled',
         front \subseteq front', front' \subseteq B[d], work' \subseteq work,
         r.todo = {}, r.pc = "store" => r.v \in Ring(B, d),
         team[t].pc = "store" => team[t].v \in front' \/ (r.pc = "store" /\ r.v = team[t].v),
         \A i \in work \ work' : r.pc = "store" /\ r.v = E[i]
  PROVE  QBInv(B, d, E)'
<1>1. /\ team'[t] = r /\ \A s \in Threads : s # t => team'[s] = team[s]
  BY TeamStep
<1>2. ASSUME NEW u \in Ring(B, d)
      PROVE  u \in front' \/ (\E i \in work' : E[i] = u)
               \/ \E s \in Threads : team'[s].pc = "store" /\ team'[s].v = u
  <2>1. u \in front \/ (\E i \in work : E[i] = u)
          \/ \E s \in Threads : team[s].pc = "store" /\ team[s].v = u
    BY DEF QBInv
  <2>2. CASE \E i \in work : E[i] = u
    <3>1. PICK i \in work : E[i] = u
      BY <2>2
    <3>2. CASE i \in work'
      BY <3>1, <3>2
    <3>3. CASE i \notin work'
      BY <1>1, <3>1, <3>3
    <3> QED
      BY <3>2, <3>3
  <2>3. CASE \E s \in Threads : team[s].pc = "store" /\ team[s].v = u
    BY <1>1, <2>3
  <2> QED
    BY <2>1, <2>2, <2>3
<1>3. \A s \in Threads : team'[s].todo = {} /\ (team'[s].pc = "store" => team'[s].v \in Ring(B, d))
  BY <1>1 DEF QBInv
<1> QED
  BY <1>2, <1>3 DEF QBInv

\* A vertex of the window is to be set in front.
LEMMA QBTakeKeeps ==
  ASSUME NEW B, NEW E, NEW d \in Nat, Parts(B, d, E), NEW t \in Threads, QBTake(t)
  PROVE  Parts(B, d, E)'
<1>0. /\ BfsTypeOK /\ Balls(B) /\ Tree(B) /\ Entries(queue, team, E) /\ TeamOK /\ QBInv(B, d, E)
      /\ phase = "QueueToBitmap" /\ team[t].pc = "loop" /\ team[t].todo = {}
      /\ queue \in Queue /\ team \in [Threads -> Record] /\ front \in SUBSET Nodes
      /\ input' = input /\ parent' = parent /\ queue' = queue /\ front' = front /\ curr' = curr
      /\ phase' = phase
  BY DEF Parts, Round, QBTake, AtTop, BfsTypeOK
<1>1. PICK s : s = team[t]
  OBVIOUS
<1>2. PICK i \in work : /\ work' = work \ {i}
                        /\ Becomes(t, [team[t] EXCEPT !.pc = "store", !.v = queue.shared[i],
                                                      !.word = WordOf(front, queue.shared[i])])
  BY DEF QBTake
<1>3. i \in WindowPositions(queue) /\ WindowEntries(queue, E) = Ring(B, d)
  BY <1>0, <1>2 DEF QBInv
<1>4. queue.shared[i] = E[i] /\ E[i] \in Nodes /\ E[i] \in Ring(B, d)
  BY <1>0, <1>3, WindowRead
<1>5. PICK v : v = E[i]
  OBVIOUS
<1>6. PICK W : W = WordOf(front, v)
  OBVIOUS
<1>7. W \in SUBSET Nodes /\ v \in Nodes
  BY <1>0, <1>4, <1>5, <1>6 DEF WordOf
<1>8. PICK r : r = [s EXCEPT !.pc = "store", !.v = v, !.word = W]
  OBVIOUS
<1>9. Becomes(t, r) /\ s \in Record
  BY <1>0, <1>1, <1>2, <1>4, <1>5, <1>6, <1>8
<1>10. /\ r \in Record /\ r.pc = "store" /\ r.local = s.local /\ r.pending = s.pending
       /\ r.todo = s.todo /\ r.v = v
  BY <1>7, <1>8, <1>9 DEF Record, Labels
<1>11. Entries(queue, team, E)' /\ (Settled => Settled')
  BY <1>0, <1>1, <1>9, <1>10, QuietStep
<1>12. TeamOK'
  <2>1. r.pc \in LabelsOf(phase) /\ ~Leaving(r)
    BY <1>0, <1>10, LabelsAre DEF Leaving
  <2> QED
    BY <1>0, <1>2, <1>9, <1>10, <2>1, TeamKept
<1>13. BfsTypeOK'
  <2>1. team' \in [Threads -> Record]
    BY <1>0, <1>9, <1>10, TeamStep
  <2> QED
    BY <1>0, <2>1 DEF BfsTypeOK
<1>14. Balls(B)' /\ Tree(B)' /\ Visited' = Visited
  BY <1>0, TreeKept
<1>15. QBInv(B, d, E)'
  <2>1. Settled' /\ front' \subseteq B[d]
    BY <1>0, <1>11 DEF QBInv
  <2>2. \A j \in work \ work' : r.pc = "store" /\ r.v = E[j]
    BY <1>2, <1>5, <1>10
  <2>3. r.todo = {} /\ r.v \in Ring(B, d) /\ work' \subseteq work /\ front \subseteq front'
    BY <1>0, <1>1, <1>2, <1>4, <1>5, <1>10
  <2>4. team[t].pc # "store"
    BY <1>0
  <2> QED
    BY <1>0, <1>9, <1>10, <1>14, <2>1, <2>2, <2>3, <2>4, QBMove
<1>16. Round(B, d, E)'
  BY <1>0, <1>15 DEF Round
<1> QED
  BY <1>11, <1>12, <1>13, <1>14, <1>16 DEF Parts

\* The compare-and-swap of a word succeeds only if no bit is lost.
LEMMA QBSwapKeeps ==
  ASSUME NEW B, NEW E, NEW d \in Nat, Parts(B, d, E), NEW t \in Threads, QBSwap(t)
  PROVE  Parts(B, d, E)'
<1>0. /\ BfsTypeOK /\ Balls(B) /\ Tree(B) /\ Entries(queue, team, E) /\ TeamOK /\ QBInv(B, d, E)
      /\ phase = "QueueToBitmap" /\ team[t].pc = "store"
      /\ queue \in Queue /\ team \in [Threads -> Record] /\ front \in SUBSET Nodes
      /\ input' = input /\ parent' = parent /\ queue' = queue /\ curr' = curr
      /\ phase' = phase /\ work' = work
  BY DEF Parts, Round, QBSwap, BfsTypeOK
<1>1. PICK s : s = team[t]
  OBVIOUS
<1>2. s \in Record /\ s.pc = "store" /\ s.v \in Ring(B, d) /\ s.v \in Nodes /\ s.todo = {}
  <2>1. s \in Record /\ s.v \in Ring(B, d) /\ s.todo = {}
    BY <1>0, <1>1 DEF QBInv
  <2> QED
    BY <1>0, <1>1, <2>1 DEF Record
<1>3. PICK W : W = WordOf(front, s.v)
  OBVIOUS
<1>4. W \in SUBSET Nodes
  BY <1>0, <1>3 DEF WordOf
<1>5. \E r \in Record :
        /\ Becomes(t, r) /\ r.local = s.local /\ r.pending = s.pending /\ r.todo = s.todo /\ r.v = s.v
        /\ \/ front' = front \cup {s.v} /\ r.pc = "loop"
           \/ front' = front /\ r.pc = "store"
  <2>1. CASE W = s.word
    <3>1. PICK r : r = [s EXCEPT !.pc = "loop"]
      OBVIOUS
    <3>2. Becomes(t, r) /\ front' = StoreWord(front, s.v, WordOf(front, s.v))
      BY <1>1, <1>3, <2>1, <3>1 DEF QBSwap
    <3>3. /\ r \in Record /\ r.pc = "loop" /\ r.local = s.local /\ r.pending = s.pending
          /\ r.todo = s.todo /\ r.v = s.v
      BY <1>2, <3>1 DEF Record, Labels
    <3>4. front' = front \cup {s.v}
      BY <3>2, StoreIs
    <3> QED
      BY <3>2, <3>3, <3>4
  <2>2. CASE W # s.word
    <3>1. PICK r : r = [s EXCEPT !.word = W]
      OBVIOUS
    <3>2. Becomes(t, r) /\ front' = front
      BY <1>1, <1>3, <2>2, <3>1 DEF QBSwap
    <3>3. /\ r \in Record /\ r.pc = "store" /\ r.local = s.local /\ r.pending = s.pending
          /\ r.todo = s.todo /\ r.v = s.v
      BY <1>2, <1>4, <3>1 DEF Record
    <3> QED
      BY <3>2, <3>3
  <2> QED
    BY <2>1, <2>2
<1>6. PICK r \in Record :
        /\ Becomes(t, r) /\ r.local = s.local /\ r.pending = s.pending /\ r.todo = s.todo /\ r.v = s.v
        /\ \/ front' = front \cup {s.v} /\ r.pc = "loop"
           \/ front' = front /\ r.pc = "store"
  BY <1>5
<1>7. r.pc \in {"loop", "store"} /\ r.pc \notin {"copy", "barrier"}
  BY <1>6
<1>8. Entries(queue, team, E)' /\ (Settled => Settled')
  BY <1>0, <1>1, <1>6, <1>7, QuietStep
<1>9. TeamOK'
  <2>1. r.pc \in LabelsOf(phase) /\ ~Leaving(r)
    BY <1>0, <1>7, LabelsAre DEF Leaving
  <2> QED
    BY <1>0, <1>6, <2>1, TeamKept
<1>10. BfsTypeOK'
  <2>1. team' \in [Threads -> Record]
    BY <1>0, <1>6, TeamStep
  <2>2. front' \in SUBSET Nodes
    BY <1>0, <1>2, <1>6
  <2> QED
    BY <1>0, <2>1, <2>2 DEF BfsTypeOK
<1>11. Balls(B)' /\ Tree(B)' /\ Visited' = Visited
  BY <1>0, TreeKept
<1>12. QBInv(B, d, E)'
  <2>1. Settled' /\ front' \subseteq B[d] /\ front \subseteq front'
    <3>1. front \subseteq B[d] /\ s.v \in B[d] /\ Settled
      BY <1>0, <1>2, RingIs DEF QBInv
    <3> QED
      BY <1>6, <1>8, <3>1
  <2>2. r.todo = {} /\ r.v \in Ring(B, d) /\ work' \subseteq work /\ work \ work' = {}
    BY <1>0, <1>2, <1>6
  <2>3. team[t].v \in front' \/ (r.pc = "store" /\ r.v = team[t].v)
    BY <1>1, <1>6
  <2> QED
    BY <1>0, <1>6, <1>11, <2>1, <2>2, <2>3, QBMove
<1>13. Round(B, d, E)'
  BY <1>0, <1>12 DEF Round
<1> QED
  BY <1>8, <1>9, <1>10, <1>11, <1>13 DEF Parts

\* A step of a thread in a bottom-up loop.
LEMMA BUMove ==
  ASSUME BfsTypeOK, NEW B, NEW E, NEW d \in Nat, BUInv(B, d, E),
         NEW t \in Threads, NEW r \in Record, Becomes(t, r),
         queue' = queue, front' = front, Settled',
         Visited \subseteq Visited', Visited' \subseteq B[d + 1],
         work' \subseteq work,
         \A x \in Mine(r) : x \in Mine(team[t]) \/ \E n \in work \ work' : x \in ChunkFrom(n),
         curr' \cup Storing' = Visited' \ B[d],
         \A s \in Threads : team'[s].pc = "store" => team'[s].word = WordOf(curr', team'[s].v),
         \A w \in B[d + 1] : w \in team[t].todo \/ (\E n \in work \ work' : w \in ChunkFrom(n))
                             => w \in Visited' \/ w \in r.todo
  PROVE  BUInv(B, d, E)'
<1>1. /\ team'[t] = r /\ \A s \in Threads : s # t => team'[s] = team[s]
  BY TeamStep
<1>2. /\ Ring(B, d) \subseteq front /\ front \subseteq B[d] /\ B[d] \subseteq Visited
      /\ OldEntries(queue, E) \subseteq B[d] /\ work \subseteq Chunks
      /\ \A s \in Threads : \A n \in work : WordsApart(Mine(team[s]), ChunkFrom(n))
      /\ \A s, x \in Threads : s # x => WordsApart(Mine(team[s]), Mine(team[x]))
      /\ \A w \in B[d + 1] :
           w \in Visited \/ (\E n \in work : w \in ChunkFrom(n)) \/ \E s \in Threads : w \in team[s].todo
  BY DEF BUInv
<1>3. \A n \in work' : WordsApart(Mine(r), ChunkFrom(n))
  <2> SUFFICES ASSUME NEW n \in work', NEW x \in Mine(r), NEW y \in ChunkFrom(n)
               PROVE  x \div kBitsPerWord # y \div kBitsPerWord
    BY DEF WordsApart
  <2>1. CASE x \in Mine(team[t])
    <3>1. WordsApart(Mine(team[t]), ChunkFrom(n))
      BY <1>2
    <3> QED
      BY <2>1, <3>1 DEF WordsApart
  <2>2. CASE \E m \in work \ work' : x \in ChunkFrom(m)
    <3>1. PICK m \in work \ work' : x \in ChunkFrom(m)
      BY <2>2
    <3>2. m \in Chunks /\ n \in Chunks /\ m # n
      BY <1>2, <3>1
    <3>3. WordsApart(ChunkFrom(m), ChunkFrom(n))
      BY <3>2, ChunksApart
    <3> QED
      BY <3>1, <3>3 DEF WordsApart
  <2> QED
    BY <2>1, <2>2
<1>4. ASSUME NEW s \in Threads, s # t
      PROVE  WordsApart(Mine(r), Mine(team[s])) /\ WordsApart(Mine(team[s]), Mine(r))
  <2>1. ASSUME NEW x \in Mine(r), NEW y \in Mine(team[s])
        PROVE  x \div kBitsPerWord # y \div kBitsPerWord
    <3>1. CASE x \in Mine(team[t])
      <4>1. WordsApart(Mine(team[t]), Mine(team[s]))
        BY <1>2, <1>4
      <4> QED
        BY <3>1, <4>1 DEF WordsApart
    <3>2. CASE \E m \in work \ work' : x \in ChunkFrom(m)
      <4>1. PICK m \in work \ work' : x \in ChunkFrom(m)
        BY <3>2
      <4>2. WordsApart(Mine(team[s]), ChunkFrom(m))
        BY <1>2, <4>1
      <4>3. y \div kBitsPerWord # x \div kBitsPerWord
        BY <4>1, <4>2 DEF WordsApart
      <4> QED
        BY <4>3
    <3> QED
      BY <3>1, <3>2
  <2>2. WordsApart(Mine(r), Mine(team[s]))
    BY <2>1 DEF WordsApart
  <2>3. WordsApart(Mine(team[s]), Mine(r))
    <3> SUFFICES ASSUME NEW y \in Mine(team[s]), NEW x \in Mine(r)
                 PROVE  y \div kBitsPerWord # x \div kBitsPerWord
      BY DEF WordsApart
    <3>1. x \div kBitsPerWord # y \div kBitsPerWord
      BY <2>1
    <3> QED
      BY <3>1
  <2> QED
    BY <2>2, <2>3
<1>5. \A s \in Threads : \A n \in work' : WordsApart(Mine(team'[s]), ChunkFrom(n))
  BY <1>1, <1>2, <1>3
<1>6. \A s, x \in Threads : s # x => WordsApart(Mine(team'[s]), Mine(team'[x]))
  BY <1>1, <1>2, <1>4
<1>7. ASSUME NEW w \in B[d + 1]
      PROVE  w \in Visited' \/ (\E n \in work' : w \in ChunkFrom(n)) \/ \E s \in Threads : w \in team'[s].todo
  <2>1. CASE w \in Visited
    BY <2>1
  <2>2. CASE \E n \in work : w \in ChunkFrom(n)
    BY <1>1, <2>2
  <2>3. CASE \E s \in Threads : w \in team[s].todo
    BY <1>1, <2>3
  <2> QED
    BY <1>2, <2>1, <2>2, <2>3
<1>8. B[d] \subseteq Visited' /\ work' \subseteq Chunks
  BY <1>2
<1> QED
  BY <1>2, <1>5, <1>6, <1>7, <1>8 DEF BUInv

\* A thread takes a chunk.
LEMMA BUTakeKeeps ==
  ASSUME NEW B, NEW E, NEW d \in Nat, Parts(B, d, E), NEW t \in Threads, BUTake(t)
  PROVE  Parts(B, d, E)'
<1>0. /\ BfsTypeOK /\ Balls(B) /\ Tree(B) /\ Entries(queue, team, E) /\ TeamOK /\ BUInv(B, d, E)
      /\ phase = "BUStep" /\ team[t].pc = "loop" /\ team[t].todo = {}
      /\ queue \in Queue /\ team \in [Threads -> Record]
      /\ input' = input /\ parent' = parent /\ queue' = queue /\ front' = front /\ curr' = curr
      /\ phase' = phase
  BY DEF Parts, Round, BUTake, AtTop, BfsTypeOK
<1>1. PICK s : s = team[t]
  OBVIOUS
<1>2. PICK n \in work : /\ work' = work \ {n}
                        /\ Becomes(t, [team[t] EXCEPT !.todo = ChunkFrom(n)])
  BY DEF BUTake
<1>3. PICK S : S = ChunkFrom(n)
  OBVIOUS
<1>4. S \in SUBSET Nodes
  <2>1. n \in Nodes
    BY <1>0, <1>2 DEF BUInv, Chunks
  <2> QED
    BY <1>3, <2>1, ChunkIs
<1>5. PICK r : r = [s EXCEPT !.todo = S]
  OBVIOUS
<1>6. Becomes(t, r) /\ s \in Record /\ s.pc = "loop" /\ s.todo = {}
  BY <1>0, <1>1, <1>2, <1>3, <1>5
<1>7. /\ r \in Record /\ r.pc = "loop" /\ r.local = s.local /\ r.pending = s.pending
      /\ r.todo = S
  BY <1>4, <1>5, <1>6 DEF Record
<1>8. Entries(queue, team, E)' /\ (Settled => Settled')
  BY <1>0, <1>1, <1>6, <1>7, QuietStep
<1>9. TeamOK'
  <2>1. r.pc \in LabelsOf(phase) /\ ~Leaving(r)
    BY <1>0, <1>7, LabelsAre DEF Leaving
  <2> QED
    BY <1>0, <1>2, <1>6, <1>7, <2>1, TeamKept
<1>10. team' \in [Threads -> Record] /\ team'[t] = r /\ \A x \in Threads : x # t => team'[x] = team[x]
  BY <1>0, <1>6, <1>7, TeamStep
<1>11. BfsTypeOK'
  BY <1>0, <1>10 DEF BfsTypeOK
<1>12. Balls(B)' /\ Tree(B)' /\ Visited' = Visited
  BY <1>0, TreeKept
<1>13. BUInv(B, d, E)'
  <2>1. Settled' /\ Visited' \subseteq B[d + 1] /\ curr \cup Storing = Visited' \ B[d]
    BY <1>0, <1>8, <1>12 DEF BUInv
  <2>2. \A x \in Threads : /\ team'[x].v = team[x].v \/ team'[x].pc # "store"
                           /\ team'[x].word = team[x].word \/ team'[x].pc # "store"
                           /\ (team'[x].pc = "store" <=> team[x].pc = "store")
    BY <1>0, <1>7, <1>10
  <2>3. Storing' = Storing
    <3>1. \A v : (\E x \in Threads : team'[x].pc = "store" /\ team'[x].v = v)
                 <=> (\E x \in Threads : team[x].pc = "store" /\ team[x].v = v)
      BY <2>2
    <3> QED
      BY <3>1 DEF Storing
  <2>4. \A x \in Threads : team'[x].pc = "store" => team'[x].word = WordOf(curr', team'[x].v)
    <3>1. \A x \in Threads : team[x].pc = "store" => team[x].word = WordOf(curr, team[x].v)
      BY <1>0 DEF BUInv
    <3>2. \A x \in Threads : team'[x].pc = "store" => team'[x] = team[x]
      BY <1>7, <1>10
    <3> QED
      BY <1>0, <3>1, <3>2
  <2>5. Mine(r) = S /\ \A x \in S : \E m \in work \ work' : x \in ChunkFrom(m)
    BY <1>2, <1>3, <1>7 DEF Mine
  <2>6. \A w : w \in team[t].todo \/ (\E m \in work \ work' : w \in ChunkFrom(m)) => w \in r.todo
    BY <1>0, <1>2, <1>3, <1>7
  <2>7. Visited \subseteq Visited' /\ work' \subseteq work
    BY <1>2, <1>12
  <2> QED
    BY <1>0, <1>6, <1>7, <2>1, <2>3, <2>4, <2>5, <2>6, <2>7, BUMove
<1>14. Round(B, d, E)'
  BY <1>0, <1>13 DEF Round
<1> QED
  BY <1>8, <1>9, <1>11, <1>12, <1>14 DEF Parts

\* A vertex takes a neighbour of the last level for its parent if it has one:
\* here the graph has to be symmetric.
LEMMA BULookKeeps ==
  ASSUME Undirected,
         NEW B, NEW E, NEW d \in Nat, Parts(B, d, E), NEW t \in Threads, BULook(t)
  PROVE  Parts(B, d, E)'
<1>0. /\ BfsTypeOK /\ Balls(B) /\ Tree(B) /\ Entries(queue, team, E) /\ TeamOK /\ BUInv(B, d, E)
      /\ phase = "BUStep" /\ team[t].pc = "loop" /\ team[t].todo # {}
      /\ queue \in Queue /\ team \in [Threads -> Record] /\ parent \in [Nodes -> Int]
      /\ curr \in SUBSET Nodes
      /\ input' = input /\ queue' = queue /\ front' = front /\ curr' = curr
      /\ phase' = phase /\ work' = work
  BY DEF Parts, Round, BULook, BfsTypeOK
<1>1. PICK s : s = team[t]
  OBVIOUS
<1>2. PICK u : u = Min(s.todo)
  OBVIOUS
<1>3. s \in Record /\ s.pc = "loop" /\ s.todo \in SUBSET Nodes /\ u \in s.todo /\ u \in Nodes
  <2>1. s \in Record /\ s.pc = "loop" /\ s.todo # {}
    BY <1>0, <1>1
  <2>2. s.todo \in SUBSET Nodes
    BY <2>1 DEF Record
  <2>3. s.todo \in SUBSET Nat
    BY <2>2, NodesAre
  <2>4. u \in s.todo
    BY <1>2, <2>1, <2>3, MinIs
  <2> QED
    BY <2>1, <2>2, <2>4
<1>4. PICK P : P = IF parent[u] < 0 THEN in_neigh(u) \cap front ELSE {}
  OBVIOUS
<1>5. PICK q : q = [s EXCEPT !.todo = s.todo \ {u}]
  OBVIOUS
<1>6. /\ q \in Record /\ q.pc = "loop" /\ q.local = s.local /\ q.pending = s.pending
      /\ q.todo = s.todo \ {u}
  BY <1>3, <1>5 DEF Record
<1>7. /\ Ring(B, d) \subseteq front /\ front \subseteq B[d] /\ B[d] \subseteq Visited
      /\ Visited \subseteq B[d + 1] /\ curr \cup Storing = Visited \ B[d] /\ Settled
      /\ \A x \in Threads : team[x].pc = "store" => team[x].word = WordOf(curr, team[x].v)
  BY <1>0 DEF BUInv
<1>8. parent[u] \in Int /\ (u \in Visited <=> parent[u] >= 0)
  BY <1>0, <1>3 DEF Visited
<1>9. in_neigh(u) = out_neigh(u) /\ \A v \in out_neigh(u) : u \in out_neigh(v)
  BY <1>0, <1>3, InputIs
<1>10. CASE P = {}
  <2>1. Becomes(t, q) /\ parent' = parent
    BY <1>1, <1>2, <1>4, <1>5, <1>10 DEF BULook
  <2>2. Entries(queue, team, E)' /\ Settled'
    BY <1>0, <1>1, <1>3, <1>6, <1>7, <2>1, QuietStep
  <2>3. TeamOK'
    <3>1. q.pc \in LabelsOf(phase) /\ ~Leaving(q)
      BY <1>0, <1>6, LabelsAre DEF Leaving
    <3> QED
      BY <1>0, <1>6, <2>1, <3>1, TeamKept
  <2>4. team' \in [Threads -> Record] /\ team'[t] = q /\ \A x \in Threads : x # t => team'[x] = team[x]
    BY <1>0, <1>6, <2>1, TeamStep
  <2>5. BfsTypeOK'
    BY <1>0, <2>1, <2>4 DEF BfsTypeOK
  <2>6. Balls(B)' /\ Tree(B)' /\ Visited' = Visited
    BY <1>0, <2>1, TreeKept
  <2>7. u \in B[d + 1] => u \in Visited
    <3>1. SUFFICES ASSUME u \in B[d + 1], u \notin Visited PROVE FALSE
      OBVIOUS
    <3>2. u \notin B[d]
      BY <1>7, <3>1
    <3>3. PICK x \in Ring(B, d) : u \in out_neigh(x)
      BY <1>0, <3>1, <3>2, BallsNext
    <3>4. x \in Nodes /\ x \in front
      BY <1>0, <1>7 DEF BfsTypeOK
    <3>5. x \in out_neigh(u)
      BY <1>0, <3>3, <3>4, InputIs
    <3>6. parent[u] < 0
      BY <1>8, <3>1
    <3> QED
      BY <1>4, <1>9, <1>10, <3>4, <3>5, <3>6
  <2>8. BUInv(B, d, E)'
    <3>1. \A x \in Threads : team'[x].pc = "store" => team'[x] = team[x]
      BY <1>6, <2>4
    <3>2. \A x \in Threads : team[x].pc = "store" => team'[x] = team[x]
      BY <1>0, <2>4
    <3>3. Storing' = Storing
      <4>1. \A v : (\E x \in Threads : team'[x].pc = "store" /\ team'[x].v = v)
                   <=> (\E x \in Threads : team[x].pc = "store" /\ team[x].v = v)
        BY <3>1, <3>2
      <4> QED
        BY <4>1 DEF Storing
    <3>4. \A x \in Threads : team'[x].pc = "store" => team'[x].word = WordOf(curr', team'[x].v)
      BY <1>0, <1>7, <3>1
    <3>5. Mine(q) \subseteq Mine(s)
      BY <1>6 DEF Mine
    <3>6. \A w \in B[d + 1] : w \in team[t].todo => w \in Visited' \/ w \in q.todo
      BY <1>1, <1>6, <2>6, <2>7
    <3>7. /\ curr' \cup Storing' = Visited' \ B[d] /\ work \ work' = {} /\ work' \subseteq work
          /\ Visited \subseteq Visited' /\ Visited' \subseteq B[d + 1]
      BY <1>0, <1>7, <2>6, <3>3
    <3>8. \A x \in Mine(q) : x \in Mine(team[t])
      BY <1>1, <3>5
    <3> QED
      BY <1>0, <1>6, <2>1, <2>2, <3>4, <3>6, <3>7, <3>8, BUMove
  <2>9. Round(B, d, E)'
    BY <1>0, <2>8 DEF Round
  <2> QED
    BY <2>2, <2>3, <2>5, <2>6, <2>9 DEF Parts
<1>11. CASE P # {}
  <2>1. PICK W : W = WordOf(curr, u)
    OBVIOUS
  <2>2. PICK r : r = [q EXCEPT !.pc = "store", !.v = u, !.word = W]
    OBVIOUS
  <2>3. Becomes(t, r) /\ \E v \in P : parent' = [parent EXCEPT ![u] = v]
    BY <1>1, <1>2, <1>4, <1>5, <1>11, <2>1, <2>2 DEF BULook
  <2>4. PICK v \in P : parent' = [parent EXCEPT ![u] = v]
    BY <2>3
  <2>5. W \in SUBSET Nodes
    BY <1>0, <2>1 DEF WordOf
  <2>6. /\ r \in Record /\ r.pc = "store" /\ r.local = s.local /\ r.pending = s.pending
        /\ r.todo = s.todo \ {u} /\ r.v = u /\ r.word = W
    BY <1>3, <1>6, <2>2, <2>5 DEF Record, Labels
  <2>7. parent[u] < 0 /\ v \in out_neigh(u) /\ v \in front
    BY <1>4, <1>9, <1>11
  <2>8. u \notin Visited /\ u \notin B[d] /\ v \in B[d] /\ u \in out_neigh(v) /\ u \in B[d + 1]
    <3>1. u \notin Visited
      BY <1>8, <2>7
    <3>2. v \in B[d] /\ u \in out_neigh(v)
      BY <1>7, <1>9, <2>7
    <3>3. u \in B[d + 1]
      BY <1>0, <3>2, BallsNext
    <3> QED
      BY <1>7, <3>1, <3>2, <3>3
  <2>9. /\ Balls(B)' /\ Tree(B)' /\ Visited' = Visited \cup {u} /\ parent' \in [Nodes -> Int]
    BY <1>0, <2>4, <2>8, TreeGrows
  <2>10. Entries(queue, team, E)' /\ Settled'
    BY <1>0, <1>1, <1>3, <1>7, <2>3, <2>6, QuietStep
  <2>11. TeamOK'
    <3>1. r.pc \in LabelsOf(phase) /\ ~Leaving(r)
      BY <1>0, <2>6, LabelsAre DEF Leaving
    <3> QED
      BY <1>0, <2>3, <2>6, <3>1, TeamKept
  <2>12. team' \in [Threads -> Record] /\ team'[t] = r /\ \A x \in Threads : x # t => team'[x] = team[x]
    BY <1>0, <2>3, <2>6, TeamStep
  <2>13. BfsTypeOK'
    BY <1>0, <2>9, <2>12 DEF BfsTypeOK
  <2>14. BUInv(B, d, E)'
    <3>1. Storing' = Storing \cup {u}
      <4>1. \A n : (\E x \in Threads : team'[x].pc = "store" /\ team'[x].v = n)
                   <=> n = u \/ (\E x \in Threads : team[x].pc = "store" /\ team[x].v = n)
        BY <1>0, <2>6, <2>12
      <4> QED
        BY <4>1 DEF Storing
    <3>2. \A x \in Threads : team'[x].pc = "store" => team'[x].word = WordOf(curr', team'[x].v)
      BY <1>0, <1>7, <2>1, <2>6, <2>12
    <3>3. \A x \in Mine(r) : x \in Mine(team[t])
      BY <1>1, <1>3, <2>6 DEF Mine
    <3>4. \A w \in B[d + 1] : w \in team[t].todo => w \in Visited' \/ w \in r.todo
      BY <1>1, <2>6, <2>9
    <3>5. /\ curr' \cup Storing' = Visited' \ B[d] /\ work \ work' = {} /\ work' \subseteq work
          /\ Visited \subseteq Visited' /\ Visited' \subseteq B[d + 1]
      BY <1>0, <1>7, <2>8, <2>9, <3>1
    <3> QED
      BY <1>0, <2>3, <2>6, <2>10, <3>2, <3>3, <3>4, <3>5, BUMove
  <2>15. Round(B, d, E)'
    BY <1>0, <2>14 DEF Round
  <2> QED
    BY <2>9, <2>10, <2>11, <2>13, <2>15 DEF Parts
<1> QED
  BY <1>10, <1>11

\* The word is stored as it was loaded: no other thread has its vertices there.
LEMMA BUStoreKeeps ==
  ASSUME NEW B, NEW E, NEW d \in Nat, Parts(B, d, E), NEW t \in Threads, BUStore(t)
  PROVE  Parts(B, d, E)'
<1>0. /\ BfsTypeOK /\ Balls(B) /\ Tree(B) /\ Entries(queue, team, E) /\ TeamOK /\ BUInv(B, d, E)
      /\ phase = "BUStep" /\ team[t].pc = "store"
      /\ queue \in Queue /\ team \in [Threads -> Record] /\ curr \in SUBSET Nodes
      /\ input' = input /\ parent' = parent /\ queue' = queue /\ front' = front
      /\ phase' = phase /\ work' = work
      /\ curr' = StoreWord(curr, team[t].v, team[t].word)
  BY DEF Parts, Round, BUStore, BfsTypeOK
<1>1. PICK s : s = team[t]
  OBVIOUS
<1>2. s \in Record /\ s.pc = "store" /\ s.v \in Nodes /\ s.word = WordOf(curr, s.v)
  <2>1. s \in Record /\ s.pc = "store" /\ s.word = WordOf(curr, s.v)
    BY <1>0, <1>1 DEF BUInv
  <2> QED
    BY <2>1 DEF Record
<1>3. curr' = curr \cup {s.v}
  <2>1. curr' = StoreWord(curr, s.v, WordOf(curr, s.v))
    BY <1>0, <1>1, <1>2
  <2> QED
    BY <2>1, StoreIs
<1>4. PICK r : r = [s EXCEPT !.pc = "loop"]
  OBVIOUS
<1>5. Becomes(t, r)
  BY <1>1, <1>4 DEF BUStore
<1>6. /\ r \in Record /\ r.pc = "loop" /\ r.local = s.local /\ r.pending = s.pending
      /\ r.todo = s.todo
  BY <1>2, <1>4 DEF Record, Labels
<1>7. Entries(queue, team, E)' /\ (Settled => Settled')
  BY <1>0, <1>1, <1>2, <1>5, <1>6, QuietStep
<1>8. TeamOK'
  <2>1. r.pc \in LabelsOf(phase) /\ ~Leaving(r)
    BY <1>0, <1>6, LabelsAre DEF Leaving
  <2> QED
    BY <1>0, <1>5, <1>6, <2>1, TeamKept
<1>9. team' \in [Threads -> Record] /\ team'[t] = r /\ \A x \in Threads : x # t => team'[x] = team[x]
  BY <1>0, <1>5, <1>6, TeamStep
<1>10. BfsTypeOK'
  <2>1. curr' \in SUBSET Nodes
    BY <1>0, <1>2, <1>3
  <2> QED
    BY <1>0, <1>9, <2>1 DEF BfsTypeOK
<1>11. Balls(B)' /\ Tree(B)' /\ Visited' = Visited
  BY <1>0, TreeKept
<1>12. BUInv(B, d, E)'
  <2>1. Settled' /\ Visited' \subseteq B[d + 1] /\ curr \cup Storing = Visited' \ B[d]
    BY <1>0, <1>7, <1>11 DEF BUInv
  <2>2. curr' \cup Storing' = curr \cup Storing
    <3>1. \A n : (\E x \in Threads : team[x].pc = "store" /\ team[x].v = n)
                 <=> n = s.v \/ (\E x \in Threads : team'[x].pc = "store" /\ team'[x].v = n)
                     \/ (n = s.v /\ \E x \in Threads : team'[x].pc = "store" /\ team'[x].v = n)
      BY <1>0, <1>1, <1>6, <1>9
    <3>2. Storing = Storing' \cup {s.v}
      BY <3>1 DEF Storing
    <3> QED
      BY <1>3, <3>2
  <2>3. ASSUME NEW x \in Threads, team'[x].pc = "store"
        PROVE  team'[x].word = WordOf(curr', team'[x].v)
    <3>1. x # t /\ team'[x] = team[x] /\ team[x].pc = "store"
      BY <1>6, <1>9, <2>3
    <3>2. team[x].word = WordOf(curr, team[x].v) /\ WordsApart(Mine(team[t]), Mine(team[x]))
      BY <1>0, <3>1 DEF BUInv
    <3>3. s.v \in Mine(team[t]) /\ team[x].v \in Mine(team[x])
      BY <1>1, <1>2, <3>1 DEF Mine
    <3>4. s.v \div kBitsPerWord # team[x].v \div kBitsPerWord
      BY <3>2, <3>3 DEF WordsApart
    <3>5. WordOf(curr \cup {s.v}, team[x].v) = WordOf(curr, team[x].v)
      BY <3>4, WordApart
    <3> QED
      BY <1>3, <3>1, <3>2, <3>5
  <2>4. \A x \in Mine(r) : x \in Mine(team[t])
    BY <1>1, <1>6 DEF Mine
  <2>5. \A w : w \in team[t].todo => w \in r.todo
    BY <1>1, <1>6
  <2>6. work \ work' = {} /\ work' \subseteq work /\ Visited \subseteq Visited'
    BY <1>0, <1>11
  <2> QED
    BY <1>0, <1>5, <1>6, <2>1, <2>2, <2>3, <2>4, <2>5, <2>6, BUMove
<1>13. Round(B, d, E)'
  BY <1>0, <1>12 DEF Round
<1> QED
  BY <1>7, <1>8, <1>10, <1>11, <1>13 DEF Parts

\* A vertex of the bitmap goes to the queue.
LEMMA BQTakeKeeps ==
  ASSUME NEW B, NEW E, NEW d \in Nat, Parts(B, d, E), NEW t \in Threads, BQTake(t)
  PROVE  Parts(B, d, E)'
<1>0. /\ BfsTypeOK /\ Balls(B) /\ Tree(B) /\ Entries(queue, team, E) /\ TeamOK /\ BQInv(B, d, E)
      /\ phase = "BitmapToQueue" /\ team[t].pc = "loop" /\ team[t].todo = {}
      /\ queue \in Queue /\ team \in [Threads -> Record] /\ front \in SUBSET Nodes
      /\ input' = input /\ parent' = parent /\ queue' = queue /\ front' = front /\ curr' = curr
      /\ phase' = phase
  BY DEF Parts, Round, BQTake, AtTop, BfsTypeOK
<1>1. PICK n \in work : /\ work' = work \ {n}
                        /\ IF n \in front THEN Becomes(t, Pushed(team[t], n)) ELSE UNCHANGED team
  BY DEF BQTake
<1>2. PICK s : s = team[t]
  OBVIOUS
<1>3. s \in Record /\ s.pc = "loop" /\ s.todo = {}
  BY <1>0, <1>2
<1>4. Balls(B)' /\ Tree(B)' /\ Visited' = Visited
  BY <1>0, TreeKept
<1>5. /\ OldEntries(queue, E) \cap front = {} /\ NewEntries(queue, team, E) = front \ work
  BY <1>0 DEF BQInv
<1>6. CASE n \in front
  <2>1. PICK r : r = Pushed(s, n)
    OBVIOUS
  <2>2. n \in Nodes /\ Becomes(t, r) /\ team' = [team EXCEPT ![t] = Pushed(team[t], n)]
    BY <1>0, <1>1, <1>2, <1>6, <2>1 DEF Becomes
  <2>3. r \in Record /\ r.todo = {} /\ ((r.pc = "flush" /\ r.pending # <<>>) \/ r.pc = "loop")
    <3>1. <<n>> # <<>>
      OBVIOUS
    <3> QED
      BY <1>3, <2>1, <2>2, <3>1, RecordPushed
  <2>4. Entries(queue, team', E) /\ NewEntries(queue, team', E) = NewEntries(queue, team, E) \cup {n}
    <3>1. n \notin OldEntries(queue, E) /\ n \notin NewEntries(queue, team, E)
      BY <1>1, <1>5, <1>6
    <3>2. Receives(queue, team, E, [team EXCEPT ![t] = Pushed(team[t], n)], n)
      BY <1>0, <2>2, <3>1, EntriesPush
    <3>3. Receives(queue, team, E, team', n)
      BY <2>2, <3>2
    <3> QED
      BY <3>3 DEF Receives
  <2>5. Entries(queue, team, E)'
    BY <1>0, <2>4
  <2>6. TeamOK'
    <3>1. r.pc \in LabelsOf(phase) /\ ~Leaving(r)
      BY <1>0, <2>3, LabelsAre DEF Leaving
    <3>2. work' \subseteq work
      BY <1>1
    <3> QED
      BY <1>0, <2>2, <2>3, <3>1, <3>2, TeamKept
  <2>7. BfsTypeOK'
    <3>1. team' \in [Threads -> Record]
      BY <1>0, <2>2, <2>3, TeamStep
    <3> QED
      BY <1>0, <3>1 DEF BfsTypeOK
  <2>8. BQInv(B, d, E)'
    <3>1. NewEntries(queue', team', E) = front \ work'
      BY <1>0, <1>1, <1>5, <1>6, <2>4
    <3>2. OldEntries(queue', E) = OldEntries(queue, E)
      BY <1>0
    <3> QED
      BY <1>0, <1>4, <2>2, <2>3, <3>1, <3>2, BQMove
  <2>9. Round(B, d, E)'
    BY <1>0, <2>8 DEF Round
  <2> QED
    BY <1>4, <2>5, <2>6, <2>7, <2>9 DEF Parts
<1>7. CASE n \notin front
  <2>1. team' = team /\ work' \subseteq work /\ front \ work' = front \ work
    BY <1>1, <1>7
  <2>2. Entries(queue, team, E)' /\ BfsTypeOK'
    BY <1>0, <2>1 DEF BfsTypeOK
  <2>3. TeamOK'
    <3>1. \A x \in Threads : /\ team[x].pc \in LabelsOf(phase)
                             /\ Leaving(team[x]) => work = {} /\ team[x].todo = {}
      BY <1>0 DEF TeamOK
    <3>2. \A x \in Threads : ~Leaving(team[x])
      BY <1>1, <3>1
    <3>3. \A x \in Threads : /\ team'[x].pc \in LabelsOf(phase')
                             /\ Leaving(team'[x]) => work' = {} /\ team'[x].todo = {}
      BY <1>0, <2>1, <3>1, <3>2
    <3> QED
      BY <3>3 DEF TeamOK
  <2>4. BQInv(B, d, E)'
    <3>1. NewEntries(queue', team', E) = front \ work'
      BY <1>0, <1>5, <2>1
    <3> QED
      BY <1>0, <1>4, <2>1, <3>1 DEF BQInv
  <2>5. Round(B, d, E)'
    BY <1>0, <2>4 DEF Round
  <2> QED
    BY <1>4, <2>2, <2>3, <2>5 DEF Parts
<1> QED
  BY <1>6, <1>7

-----------------------------------------------------------------------------
(***************************************************************************)
(* The inductive invariant holds in every state.                            *)
(***************************************************************************)
\* Every vertex but the source starts with a negative entry, minus its degree.
LEMMA InitParentIs ==
  ASSUME input \in Inputs, parent = InitParent
  PROVE  /\ parent \in [Nodes -> Int] /\ Visited = {input.source}
         /\ parent[input.source] = input.source
<1>1. InputOK(input)
  BY BfsAssumption
<1>2. input.adj \in [Nodes -> SUBSET Nodes] /\ input.source \in Nodes
  BY <1>1 DEF InputOK
<1>3. input.source \in Nat
  BY <1>2, NodesAre
<1>4. ASSUME NEW n \in Nodes
      PROVE  /\ parent[n] \in Int /\ (n = input.source => parent[n] = n)
             /\ (n # input.source => parent[n] < 0)
  <2>1. out_degree(n) \in Nat
    <3>1. input.adj[n] \in SUBSET Nodes
      BY <1>2
    <3>2. IsFiniteSet(input.adj[n])
      BY <3>1, NodesAre, FS_Subset
    <3> QED
      BY <3>2, FS_CardinalityType DEF out_degree
  <2>2. parent[n] = IF n = input.source THEN n
                    ELSE IF out_degree(n) # 0 THEN -out_degree(n) ELSE -1
    BY DEF InitParent
  <2> QED
    BY <1>3, <2>1, <2>2
<1>5. parent \in [Nodes -> Int]
  BY <1>4 DEF InitParent
<1>6. Visited = {input.source}
  BY <1>2, <1>3, <1>4 DEF Visited
<1> QED
  BY <1>2, <1>4, <1>5, <1>6

\* The search starts with the source in the queue.
LEMMA InitKeeps ==
  ASSUME BfsInit
  PROVE  BfsInv
<1> DEFINE q == slide_window(push_back(NewQueue(num_nodes), input.source))
           E == [i \in Shared(q) |-> input.source]
<1>1. /\ input \in Inputs /\ parent = InitParent /\ queue = q /\ front = {} /\ curr = {}
      /\ phase = "head" /\ work = {} /\ team = Rest
  BY DEF BfsInit, Rest
<1>2. /\ input.adj \in [Nodes -> SUBSET Nodes] /\ input.source \in Nodes
  BY <1>1, BfsAssumption DEF InputOK
<1>3. PICK B \in [Nat -> SUBSET Nodes] : Grows(B, input.adj, input.source)
  BY <1>2, BallsExist
<1>4. /\ q \in Queue /\ q.shared_out_end = q.shared_in
      /\ Entries(q, Rest, E) /\ WindowEntries(q, E) = {input.source}
      /\ OldEntries(q, E) = {input.source}
  BY <1>2, EntriesInit
<1> HIDE DEF q, E
<1>5. /\ parent \in [Nodes -> Int] /\ Visited = {input.source}
      /\ parent[input.source] = input.source
  BY <1>1, InitParentIs
<1>6. B[0] = {input.source} /\ Ring(B, 0) = {input.source}
  BY <1>3 DEF Grows, Ring
<1>7. BfsTypeOK
  BY <1>1, <1>4, <1>5, RestIs DEF BfsTypeOK, Phases
<1>8. TeamOK
  BY <1>1, RestIs, LabelsAre DEF TeamOK
<1>9. Balls(B)
  BY <1>3 DEF Balls
<1>10. Tree(B)
  <2>1. \A n \in Nodes : parent[n] >= 0 => parent[n] \in Nodes
    BY <1>2, <1>5 DEF Visited
  <2> QED
    BY <1>5, <2>1 DEF Tree
<1>11. HeadInv(B, 0, E)
  <2>1. Settled
    BY <1>1, <1>4, RestIs DEF Settled
  <2> QED
    BY <1>1, <1>4, <1>5, <1>6, <2>1 DEF HeadInv
<1>12. Round(B, 0, E)
  BY <1>1, <1>11 DEF Round
<1>13. Parts(B, 0, E)
  BY <1>1, <1>4, <1>7, <1>8, <1>9, <1>10, <1>12 DEF Parts
<1> QED
  BY <1>13 DEF BfsInv

\* A step that changes nothing.
LEMMA StutterKeeps ==
  ASSUME NEW B, NEW E, NEW d \in Nat, Parts(B, d, E), UNCHANGED bfsVars
  PROVE  Parts(B, d, E)'
<1>1. /\ input' = input /\ parent' = parent /\ queue' = queue /\ front' = front /\ curr' = curr
      /\ phase' = phase /\ work' = work /\ team' = team
  BY DEF bfsVars
<1>2. /\ BfsTypeOK /\ TeamOK /\ Balls(B) /\ Tree(B) /\ Entries(queue, team, E) /\ Round(B, d, E)
  BY DEF Parts
<1>3. /\ Balls(B)' /\ Tree(B)' /\ Visited' = Visited
      /\ \A u \in Nodes : out_neigh(u)' = out_neigh(u)
  BY <1>1, <1>2, TreeKept
<1>4. BfsTypeOK'
  BY <1>1, <1>2 DEF BfsTypeOK
<1>5. TeamOK'
  BY <1>1, <1>2 DEF TeamOK
<1>6. Entries(queue, team, E)'
  BY <1>1, <1>2
<1>7. \A u : out_neigh(u)' = out_neigh(u)
  BY <1>1 DEF out_neigh
<1>8. Settled' = Settled /\ Storing' = Storing
  BY <1>1 DEF Settled, Storing
<1>9. /\ HeadInv(B, d, E)' = HeadInv(B, d, E)
      /\ QBInv(B, d, E)' = QBInv(B, d, E)
      /\ BQInv(B, d, E)' = BQInv(B, d, E)
      /\ DoneInv(B, d)' = DoneInv(B, d)
  BY <1>1, <1>3, <1>8 DEF HeadInv, QBInv, BQInv, DoneInv
<1>10. BUInv(B, d, E)' = BUInv(B, d, E)
  BY <1>1, <1>3, <1>8 DEF BUInv
<1>11. TDInv(B, d, E)' = TDInv(B, d, E)
  <2>1. TDCovers(B, d, E)' = TDCovers(B, d, E)
    BY <1>1, <1>3, <1>7 DEF TDCovers
  <2>2. \A t \in Threads : TDThread(team[t], B, d)' = TDThread(team[t], B, d)
    BY <1>1, <1>7 DEF TDThread
  <2> QED
    BY <1>1, <1>3, <2>1, <2>2 DEF TDInv
<1>12. Round(B, d, E)'
  BY <1>1, <1>2, <1>9, <1>10, <1>11 DEF Round
<1> QED
  BY <1>3, <1>4, <1>5, <1>6, <1>12 DEF Parts

\* Every step of the program keeps the invariant.
LEMMA NextKeeps ==
  ASSUME Undirected, BfsInv, [BfsNext]_bfsVars
  PROVE  BfsInv'
<1>1. PICK B, E : \E d \in Nat : Parts(B, d, E)
  BY DEF BfsInv
<1>2. PICK d \in Nat : Parts(B, d, E)
  BY <1>1
<1>3. d + 1 \in Nat
  OBVIOUS
<1>4. SUFFICES \E F : \E k \in Nat : Parts(B, k, F)'
  BY DEF BfsInv
<1>5. CASE Master
  <2>1. CASE GoBottomUp
    BY <1>2, <2>1, GoBottomUpKeeps
  <2>2. CASE GoTopDown
    BY <1>2, <2>2, GoTopDownKeeps
  <2>3. CASE Finish
    BY <1>2, <2>3, FinishKeeps
  <2>4. CASE EndQueueToBitmap
    BY <1>2, <2>4, EndQueueToBitmapKeeps
  <2>5. CASE AgainBottomUp
    BY <1>2, <1>3, <2>5, AgainBottomUpKeeps
  <2>6. CASE LeaveBottomUp
    BY <1>2, <1>3, <2>6, LeaveBottomUpKeeps
  <2>7. CASE EndBitmapToQueue
    BY <1>2, <2>7, EndBitmapToQueueKeeps
  <2>8. CASE EndTDStep
    BY <1>2, <1>3, <2>8, EndTDStepKeeps
  <2> QED
    BY <1>5, <2>1, <2>2, <2>3, <2>4, <2>5, <2>6, <2>7, <2>8 DEF Master
<1>6. ASSUME NEW t \in Threads, Thread(t) PROVE \E F : \E k \in Nat : Parts(B, k, F)'
  <2>1. CASE LeaveLoop(t)
    BY <1>2, <2>1, LeaveLoopKeeps
  <2>2. CASE Flush(t)
    BY <1>2, <2>2, FlushKeeps
  <2>3. CASE Copy(t)
    BY <1>2, <2>3, CopyKeeps
  <2>4. CASE TDTake(t)
    BY <1>2, <2>4, TDTakeKeeps
  <2>5. CASE TDLook(t)
    BY <1>2, <2>5, TDLookKeeps
  <2>6. CASE TDClaim(t)
    BY <1>2, <2>6, TDClaimKeeps
  <2>7. CASE QBTake(t)
    BY <1>2, <2>7, QBTakeKeeps
  <2>8. CASE QBSwap(t)
    BY <1>2, <2>8, QBSwapKeeps
  <2>9. CASE BUTake(t)
    BY <1>2, <2>9, BUTakeKeeps
  <2>10. CASE BULook(t)
    BY <1>2, <2>10, BULookKeeps
  <2>11. CASE BUStore(t)
    BY <1>2, <2>11, BUStoreKeeps
  <2>12. CASE BQTake(t)
    BY <1>2, <2>12, BQTakeKeeps
  <2> QED
    BY <1>6, <2>1, <2>2, <2>3, <2>4, <2>5, <2>6, <2>7, <2>8, <2>9, <2>10, <2>11, <2>12 DEF Thread
<1>7. CASE UNCHANGED bfsVars
  BY <1>2, <1>7, StutterKeeps
<1> QED
  BY <1>5, <1>6, <1>7 DEF BfsNext, Terminated

\* The parts of the invariant hold in every state of the search, for any graphs
\* that were symmetrized: DOBFS (bfs.cc:122-173).
THEOREM BfsInvariant ==
  ASSUME Undirected
  PROVE  BfsSpec => []BfsInv
<1>1. BfsInit => BfsInv
  BY InitKeeps
<1>2. BfsInv /\ [BfsNext]_bfsVars => BfsInv'
  BY NextKeeps
<1> QED
  BY <1>1, <1>2, PTL DEF BfsSpec

-----------------------------------------------------------------------------
(***************************************************************************)
(* What the invariant says of the search.                                   *)
(***************************************************************************)
\* At the head of the loop the depth may count empty levels beyond the last
\* vertex; they are the same as level num_nodes.
LEMMA HeadIsALevel ==
  ASSUME BfsInv
  PROVE  LevelByLevel
<1> SUFFICES ASSUME phase = "head"
             PROVE  \E k \in 0 .. num_nodes : Visited = Ball[k] /\ Window(queue) = Level(k)
  BY DEF LevelByLevel
<1>1. PICK B, E : \E d \in Nat : Parts(B, d, E)
  BY DEF BfsInv
<1>2. PICK d \in Nat : Parts(B, d, E)
  BY <1>1
<1>3. /\ BfsTypeOK /\ Balls(B) /\ Entries(queue, team, E)
      /\ Visited = B[d] /\ WindowEntries(queue, E) = Ring(B, d)
  BY <1>2 DEF Parts, Round, HeadInv
<1>4. Window(queue) = Ring(B, d)
  BY <1>3, WindowRead DEF BfsTypeOK
<1>5. /\ num_nodes \in Nat
      /\ \A k \in 0 .. num_nodes : Ball[k] = B[k] /\ Level(k) = Ring(B, k)
  BY <1>3, NodesAre, BallIs
<1>6. CASE d <= num_nodes
  <2>1. d \in 0 .. num_nodes
    BY <1>5, <1>6
  <2> QED
    BY <1>3, <1>4, <1>5, <2>1
<1>7. CASE ~(d <= num_nodes)
  <2>1. /\ B[d] = B[num_nodes] /\ Ring(B, d) = {} /\ Ring(B, num_nodes) = {}
    BY <1>3, <1>5, <1>7, BallsEnd
  <2>2. num_nodes \in 0 .. num_nodes
    BY <1>5
  <2> QED
    BY <1>3, <1>4, <1>5, <2>1, <2>2
<1> QED
  BY <1>6, <1>7

\* Different positions of the window hold different vertices.
LEMMA WindowCounts ==
  ASSUME NEW q \in Queue, NEW tm \in [Threads -> Record], NEW E, Entries(q, tm, E)
  PROVE  Cardinality(Window(q)) = WindowSize(q)
<1> DEFINE P == WindowPositions(q)
           a == q.shared_out_start
           b == q.shared_out_end - 1
           f == [i \in P |-> E[i]]
<1>1. a \in Nat /\ b \in Int /\ P = a .. b /\ a <= b + 1 /\ WindowSize(q) = b + 1 - a
  BY DEF Queue, Entries, WindowPositions, WindowSize
<1>2. (a > b => WindowSize(q) = 0) /\ (~(a > b) => WindowSize(q) = b - a + 1) /\ a \in Int
  BY <1>1
<1> HIDE DEF a, b
<1>3. IsFiniteSet(P) /\ Cardinality(P) = WindowSize(q)
  <2>1. IsFiniteSet(a .. b) /\ Cardinality(a .. b) = IF a > b THEN 0 ELSE b - a + 1
    BY <1>1, <1>2, FS_Interval
  <2> QED
    BY <1>1, <1>2, <2>1
<1>4. /\ \A i \in P : i \in Shared(q)
      /\ Window(q) = {E[i] : i \in P}
  BY WindowRead DEF WindowEntries
<1>5. \A i, j \in Shared(q) : E[i] = E[j] => i = j
  BY DEF Entries
<1> HIDE DEF P
<1>6. f \in Bijection(P, Window(q))
  BY <1>4, <1>5 DEF Bijection, Injection, IsInjective, Surjection
<1>7. ExistsBijection(P, Window(q))
  BY <1>6 DEF ExistsBijection
<1> QED
  BY <1>3, <1>7, FS_Bijection

\* An entry of the queue for every vertex is enough.
LEMMA EntriesAreEnough ==
  ASSUME BfsInv
  PROVE  QueueFits
<1>1. PICK B, E : \E d \in Nat : Parts(B, d, E)
  BY DEF BfsInv
<1>2. PICK d \in Nat : Parts(B, d, E)
  BY <1>1
<1>3. queue \in Queue /\ team \in [Threads -> Record] /\ Entries(queue, team, E)
  BY <1>2 DEF Parts, BfsTypeOK
<1>4. queue.shared_in <= num_nodes
  BY <1>3, EntriesFit
<1>5. Cardinality(Window(queue)) = WindowSize(queue)
  BY <1>3, WindowCounts
<1> QED
  BY <1>4, <1>5 DEF QueueFits

\* A visited vertex is one level below its parent, and the search has visited
\* all it can reach when it has found an empty level.
LEMMA ResultIsATree ==
  ASSUME BfsInv
  PROVE  VerifierAccepts
<1> SUFFICES ASSUME phase = "done"
             PROVE  /\ parent[input.source] = input.source
                    /\ \A n \in Nodes \ {input.source} :
                         \/ \E d \in 1 .. num_nodes : n \in Level(d) /\ parent[n] \in Level(d - 1)
                                                      /\ n \in out_neigh(parent[n])
                         \/ n \notin Ball[num_nodes] /\ parent[n] = -1
  BY DEF VerifierAccepts
<1>1. PICK B, E : \E d \in Nat : Parts(B, d, E)
  BY DEF BfsInv
<1>2. PICK d \in Nat : Parts(B, d, E)
  BY <1>1
<1>3. /\ Balls(B) /\ Tree(B) /\ Visited = B[d] /\ Ring(B, d) = {}
      /\ \A n \in Nodes \ Visited : parent[n] = -1
  BY <1>2 DEF Parts, Round, DoneInv
<1>4. /\ num_nodes \in Nat
      /\ \A k \in 0 .. num_nodes : Ball[k] = B[k] /\ Level(k) = Ring(B, k)
  BY <1>3, NodesAre, BallIs
<1>5. ASSUME NEW n \in Visited \ {input.source}
      PROVE  \E k \in 1 .. num_nodes : n \in Level(k) /\ parent[n] \in Level(k - 1)
                                       /\ n \in out_neigh(parent[n])
  <2>1. PICK k \in Nat : /\ n \in B[k + 1] /\ n \notin B[k]
                         /\ parent[n] \in B[k] /\ n \in out_neigh(parent[n])
    BY <1>3 DEF Tree
  <2>2. k + 1 \in Nat /\ (k + 1) - 1 = k
    OBVIOUS
  <2>3. n \in Ring(B, k + 1)
    BY <1>3, <2>1, RingIs
  <2>4. ~(k + 1 >= num_nodes)
    BY <1>3, <2>2, <2>3, BallsEnd
  <2>5. k + 1 \in 1 .. num_nodes /\ k + 1 \in 0 .. num_nodes /\ k \in 0 .. num_nodes
    BY <1>4, <2>2, <2>4
  <2>6. parent[n] \in Ring(B, k)
    <3>1. CASE k = 0
      BY <2>1, <3>1 DEF Ring
    <3>2. CASE k # 0
      <4>1. k - 1 \in Nat /\ (k - 1) + 1 = k
        BY <3>2
      <4>2. \A u \in B[k - 1] : \A w \in out_neigh(u) : w \in B[(k - 1) + 1]
        BY <1>3, <4>1, BallsNext
      <4>3. parent[n] \notin B[k - 1]
        BY <2>1, <4>1, <4>2
      <4> QED
        BY <2>1, <3>2, <4>3 DEF Ring
    <3> QED
      BY <3>1, <3>2
  <2>7. n \in Level(k + 1) /\ parent[n] \in Level((k + 1) - 1)
    BY <1>4, <2>2, <2>3, <2>5, <2>6
  <2> QED
    BY <2>1, <2>5, <2>7
<1>6. B[num_nodes] = B[d]
  <2>1. CASE d <= num_nodes
    BY <1>3, <1>4, <2>1, BallsStop
  <2>2. CASE ~(d <= num_nodes)
    BY <1>3, <1>4, <2>2, BallsEnd
  <2> QED
    BY <2>1, <2>2
<1>7. num_nodes \in 0 .. num_nodes
  BY <1>4
<1>8. ASSUME NEW n \in Nodes, n \notin Visited
      PROVE  n \notin Ball[num_nodes] /\ parent[n] = -1
  BY <1>3, <1>4, <1>6, <1>7, <1>8
<1>9. parent[input.source] = input.source
  BY <1>3 DEF Tree
<1> QED
  BY <1>5, <1>8, <1>9

-----------------------------------------------------------------------------
\* Each round of DOBFS (bfs.cc:140-166) ends with the whole of a level, and
\* nothing else, in the queue.
THEOREM GoesLevelByLevel ==
  ASSUME Undirected
  PROVE  BfsSpec => []LevelByLevel
<1>1. BfsInv => LevelByLevel
  BY HeadIsALevel
<1> QED
  BY <1>1, BfsInvariant, PTL

\* The array of a SlidingQueue is never written beyond its end (the constructor
\* of bfs.cc:131 gives it num_nodes entries, sliding_queue.h does not check).
THEOREM QueueIsLongEnough ==
  ASSUME Undirected
  PROVE  BfsSpec => []QueueFits
<1>1. BfsInv => QueueFits
  BY EntriesAreEnough
<1> QED
  BY <1>1, BfsInvariant, PTL

\* The result is a tree of shortest paths to every vertex that can be reached,
\* which is what BFSVerifier (bfs.cc:195-241) tests.
THEOREM VerifierIsSatisfied ==
  ASSUME Undirected
  PROVE  BfsSpec => []VerifierAccepts
<1>1. BfsInv => VerifierAccepts
  BY ResultIsATree
<1> QED
  BY <1>1, BfsInvariant, PTL
=============================================================================
