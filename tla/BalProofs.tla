------------------------------ MODULE BalProofs ------------------------------
(***************************************************************************)
(* The blocked adjacency list inserts atomically, counts its edges and      *)
(* opens with what it was closed with, for any number of vertices, threads  *)
(* and edges and any length of a block.                                     *)
(***************************************************************************)
EXTENDS Bal, Induction

-----------------------------------------------------------------------------
(***************************************************************************)
(* Positions.  Edge i of a list, counted from 0, is in cell i % BLOCK_SIZE  *)
(* of block i \div BLOCK_SIZE of its chain.                                 *)
(***************************************************************************)
\* A block has room for an edge.
LEMMA BlockSize == BLOCK_SIZE \in Nat /\ BLOCK_SIZE > 0
BY BalAssumption

\* Quotient and remainder give the position back.
LEMMA DivMod ==
  ASSUME NEW n \in Nat
  PROVE  /\ n \div BLOCK_SIZE \in Nat /\ n % BLOCK_SIZE \in 0 .. BLOCK_SIZE - 1
         /\ n = BLOCK_SIZE * (n \div BLOCK_SIZE) + (n % BLOCK_SIZE)
BY BlockSize

\* Different positions are in different cells or different blocks.
LEMMA DivModUnique ==
  ASSUME NEW m \in Nat, NEW n \in Nat,
         m \div BLOCK_SIZE = n \div BLOCK_SIZE, m % BLOCK_SIZE = n % BLOCK_SIZE
  PROVE  m = n
BY DivMod

\* A later position is in the same block or a later one.
LEMMA DivMonotone ==
  ASSUME NEW m \in Nat, NEW n \in Nat, m <= n
  PROVE  m \div BLOCK_SIZE <= n \div BLOCK_SIZE
<1> DEFINE b == BLOCK_SIZE
           p == m \div b
           q == n \div b
<1>1. /\ b \in Nat /\ b > 0 /\ p \in Nat /\ q \in Nat
      /\ m % b \in 0 .. b - 1 /\ n % b \in 0 .. b - 1
      /\ m = b * p + (m % b) /\ n = b * q + (n % b)
  BY BlockSize, DivMod
<1>2. SUFFICES ASSUME p >= q + 1 PROVE FALSE
  <2> HIDE DEF p, q
  <2> QED
    BY <1>1
<1>3. b * p >= b * q + b
  <2> HIDE DEF p, q, b
  <2>1. b * p >= b * (q + 1)
    BY <1>1, <1>2
  <2>2. b * (q + 1) = b * q + b
    BY <1>1
  <2> QED
    BY <1>1, <2>1, <2>2
<1> QED
  <2>1. b * p \in Nat /\ b * q \in Nat
    BY <1>1
  <2> HIDE DEF p, q, b
  <2> QED
    BY <1>1, <1>3, <2>1

\* The position after the last cell of a block is the first of the next block.
LEMMA DivNext ==
  ASSUME NEW n \in Nat
  PROVE  (n + 1) \div BLOCK_SIZE = IF (n + 1) % BLOCK_SIZE = 0
                                   THEN n \div BLOCK_SIZE + 1 ELSE n \div BLOCK_SIZE
<1> DEFINE b == BLOCK_SIZE
           p == n \div b
           q == (n + 1) \div b
           r == n % b
           s == (n + 1) % b
<1>1. /\ b \in Nat /\ b > 0 /\ p \in Nat /\ q \in Nat
      /\ r \in 0 .. b - 1 /\ s \in 0 .. b - 1
      /\ n = b * p + r /\ n + 1 = b * q + s
  BY BlockSize, DivMod
<1>2. p <= q
  BY DivMonotone
<1> HIDE DEF b, p, q, r, s
<1>3. b * p \in Nat /\ b * q \in Nat
  BY <1>1
<1>4. q <= p + 1
  <2> SUFFICES ASSUME q >= p + 2 PROVE FALSE
    BY <1>1
  <2>1. b * q >= b * (p + 2)
    BY <1>1
  <2>2. b * (p + 2) = b * p + b + b
    BY <1>1
  <2> QED
    BY <1>1, <1>3, <2>1, <2>2
<1>5. ASSUME q = p PROVE s # 0
  <2>1. b * q = b * p
    BY <1>5
  <2> QED
    BY <1>1, <1>3, <2>1
<1>6. ASSUME q = p + 1 PROVE s = 0
  <2>1. b * q = b * p + b
    BY <1>1, <1>6
  <2> QED
    BY <1>1, <1>3, <2>1
<1>7. q = IF s = 0 THEN p + 1 ELSE p
  BY <1>1, <1>2, <1>4, <1>5, <1>6
<1> QED
  BY <1>7 DEF b, p, q, r, s

\* The blocks that a list of d edges uses.
Used(d) == IF d = 0 THEN 0 ELSE (d - 1) \div BLOCK_SIZE + 1

\* Where edge d goes: to a new block exactly when d is a multiple of the length
\* of a block, and no edge before it is in a later one.
LEMMA UsedBlocks ==
  ASSUME NEW d \in Nat
  PROVE  /\ Used(d) \in Nat /\ (d > 0 => Used(d) > 0)
         /\ d \div BLOCK_SIZE \in Nat /\ d % BLOCK_SIZE \in 0 .. BLOCK_SIZE - 1
         /\ Used(d + 1) = d \div BLOCK_SIZE + 1
         /\ d % BLOCK_SIZE = 0 => Used(d) = d \div BLOCK_SIZE
         /\ d % BLOCK_SIZE # 0 => Used(d) = d \div BLOCK_SIZE + 1
         /\ \A i \in 1 .. d : /\ (i - 1) \div BLOCK_SIZE + 1 \in 1 .. Used(d)
                              /\ (i - 1) % BLOCK_SIZE \in 0 .. BLOCK_SIZE - 1
<1>1. d \div BLOCK_SIZE \in Nat /\ d % BLOCK_SIZE \in 0 .. BLOCK_SIZE - 1
  BY DivMod
<1>2. Used(d + 1) = d \div BLOCK_SIZE + 1
  <2>1. (d + 1) - 1 = d /\ d + 1 # 0
    OBVIOUS
  <2> QED
    BY <2>1 DEF Used
<1>3. CASE d = 0
  <2>1. 0 \div BLOCK_SIZE = 0 /\ 0 % BLOCK_SIZE = 0
    BY BlockSize
  <2>2. Used(d) = 0
    BY <1>3 DEF Used
  <2> QED
    BY <1>1, <1>2, <1>3, <2>1, <2>2
<1>4. CASE d > 0
  <2> DEFINE p == d - 1
  <2>1. p \in Nat /\ p + 1 = d /\ p \div BLOCK_SIZE \in Nat
    <3>1. p \in Nat /\ p + 1 = d
      BY <1>4
    <3> QED
      BY <3>1, DivMod
  <2>2. Used(d) = p \div BLOCK_SIZE + 1
    BY <1>4 DEF Used
  <2>3. d \div BLOCK_SIZE = IF d % BLOCK_SIZE = 0 THEN p \div BLOCK_SIZE + 1 ELSE p \div BLOCK_SIZE
    <3> HIDE DEF p
    <3> QED
      BY <2>1, DivNext
  <2>4. ASSUME NEW i \in 1 .. d
        PROVE  /\ (i - 1) \div BLOCK_SIZE + 1 \in 1 .. Used(d)
               /\ (i - 1) % BLOCK_SIZE \in 0 .. BLOCK_SIZE - 1
    <3>1. i - 1 \in Nat /\ i - 1 <= p
      OBVIOUS
    <3>2. (i - 1) \div BLOCK_SIZE <= p \div BLOCK_SIZE
      BY <2>1, <3>1, DivMonotone
    <3>3. (i - 1) \div BLOCK_SIZE \in Nat /\ (i - 1) % BLOCK_SIZE \in 0 .. BLOCK_SIZE - 1
      BY <3>1, DivMod
    <3> HIDE DEF p
    <3> QED
      BY <2>1, <2>2, <3>2, <3>3
  <2> HIDE DEF p
  <2> QED
    BY <1>1, <1>2, <2>1, <2>2, <2>3, <2>4
<1> QED
  BY <1>3, <1>4

-----------------------------------------------------------------------------
(***************************************************************************)
(* Chains.  The iterator of out_neigh, which follows next_offset, meets the *)
(* blocks of a chain in their order.                                        *)
(***************************************************************************)
Block == [cells : [0 .. BLOCK_SIZE - 1 -> Nodes \cup {Hole}], next_offset : Nat]

IsChain(w, heap) ==
  /\ w \in Seq(DOMAIN heap)
  /\ \A k \in 1 .. Len(w) - 1 : heap[w[k]].next_offset = w[k + 1]

Read(heap, w, d) ==
  [i \in 1 .. d |-> heap[w[(i - 1) \div BLOCK_SIZE + 1]].cells[(i - 1) % BLOCK_SIZE]]

Follows(chain, first, heap) ==
  chain = [k \in Nat |-> IF k = 0 THEN first
                         ELSE IF chain[k - 1] \in DOMAIN heap
                              THEN heap[chain[k - 1]].next_offset ELSE 0]

\* The iterator goes from each block to the one it links to.
LEMMA ChainSteps ==
  ASSUME NEW heap, \A b \in DOMAIN heap : heap[b].next_offset \in Nat, NEW first \in Nat
  PROVE  LET chain == chain_of(first, heap) IN
           /\ chain[0] = first
           /\ \A k \in Nat : chain[k] \in DOMAIN heap => chain[k + 1] = heap[chain[k]].next_offset
<1> DEFINE after(b) == IF b \in DOMAIN heap THEN heap[b].next_offset ELSE 0
           step == [p \in Nat \X Nat |-> after(p[1])]
<1>1. step \in [Nat \X Nat -> Nat]
  OBVIOUS
<1>2. PICK f \in [Nat -> Nat] : Recurs(f, first, step)
  <2> HIDE DEF step
  <2> QED
    BY <1>1, Recursion
<1>3. f[0] = first /\ \A k \in Nat : f[k + 1] = after(f[k])
  <2> HIDE DEF after
  <2> QED
    BY <1>2 DEF Recurs
<1>4. Follows(f, first, heap)
  <2>1. ASSUME NEW k \in Nat, k # 0 PROVE f[k] = after(f[k - 1])
    <3>1. k - 1 \in Nat /\ (k - 1) + 1 = k
      BY <2>1
    <3> HIDE DEF after
    <3> QED
      BY <1>3, <3>1
  <2>2. \A k \in Nat : f[k] = IF k = 0 THEN first ELSE after(f[k - 1])
    <3> HIDE DEF after
    <3> QED
      BY <1>3, <2>1
  <2> QED
    BY <2>2 DEF Follows
<1> DEFINE chain == CHOOSE c : Follows(c, first, heap)
<1>5. Follows(chain, first, heap)
  BY <1>4
<1>6. chain_of(first, heap) = chain
  BY DEF chain_of, Follows
<1> HIDE DEF chain
<1>7. chain = [k \in Nat |-> IF k = 0 THEN first ELSE after(chain[k - 1])]
  BY <1>5 DEF Follows
<1>8. chain[0] = first
  BY <1>7
<1>9. ASSUME NEW k \in Nat PROVE chain[k + 1] = after(chain[k])
  <2>1. k + 1 \in Nat /\ k + 1 # 0 /\ (k + 1) - 1 = k
    OBVIOUS
  <2> HIDE DEF after
  <2> QED
    BY <1>7, <2>1
<1> QED
  BY <1>6, <1>8, <1>9

\* What out_neigh returns is what the cells of the chain hold.
LEMMA Reading ==
  ASSUME NEW heap \in Seq(Block), NEW w, IsChain(w, heap), NEW v, v.degree \in Nat,
         Used(v.degree) <= Len(w), NEW first, v.degree > 0 => first = w[1]
  PROVE  edges_of(v, first, heap) = Read(heap, w, v.degree)
<1> DEFINE chain == chain_of(first, heap)
           d == v.degree
<1>1. CASE d = 0
  <2>1. 1 .. d = {}
    BY <1>1
  <2> QED
    BY <2>1 DEF edges_of, Read
<1>2. CASE d > 0
  <2>1. \A b \in DOMAIN heap : b \in Nat /\ heap[b].next_offset \in Nat
    <3>1. \A b \in DOMAIN heap : b \in Nat /\ heap[b] \in Block
      OBVIOUS
    <3>2. \A x \in Block : x.next_offset \in Nat
      BY DEF Block
    <3> QED
      BY <3>1, <3>2
  <2>2. w \in Seq(DOMAIN heap) /\ Len(w) \in Nat
    BY DEF IsChain
  <2>3. Used(d) > 0 /\ Used(d) \in Nat
    BY <1>2, UsedBlocks
  <2>4. first = w[1] /\ 1 \in 1 .. Len(w)
    BY <1>2, <2>2, <2>3
  <2>5. first \in Nat
    BY <2>1, <2>2, <2>4
  <2>6. /\ chain[0] = first
        /\ \A k \in Nat : chain[k] \in DOMAIN heap => chain[k + 1] = heap[chain[k]].next_offset
    BY <2>1, <2>5, ChainSteps
  <2> HIDE DEF chain
  <2> DEFINE D == {k \in Nat : k + 1 <= Len(w) => chain[k] = w[k + 1]}
  <2>7. 0 \in D
    BY <2>4, <2>6
  <2>8. \A k \in Nat : k \in D => k + 1 \in D
    <3> SUFFICES ASSUME NEW k \in Nat, k \in D, (k + 1) + 1 <= Len(w)
                 PROVE  chain[k + 1] = w[(k + 1) + 1]
      OBVIOUS
    <3>1. k + 1 \in 1 .. Len(w) - 1 /\ k + 1 \in 1 .. Len(w)
      BY <2>2
    <3>2. chain[k] = w[k + 1]
      BY <3>1
    <3>3. w[k + 1] \in DOMAIN heap
      BY <2>2, <3>1
    <3>4. heap[w[k + 1]].next_offset = w[(k + 1) + 1]
      BY <3>1 DEF IsChain
    <3>5. chain[k + 1] = heap[chain[k]].next_offset
      BY <2>6, <3>2, <3>3
    <3> QED
      BY <3>2, <3>4, <3>5
  <2> HIDE DEF D
  <2>9. \A k \in Nat : k \in D
    BY <2>7, <2>8, Induction
  <2>10. ASSUME NEW i \in 1 .. d
         PROVE  /\ chain[(i - 1) \div BLOCK_SIZE] = w[(i - 1) \div BLOCK_SIZE + 1]
                /\ chain[(i - 1) \div BLOCK_SIZE] \in DOMAIN heap
    <3> DEFINE k == (i - 1) \div BLOCK_SIZE
    <3>1. k + 1 \in 1 .. Used(d)
      BY UsedBlocks
    <3>2. k \in Nat
      <4>1. i - 1 \in Nat
        OBVIOUS
      <4> QED
        BY <4>1, DivMod
    <3>3. k + 1 \in 1 .. Len(w)
      <4> HIDE DEF k
      <4> QED
        BY <2>2, <2>3, <3>1, <3>2
    <3>4. chain[k] = w[k + 1]
      <4> HIDE DEF k
      <4> QED
        BY <2>9, <3>2, <3>3 DEF D
    <3> QED
      BY <2>2, <3>3, <3>4
  <2> QED
    BY <2>10 DEF edges_of, Read, chain
<1> QED
  BY <1>1, <1>2

-----------------------------------------------------------------------------
(***************************************************************************)
(* The inductive invariant, in parts.                                       *)
(***************************************************************************)
Vertex == [head : Nat, tail : Nat, degree : Nat]
Labels == {"idle", "allocate", "link", "store", "count", "load", "swap"}
Phases == {"base", "base copied", "dynamic", "copied", "closed", "reopened"}

BalTypeOK ==
  /\ vertices \in [Nodes -> Vertex] /\ vertices_pmem \in [Nodes -> Vertex]
  /\ mlock \in [Nodes -> Threads \cup {Free}]
  /\ blocks \in Seq(Block)
  /\ num_edges \in Int /\ base_num_edges \in Int /\ mapped \in Nat
  /\ phase \in Phases
  /\ todo \in [Threads -> Seq(Edges)]
  /\ pc \in [Threads -> Labels]
  /\ block \in [Threads -> Nat] /\ old_val \in [Threads -> Int]

Locked == {"allocate", "link", "store", "count"}
Counting == {"load", "swap"}

\* A thread inserts only while it has edges left and holds the lock of its
\* source until the edge counts; the program goes on when all are done.
Sections ==
  /\ \A t \in Threads : pc[t] # "idle" => todo[t] # <<>>
  /\ \A t \in Threads : pc[t] \in Locked => mlock[src(t)] = t
  /\ \A t \in Threads : pc[t] \in Counting => phase = "dynamic"
  /\ phase \notin {"base", "dynamic"} => AllDone

\* What vertices_pmem_ holds of a list is a beginning of it.
Copied ==
  \A u \in Nodes :
    /\ vertices_pmem[u].degree <= vertices[u].degree
    /\ vertices_pmem[u].degree > 0 => vertices_pmem[u].head = vertices[u].head

DegreeSum(vs) == SumFunction([u \in Nodes |-> vs[u].degree])
EdgesLeft(q) == SumFunction([t \in Threads |-> Len(q[t])])

\* Every edge of the base graph is in a list or still to do, the number of
\* edges is theirs until the dynamic edges come, and what was flushed agrees.
Counts ==
  /\ phase = "base" => DegreeSum(vertices) + EdgesLeft(todo) = n_edges
  /\ phase = "base copied" => DegreeSum(vertices) = n_edges
  /\ phase \in {"base", "base copied"} => num_edges = n_edges
  /\ phase \in {"base", "base copied", "dynamic", "copied"} => base_num_edges = n_edges
  /\ phase \in {"dynamic", "copied"} => DegreeSum(vertices_pmem) = n_edges
  /\ phase = "closed" => vertices_pmem = vertices /\ base_num_edges = num_edges
  /\ EdgesCounted

\* The edge of a thread between its store and its count is behind the list.
Stored(u) == \E t \in Threads : pc[t] = "count" /\ src(t) = u

Apart(W) ==
  \A u, v \in Nodes : \A i \in 1 .. Len(W[u]), j \in 1 .. Len(W[v]) :
    W[u][i] = W[v][j] => u = v /\ i = j

Ends(W) ==
  \A u \in Nodes : Len(W[u]) > 0 =>
    vertices[u].head = W[u][1] /\ vertices[u].tail = W[u][Len(W[u])]

Lengths(W) ==
  \A u \in Nodes :
    Len(W[u]) = IF Stored(u) THEN Used(vertices[u].degree + 1) ELSE Used(vertices[u].degree)

\* A thread has gone for a new block just when the tail has no room.
Room ==
  \A t \in Threads :
    /\ pc[t] \in {"allocate", "link"} => NeedsBlock(src(t))
    /\ pc[t] = "store" => ~NeedsBlock(src(t))

\* A block that is not linked yet is in no chain and no other thread's.
Fresh(W) ==
  \A t \in Threads : pc[t] = "link" =>
    /\ block[t] \in DOMAIN blocks /\ blocks[block[t]].cells[0] = dst(t)
    /\ \A u \in Nodes : \A i \in 1 .. Len(W[u]) : W[u][i] # block[t]
    /\ \A s \in Threads : pc[s] = "link" /\ block[s] = block[t] => s = t

Written(W) ==
  \A t \in Threads : pc[t] = "count" =>
    LET d == vertices[src(t)].degree IN
    blocks[W[src(t)][d \div BLOCK_SIZE + 1]].cells[d % BLOCK_SIZE] = dst(t)

\* The blocks of every list, in order.
Chains(W) ==
  /\ W \in [Nodes -> Seq(Nat)]
  /\ \A u \in Nodes : IsChain(W[u], blocks)
  /\ Apart(W) /\ Ends(W) /\ Lengths(W) /\ Fresh(W) /\ Written(W)

Heap == phase # "reopened" => mapped = 0 /\ Room /\ \E W : Chains(W)

BalInv == BalTypeOK /\ Sections /\ Copied /\ Counts /\ Heap

-----------------------------------------------------------------------------
(***************************************************************************)
(* What the assignments to a vertex and to a block change, and what they    *)
(* leave.                                                                   *)
(***************************************************************************)
WithEnds(vs, u, at) == [vs EXCEPT ![u] = [head |-> at, tail |-> at, degree |-> @.degree]]
WithTail(vs, u, at) == [vs EXCEPT ![u].tail = at]
WithEdge(vs, u) == [vs EXCEPT ![u].degree = @ + 1]
WithNext(heap, k, x) == [heap EXCEPT ![k].next_offset = x]
WithCell(heap, k, c, x) == [heap EXCEPT ![k].cells[c] = x]

\* The ends of one list change, and its degree and the other lists do not.
LEMMA VertexChanges ==
  ASSUME NEW vs \in [Nodes -> Vertex], NEW u \in Nodes, NEW at \in Nat
  PROVE  /\ WithEnds(vs, u, at) \in [Nodes -> Vertex]
         /\ WithEnds(vs, u, at)[u].head = at /\ WithEnds(vs, u, at)[u].tail = at
         /\ WithEnds(vs, u, at)[u].degree = vs[u].degree
         /\ \A x \in Nodes : x # u => WithEnds(vs, u, at)[x] = vs[x]
         /\ WithTail(vs, u, at) \in [Nodes -> Vertex]
         /\ WithTail(vs, u, at)[u].head = vs[u].head /\ WithTail(vs, u, at)[u].tail = at
         /\ WithTail(vs, u, at)[u].degree = vs[u].degree
         /\ \A x \in Nodes : x # u => WithTail(vs, u, at)[x] = vs[x]
         /\ WithEdge(vs, u) \in [Nodes -> Vertex]
         /\ WithEdge(vs, u)[u].head = vs[u].head /\ WithEdge(vs, u)[u].tail = vs[u].tail
         /\ WithEdge(vs, u)[u].degree = vs[u].degree + 1
         /\ \A x \in Nodes : x # u => WithEdge(vs, u)[x] = vs[x]
<1> DEFINE v == vs[u]
           a == [head |-> at, tail |-> at, degree |-> v.degree]
           b == [head |-> v.head, tail |-> at, degree |-> v.degree]
           c == [head |-> v.head, tail |-> v.tail, degree |-> v.degree + 1]
<1>1. v \in Vertex
  OBVIOUS
<1>2. PICK h \in Nat, l \in Nat, d \in Nat : v = [head |-> h, tail |-> l, degree |-> d]
  <2> HIDE DEF v
  <2> QED
    BY <1>1 DEF Vertex
<1>3. v.head = h /\ v.tail = l /\ v.degree = d
  <2> HIDE DEF v
  <2> QED
    BY <1>2
<1>4. a \in Vertex /\ b \in Vertex /\ c \in Vertex
  <2> HIDE DEF v
  <2> QED
    BY <1>3 DEF Vertex
<1>5. [v EXCEPT !.tail = at] = b /\ [v EXCEPT !.degree = @ + 1] = c
  <2>1. [v EXCEPT !.tail = at] = [head |-> h, tail |-> at, degree |-> d]
    <3> HIDE DEF v
    <3> QED
      BY <1>2
  <2>2. [v EXCEPT !.degree = @ + 1] = [head |-> h, tail |-> l, degree |-> d + 1]
    <3> HIDE DEF v
    <3> QED
      BY <1>2
  <2> HIDE DEF v
  <2> QED
    BY <1>3, <2>1, <2>2
<1> HIDE DEF a, b, c
<1>6. /\ WithEnds(vs, u, at) = [vs EXCEPT ![u] = a]
      /\ WithTail(vs, u, at) = [vs EXCEPT ![u] = b]
      /\ WithEdge(vs, u) = [vs EXCEPT ![u] = c]
  BY <1>5 DEF WithEnds, WithTail, WithEdge, a
<1>7. ASSUME NEW x \in Vertex
      PROVE  /\ [vs EXCEPT ![u] = x] \in [Nodes -> Vertex]
             /\ [vs EXCEPT ![u] = x][u] = x
             /\ \A y \in Nodes : y # u => [vs EXCEPT ![u] = x][y] = vs[y]
  OBVIOUS
<1>8. \A x \in Vertex :
        /\ [vs EXCEPT ![u] = x] \in [Nodes -> Vertex]
        /\ [vs EXCEPT ![u] = x][u] = x
        /\ \A y \in Nodes : y # u => [vs EXCEPT ![u] = x][y] = vs[y]
  BY <1>7
<1>9. /\ WithEnds(vs, u, at) \in [Nodes -> Vertex] /\ WithEnds(vs, u, at)[u] = a
      /\ \A x \in Nodes : x # u => WithEnds(vs, u, at)[x] = vs[x]
  BY <1>4, <1>6, <1>8
<1>10. /\ WithTail(vs, u, at) \in [Nodes -> Vertex] /\ WithTail(vs, u, at)[u] = b
       /\ \A x \in Nodes : x # u => WithTail(vs, u, at)[x] = vs[x]
  BY <1>4, <1>6, <1>8
<1>11. /\ WithEdge(vs, u) \in [Nodes -> Vertex] /\ WithEdge(vs, u)[u] = c
       /\ \A x \in Nodes : x # u => WithEdge(vs, u)[x] = vs[x]
  BY <1>4, <1>6, <1>8
<1>12. /\ a.head = at /\ a.tail = at /\ a.degree = v.degree
       /\ b.head = v.head /\ b.tail = at /\ b.degree = v.degree
       /\ c.head = v.head /\ c.tail = v.tail /\ c.degree = v.degree + 1
  BY DEF a, b, c
<1> QED
  BY <1>9, <1>10, <1>11, <1>12

\* The degree of one list grows by one, and nothing else changes.
LEMMA EdgeChanges ==
  ASSUME NEW vs \in [Nodes -> Vertex], NEW u \in Nodes
  PROVE  /\ WithEdge(vs, u) \in [Nodes -> Vertex]
         /\ WithEdge(vs, u)[u].head = vs[u].head /\ WithEdge(vs, u)[u].tail = vs[u].tail
         /\ WithEdge(vs, u)[u].degree = vs[u].degree + 1
         /\ \A x \in Nodes : x # u => WithEdge(vs, u)[x] = vs[x]
<1>1. PICK at \in Nat : at = 0
  OBVIOUS
<1> QED
  BY <1>1, VertexChanges

\* A block is its cells and its link.
LEMMA BlockShape ==
  ASSUME NEW r \in Block
  PROVE  /\ r.cells \in [0 .. BLOCK_SIZE - 1 -> Nodes \cup {Hole}] /\ r.next_offset \in Nat
         /\ r = [cells |-> r.cells, next_offset |-> r.next_offset]
<1> DEFINE Row == [0 .. BLOCK_SIZE - 1 -> Nodes \cup {Hole}]
<1>1. PICK cs \in Row, n \in Nat : r = [cells |-> cs, next_offset |-> n]
  BY DEF Block
<1> HIDE DEF Row
<1>2. r.cells = cs /\ r.next_offset = n
  BY <1>1
<1> QED
  BY <1>1, <1>2 DEF Row

\* Replacing a block leaves the other blocks.
LEMMA BlockAssigned ==
  ASSUME NEW heap \in Seq(Block), NEW k \in DOMAIN heap, NEW n
  PROVE  /\ DOMAIN [heap EXCEPT ![k] = n] = DOMAIN heap
         /\ n \in Block => [heap EXCEPT ![k] = n] \in Seq(Block)
         /\ [heap EXCEPT ![k] = n][k] = n
         /\ \A b \in DOMAIN heap : b # k => [heap EXCEPT ![k] = n][b] = heap[b]
OBVIOUS

\* Linking a block changes no cell.
LEMMA NextChanges ==
  ASSUME NEW heap \in Seq(Block), NEW k \in DOMAIN heap, NEW x \in Nat
  PROVE  /\ WithNext(heap, k, x) \in Seq(Block) /\ DOMAIN WithNext(heap, k, x) = DOMAIN heap
         /\ WithNext(heap, k, x)[k].cells = heap[k].cells
         /\ WithNext(heap, k, x)[k].next_offset = x
         /\ \A b \in DOMAIN heap : b # k => WithNext(heap, k, x)[b] = heap[b]
<1> DEFINE r == heap[k]
           cs == r.cells
           n == r.next_offset
           a == [cells |-> cs, next_offset |-> x]
<1>1. r \in Block
  OBVIOUS
<1>2. r = [cells |-> cs, next_offset |-> n]
  <2> HIDE DEF r
  <2> QED
    BY <1>1, BlockShape
<1>3. a \in Block
  <2>1. cs \in [0 .. BLOCK_SIZE - 1 -> Nodes \cup {Hole}]
    <3> HIDE DEF r
    <3> QED
      BY <1>1, BlockShape
  <2> HIDE DEF cs
  <2> QED
    BY <2>1 DEF Block
<1>4. [r EXCEPT !.next_offset = x] = a
  <2> HIDE DEF cs, n
  <2> SUFFICES ASSUME NEW q, q = [cells |-> cs, next_offset |-> n]
               PROVE  [q EXCEPT !.next_offset = x] = a
    BY <1>2
  <2> QED
    OBVIOUS
<1>5. WithNext(heap, k, x) = [heap EXCEPT ![k] = a]
  <2> HIDE DEF a
  <2> QED
    BY <1>4 DEF WithNext
<1>6. a.cells = heap[k].cells /\ a.next_offset = x
  OBVIOUS
<1> HIDE DEF a
<1> QED
  BY <1>3, <1>5, <1>6, BlockAssigned

\* Writing a cell changes no other cell and no link.
LEMMA CellChanges ==
  ASSUME NEW heap \in Seq(Block), NEW k \in DOMAIN heap,
         NEW c \in 0 .. BLOCK_SIZE - 1, NEW x \in Nodes
  PROVE  /\ WithCell(heap, k, c, x) \in Seq(Block) /\ DOMAIN WithCell(heap, k, c, x) = DOMAIN heap
         /\ WithCell(heap, k, c, x)[k].next_offset = heap[k].next_offset
         /\ WithCell(heap, k, c, x)[k].cells = [heap[k].cells EXCEPT ![c] = x]
         /\ \A b \in DOMAIN heap : b # k => WithCell(heap, k, c, x)[b] = heap[b]
<1> DEFINE r == heap[k]
           cs == r.cells
           n == r.next_offset
           new == [cs EXCEPT ![c] = x]
           a == [cells |-> new, next_offset |-> n]
<1>1. r \in Block
  OBVIOUS
<1>2. /\ r = [cells |-> cs, next_offset |-> n] /\ n \in Nat
      /\ cs \in [0 .. BLOCK_SIZE - 1 -> Nodes \cup {Hole}]
  <2> HIDE DEF r
  <2> QED
    BY <1>1, BlockShape
<1>3. a \in Block
  <2>1. new \in [0 .. BLOCK_SIZE - 1 -> Nodes \cup {Hole}]
    <3> HIDE DEF cs
    <3> QED
      BY <1>2
  <2> HIDE DEF new, n
  <2> QED
    BY <1>2, <2>1 DEF Block
<1>4. [r EXCEPT !.cells = new] = a
  <2> HIDE DEF cs, n, new
  <2> SUFFICES ASSUME NEW q, q = [cells |-> cs, next_offset |-> n]
               PROVE  [q EXCEPT !.cells = new] = a
    BY <1>2
  <2> QED
    OBVIOUS
<1>5. WithCell(heap, k, c, x) = [heap EXCEPT ![k] = a]
  <2>1. WithCell(heap, k, c, x) = [heap EXCEPT ![k] = [r EXCEPT !.cells = new]]
    BY DEF WithCell
  <2> HIDE DEF a, r, new
  <2> QED
    BY <1>4, <2>1
<1>6. a.cells = new /\ a.next_offset = n
  OBVIOUS
<1> HIDE DEF a
<1> QED
  BY <1>3, <1>5, <1>6, BlockAssigned

-----------------------------------------------------------------------------
(***************************************************************************)
(* Types.                                                                   *)
(***************************************************************************)
\* An edge that a thread has not finished starts and ends at a vertex.
LEMMA NextEdge ==
  ASSUME BalTypeOK, NEW t \in Threads, todo[t] # <<>>
  PROVE  /\ src(t) \in Nodes /\ dst(t) \in Nodes
         /\ Tail(todo[t]) \in Seq(Edges)
         /\ Len(todo[t]) \in Nat /\ Len(todo[t]) > 0 /\ Len(Tail(todo[t])) = Len(todo[t]) - 1
<1>1. todo[t] \in Seq(Edges)
  BY DEF BalTypeOK
<1>2. \A e \in Edges : e.u \in Nodes /\ e.v \in Nodes
  BY DEF Edges
<1>3. Head(todo[t]) \in Edges
  BY <1>1
<1> QED
  BY <1>1, <1>2, <1>3 DEF src, dst

\* What a thread is given to insert is a list of edges.
LEMMA SharesAreSequences ==
  /\ BaseShare \in [Threads -> Seq(Edges)] /\ DynamicShare \in [Threads -> Seq(Edges)]
BY BalAssumption

\* The number of edges of the base graph is a number.
LEMMA BaseEdges ==
  /\ n_edges \in Int
  /\ \A t \in Threads : Len(BaseShare[t]) \in Nat
<1>1. \A t \in Threads : Len(BaseShare[t]) \in Nat
  BY SharesAreSequences
<1> DEFINE f == [t \in Threads |-> Len(BaseShare[t])]
<1>2. \A t \in Threads : f[t] \in Int
  BY <1>1
<1>3. DOMAIN f = Threads
  OBVIOUS
<1> HIDE DEF f
<1>4. SumFunctionOnSet(f, Threads) \in Int
  BY <1>2, BalAssumption, SumLaws
<1> QED
  BY <1>1, <1>3, <1>4 DEF n_edges, SumFunction, f

\* The constructor begins with unlocked, empty lists and idle threads.
LEMMA TypeInitial == BalInit => BalTypeOK /\ Sections
<1> SUFFICES ASSUME BalInit PROVE BalTypeOK /\ Sections
  OBVIOUS
<1>1. [u \in Nodes |-> [head |-> 0, tail |-> 0, degree |-> 0]] \in [Nodes -> Vertex]
  BY DEF Vertex
<1>2. BalTypeOK
  BY <1>1, BaseEdges, SharesAreSequences DEF BalInit, BalTypeOK, Labels, Phases
<1>3. Sections
  BY DEF BalInit, Sections, Locked, Counting
<1> QED
  BY <1>2, <1>3

\* Every step keeps the types.
LEMMA TypePreserved ==
  ASSUME BalTypeOK, [BalNext]_balVars PROVE BalTypeOK'
<1> USE DEF BalTypeOK
<1>1. ASSUME NEW t \in Threads, Lock(t) PROVE BalTypeOK'
  <2>1. mlock' \in [Nodes -> Threads \cup {Free}] /\ pc' \in [Threads -> Labels]
    BY <1>1 DEF Lock, Goto, Labels
  <2> QED
    BY <1>1, <2>1 DEF Lock, durable
<1>2. ASSUME NEW t \in Threads, Allocate(t) PROVE BalTypeOK'
  <2> DEFINE new == [cells |-> [i \in 0 .. BLOCK_SIZE - 1 |-> IF i = 0 THEN dst(t) ELSE Hole],
                     next_offset |-> 0]
  <2>1. dst(t) \in Nodes
    BY <1>2, NextEdge DEF Allocate, At
  <2>2. new \in Block
    BY <2>1 DEF Block
  <2>3. blocks' = Append(blocks, new)
    BY <1>2 DEF Allocate
  <2>4. blocks' \in Seq(Block)
    <3> HIDE DEF new
    <3> QED
      BY <2>2, <2>3
  <2>5. block' \in [Threads -> Nat] /\ pc' \in [Threads -> Labels]
    BY <1>2 DEF Allocate, Goto, Labels
  <2> QED
    BY <1>2, <2>4, <2>5 DEF Allocate, durable
<1>3. ASSUME NEW t \in Threads, Link(t) PROVE BalTypeOK'
  <2> DEFINE at == mapped + block[t]
             u == src(t)
  <2>1. at \in Nat /\ u \in Nodes /\ block[t] \in Nat
    BY <1>3, NextEdge DEF Link, At
  <2>2. vertices' = WithEnds(vertices, u, at) \/ vertices' = WithTail(vertices, u, at)
    BY <1>3 DEF Link, WithEnds, WithTail
  <2>3. vertices' \in [Nodes -> Vertex]
    <3> HIDE DEF at, u
    <3>1. /\ WithEnds(vertices, u, at) \in [Nodes -> Vertex]
          /\ WithTail(vertices, u, at) \in [Nodes -> Vertex]
      BY <2>1, VertexChanges
    <3> QED
      BY <2>2, <3>1
  <2>4. PICK tail : blocks' = blocks \/ blocks' = WithNext(blocks, tail, block[t])
    BY <1>3 DEF Link, WithNext
  <2>5. blocks' \in Seq(Block)
    <3>1. CASE tail \in DOMAIN blocks
      <4>1. PICK heap, b : heap = blocks /\ b = block[t]
        OBVIOUS
      <4>2. heap \in Seq(Block) /\ tail \in DOMAIN heap /\ b \in Nat
        BY <2>1, <3>1, <4>1 DEF BalTypeOK
      <4>3. WithNext(heap, tail, b) \in Seq(Block)
        BY ONLY <4>2, NextChanges
      <4> QED
        BY <2>4, <4>1, <4>2, <4>3
    <3>2. CASE tail \notin DOMAIN blocks
      <4>1. blocks' = blocks
        BY <2>4, <3>2 DEF WithNext
      <4> QED
        BY <4>1
    <3> QED
      BY <3>1, <3>2
  <2>6. pc' \in [Threads -> Labels]
    BY <1>3 DEF Link, Goto, Labels
  <2> QED
    BY <1>3, <2>3, <2>5, <2>6 DEF Link, durable
<1>4. ASSUME NEW t \in Threads, Store(t) PROVE BalTypeOK'
  <2> DEFINE k == vertices[src(t)].tail - mapped
             c == vertices[src(t)].degree % BLOCK_SIZE
  <2>1. blocks' = WithCell(blocks, k, c, dst(t))
    BY <1>4 DEF Store, WithCell
  <2>2. dst(t) \in Nodes
    BY <1>4, NextEdge DEF Store, At
  <2>3. blocks' \in Seq(Block)
    <3>1. c \in 0 .. BLOCK_SIZE - 1
      <4>1. src(t) \in Nodes
        BY <1>4, NextEdge DEF Store, At
      <4>2. vertices[src(t)].degree \in Nat
        BY <4>1 DEF Vertex
      <4> QED
        BY <4>2, DivMod
    <3>2. CASE k \in DOMAIN blocks
      <4> HIDE DEF k, c
      <4> QED
        BY <2>1, <2>2, <3>1, <3>2, CellChanges
    <3>3. CASE k \notin DOMAIN blocks
      <4>1. blocks' = blocks
        BY <2>1, <3>3 DEF WithCell
      <4> QED
        BY <4>1
    <3> QED
      BY <3>2, <3>3
  <2>4. pc' \in [Threads -> Labels]
    BY <1>4 DEF Store, Goto, Labels
  <2> QED
    BY <1>4, <2>3, <2>4 DEF Store, durable
<1>5. ASSUME NEW t \in Threads, Unlock(t) PROVE BalTypeOK'
  <2> DEFINE u == src(t)
  <2>1. u \in Nodes /\ Tail(todo[t]) \in Seq(Edges)
    BY <1>5, NextEdge DEF Unlock, At
  <2>2. vertices' = WithEdge(vertices, u)
    BY <1>5 DEF Unlock, WithEdge
  <2>3. vertices' \in [Nodes -> Vertex]
    <3> HIDE DEF u
    <3> QED
      BY <2>1, <2>2, EdgeChanges
  <2>4. mlock' \in [Nodes -> Threads \cup {Free}] /\ pc' \in [Threads -> Labels]
    BY <1>5 DEF Unlock, Goto, Labels
  <2>5. todo' \in [Threads -> Seq(Edges)]
    BY <1>5, <2>1 DEF Unlock
  <2> QED
    BY <1>5, <2>3, <2>4, <2>5 DEF Unlock, durable
<1>6. ASSUME NEW t \in Threads, Load(t) PROVE BalTypeOK'
  <2>1. old_val' \in [Threads -> Int] /\ pc' \in [Threads -> Labels]
    BY <1>6 DEF Load, Goto, Labels
  <2> QED
    BY <1>6, <2>1 DEF Load, memory, durable
<1>7. ASSUME NEW t \in Threads, Swap(t) PROVE BalTypeOK'
  <2>1. Tail(todo[t]) \in Seq(Edges)
    BY <1>7, NextEdge DEF Swap, At
  <2>2. pc' \in [Threads -> Labels]
    BY <1>7 DEF Swap, Goto, Labels
  <2>5. num_edges' \in Int
    BY <1>7 DEF Swap
  <2>3. todo' = todo \/ todo' = [todo EXCEPT ![t] = Tail(todo[t])]
    BY <1>7 DEF Swap
  <2>4. todo' \in [Threads -> Seq(Edges)]
    BY <2>1, <2>3
  <2> QED
    BY <1>7, <2>2, <2>4, <2>5 DEF Swap, durable
<1>8. ASSUME Program PROVE BalTypeOK'
  BY <1>8, SharesAreSequences
  DEF Program, CopyBase, FlushBase, Close, CloseFlush, memory, durable, threadVars, Phases
<1>9. ASSUME Restart PROVE BalTypeOK'
  <2>1. \A u \in Nodes : Durable(u) \subseteq Vertex
    BY DEF Durable, Vertex
  <2>2. vertices_pmem' \in [Nodes -> Vertex]
    <3> DEFINE Any == UNION {Durable(u) : u \in Nodes}
    <3>1. vertices_pmem' \in [Nodes -> Any] /\ \A u \in Nodes : vertices_pmem'[u] \in Durable(u)
      BY <1>9 DEF Restart
    <3> HIDE DEF Any
    <3> QED
      BY <2>1, <3>1
  <2>3. mapped' \in Nat
    BY <1>9, BalAssumption DEF Restart
  <2>4. todo' \in [Threads -> Seq(Edges)] /\ pc' \in [Threads -> Labels]
    BY <1>9 DEF Restart, Labels
  <2>5. mlock' \in [Nodes -> Threads \cup {Free}]
    BY <1>9 DEF Restart
  <2> QED
    BY <1>9, <2>2, <2>3, <2>4, <2>5 DEF Restart, Phases
<1>10. ASSUME UNCHANGED balVars PROVE BalTypeOK'
  BY <1>10 DEF balVars, memory, durable, threadVars
<1> QED
  BY <1>1, <1>2, <1>3, <1>4, <1>5, <1>6, <1>7, <1>8, <1>9, <1>10
  DEF BalNext, Insert, Ended

-----------------------------------------------------------------------------
(***************************************************************************)
(* Sections: the locks of mlock and the phases of the program.              *)
(***************************************************************************)
\* A step of a thread leaves the others where they are.
LEMMA OthersStay ==
  ASSUME BalTypeOK, NEW t \in Threads, Insert(t)
  PROVE  \A s \in Threads : s # t =>
           /\ pc'[s] = pc[s] /\ todo'[s] = todo[s] /\ block'[s] = block[s]
           /\ src(s)' = src(s) /\ dst(s)' = dst(s)
<1>1. pc \in [Threads -> Labels] /\ todo \in [Threads -> Seq(Edges)] /\ block \in [Threads -> Nat]
  BY DEF BalTypeOK
<1>2. ASSUME NEW s \in Threads, s # t
      PROVE  pc'[s] = pc[s] /\ todo'[s] = todo[s] /\ block'[s] = block[s]
  BY <1>1, <1>2 DEF Insert, Lock, Allocate, Link, Store, Unlock, Load, Swap, Goto
<1> QED
  BY <1>2 DEF src, dst

\* A thread that inserts has an edge to insert, in one of the two loops.
LEMMA Inserting ==
  ASSUME BalTypeOK, Sections, NEW t \in Threads, Insert(t)
  PROVE  /\ todo[t] # <<>> /\ src(t) \in Nodes /\ dst(t) \in Nodes
         /\ phase \in {"base", "dynamic"} /\ phase' = phase
<1>1. todo[t] # <<>> /\ phase' = phase
  BY DEF Insert, Lock, Allocate, Link, Store, Unlock, Load, Swap, At
<1>2. phase \in {"base", "dynamic"}
  BY <1>1 DEF Sections, AllDone
<1> QED
  BY <1>1, <1>2, NextEdge

\* The critical sections of insert() exclude each other per vertex: a lock is
\* held from before the first access to its list until after the last.
LEMMA SectionsPreserved ==
  ASSUME BalTypeOK, Sections, [BalNext]_balVars PROVE Sections'
<1>0. /\ pc \in [Threads -> Labels] /\ todo \in [Threads -> Seq(Edges)]
      /\ mlock \in [Nodes -> Threads \cup {Free}] /\ Free \notin Threads
  BY BalAssumption DEF BalTypeOK
<1>1. ASSUME NEW t \in Threads, Insert(t) PROVE Sections'
  <2>1. \A s \in Threads : s # t =>
           /\ pc'[s] = pc[s] /\ todo'[s] = todo[s]
           /\ src(s)' = src(s)
    BY <1>1, OthersStay
  <2>2. todo[t] # <<>> /\ src(t) \in Nodes /\ phase \in {"base", "dynamic"} /\ phase' = phase
    BY <1>1, Inserting
  <2>3. (pc'[t] # "idle" => todo'[t] # <<>> /\ src(t)' = src(t))
    <3>1. CASE UNCHANGED todo
      BY <2>2, <3>1 DEF src
    <3>2. CASE pc'[t] = "idle"
      BY <3>2
    <3> QED
      BY <1>0, <1>1, <3>1, <3>2
      DEF Insert, Lock, Allocate, Link, Store, Unlock, Load, Swap, Goto
  <2>4. pc'[t] \in Counting => phase' = "dynamic"
    BY <1>0, <1>1, <2>2 DEF Insert, Lock, Allocate, Link, Store, Unlock, Load, Swap, Goto, At,
       Counting, Sections
  <2>5. ASSUME NEW s \in Threads, pc'[s] \in Locked PROVE mlock'[src(s)'] = s
    <3>0. \A x \in Threads : pc[x] \in Locked => todo[x] # <<>> /\ mlock[src(x)] = x
      BY DEF Sections, Locked
    <3>1. CASE Lock(t)
      <4>1. mlock' = [mlock EXCEPT ![src(t)] = t] /\ mlock[src(t)] = Free
        BY <3>1 DEF Lock
      <4>2. CASE s = t
        <5>1. src(s)' = src(t)
          BY <2>3, <2>5, <4>2 DEF Locked
        <5> QED
          BY <1>0, <2>2, <4>1, <4>2, <5>1
      <4>3. CASE s # t
        <5>1. src(s)' = src(s) /\ mlock[src(s)] = s
          BY <2>1, <2>5, <3>0, <4>3
        <5>2. src(s) # src(t)
          BY <1>0, <4>1, <5>1
        <5> QED
          BY <1>0, <4>1, <5>1, <5>2
      <4> QED
        BY <4>2, <4>3
    <3>2. CASE Unlock(t)
      <4>1. mlock' = [mlock EXCEPT ![src(t)] = Free] /\ pc[t] = "count" /\ pc'[t] \in {"idle", "load"}
        BY <1>0, <3>2 DEF Unlock, At, Goto
      <4>2. s # t
        BY <2>5, <4>1 DEF Locked
      <4>3. src(s)' = src(s) /\ mlock[src(s)] = s /\ mlock[src(t)] = t
        BY <2>1, <2>5, <3>0, <4>1, <4>2 DEF Locked
      <4>4. src(s) # src(t)
        BY <4>2, <4>3
      <4> QED
        BY <1>0, <4>1, <4>3, <4>4
    <3>3. CASE Allocate(t) \/ Link(t) \/ Store(t)
      <4>1. mlock' = mlock /\ pc[t] \in Locked
        BY <3>3 DEF Allocate, Link, Store, At, Locked
      <4>2. CASE s = t
        <5>1. src(s)' = src(t)
          BY <2>3, <2>5, <4>2 DEF Locked
        <5> QED
          BY <3>0, <4>1, <4>2, <5>1
      <4>3. CASE s # t
        BY <2>1, <2>5, <3>0, <4>1, <4>3
      <4> QED
        BY <4>2, <4>3
    <3>4. CASE Load(t) \/ Swap(t)
      <4>1. mlock' = mlock /\ pc'[t] \in {"load", "swap", "idle"}
        BY <1>0, <3>4 DEF Load, Swap, Goto, memory
      <4>2. s # t
        BY <2>5, <4>1 DEF Locked
      <4> QED
        BY <2>1, <2>5, <3>0, <4>1, <4>2
    <3> QED
      BY <1>1, <3>1, <3>2, <3>3, <3>4 DEF Insert
  <2>6. \A s \in Threads : pc'[s] # "idle" => todo'[s] # <<>>
    BY <2>1, <2>3 DEF Sections
  <2>7. \A s \in Threads : pc'[s] \in Counting => phase' = "dynamic"
    BY <2>1, <2>2, <2>4 DEF Sections
  <2> QED
    BY <2>2, <2>5, <2>6, <2>7 DEF Sections
<1>2. ASSUME Program PROVE Sections'
  <2>1. \A t \in Threads : pc[t] = "idle"
    <3>1. phase \in {"base copied", "copied"} \/ AllDone
      BY <1>2 DEF Program, CopyBase, FlushBase, Close, CloseFlush
    <3>2. AllDone
      BY <3>1 DEF Sections
    <3> QED
      BY <3>2 DEF Sections, AllDone
  <2>2. pc' = pc
    BY <1>2 DEF Program, CopyBase, FlushBase, Close, CloseFlush, threadVars
  <2>3. phase' \notin {"base", "dynamic"} => AllDone'
    BY <1>2 DEF Program, CopyBase, FlushBase, Close, CloseFlush, threadVars, Sections, AllDone
  <2> QED
    BY <2>1, <2>2, <2>3 DEF Sections, Locked, Counting
<1>3. ASSUME Restart PROVE Sections'
  <2>1. \A t \in Threads : pc'[t] = "idle" /\ todo'[t] = <<>>
    BY <1>3 DEF Restart
  <2> QED
    BY <2>1 DEF Sections, Locked, Counting, AllDone
<1>4. ASSUME UNCHANGED balVars PROVE Sections'
  BY <1>4 DEF balVars, memory, durable, threadVars, Sections, AllDone, src
<1> QED
  BY <1>1, <1>2, <1>3, <1>4 DEF BalNext, Ended

-----------------------------------------------------------------------------
(***************************************************************************)
(* Counts: what is durable, and the number of edges.                        *)
(***************************************************************************)
\* The sum of the values of a function: it depends on the values only, and
\* follows a change of one of them.
LEMMA SumFunctionLaws ==
  ASSUME NEW S, IsFiniteSet(S), NEW f, DOMAIN f = S, \A x \in S : f[x] \in Int
  PROVE  /\ SumFunction(f) \in Int
         /\ (\A x \in S : f[x] = 0) => SumFunction(f) = 0
         /\ \A g : (DOMAIN g = S /\ \A x \in S : g[x] = f[x]) => SumFunction(g) = SumFunction(f)
         /\ \A g : \A e \in S :
              (DOMAIN g = S /\ g[e] \in Int /\ \A x \in S : x # e => g[x] = f[x])
                => SumFunction(g) = SumFunction(f) - f[e] + g[e]
<1>1. \A g : DOMAIN g = S => SumFunction(g) = SumFunctionOnSet(g, S)
  BY DEF SumFunction
<1>2. SumFunctionOnSet(f, S) \in Int
  BY SumLaws
<1>3. (\A x \in S : f[x] = 0) => SumFunctionOnSet(f, S) = 0
  BY SumOfZeros
<1>4. ASSUME NEW g, \A x \in S : g[x] = f[x]
      PROVE  SumFunctionOnSet(g, S) = SumFunctionOnSet(f, S)
  BY <1>4, SumAgrees
<1>5. ASSUME NEW g, NEW e \in S, g[e] \in Int, \A x \in S : x # e => g[x] = f[x]
      PROVE  SumFunctionOnSet(g, S) = SumFunctionOnSet(f, S) - f[e] + g[e]
  BY <1>5, SumChanges
<1> QED
  BY <1>1, <1>2, <1>3, <1>4, <1>5

\* Sums over the threads are finite.
LEMMA ThreadsFinite == IsFiniteSet(Threads)
BY BalAssumption

\* So are sums over the vertices.
LEMMA NodesFinite == IsFiniteSet(Nodes)
<1>1. 0 \in Int /\ num_nodes - 1 \in Int
  BY BalAssumption
<1> QED
  BY <1>1, FS_Interval DEF Nodes

\* The sum of the degrees depends on the degrees only, and grows with one.
LEMMA DegreeSums ==
  ASSUME NEW vs \in [Nodes -> Vertex]
  PROVE  /\ DegreeSum(vs) \in Int
         /\ (\A u \in Nodes : vs[u].degree = 0) => DegreeSum(vs) = 0
         /\ \A ws : (\A u \in Nodes : ws[u].degree = vs[u].degree) => DegreeSum(ws) = DegreeSum(vs)
         /\ \A u \in Nodes : DegreeSum(WithEdge(vs, u)) = DegreeSum(vs) + 1
<1> DEFINE f(x) == [u \in Nodes |-> x[u].degree]
<1>0. \A x : DegreeSum(x) = SumFunction(f(x)) /\ DOMAIN f(x) = Nodes
             /\ \A u \in Nodes : f(x)[u] = x[u].degree
  BY DEF DegreeSum
<1>1. \A u \in Nodes : vs[u].degree \in Nat
  BY DEF Vertex
<1> HIDE DEF f
<1>2. \A u \in Nodes : f(vs)[u] \in Int
  BY <1>0, <1>1
<1>3. DegreeSum(vs) \in Int /\ ((\A u \in Nodes : vs[u].degree = 0) => DegreeSum(vs) = 0)
  <2>1. (\A u \in Nodes : vs[u].degree = 0) => \A u \in Nodes : f(vs)[u] = 0
    BY <1>0
  <2>2. DegreeSum(vs) = SumFunction(f(vs)) /\ DOMAIN f(vs) = Nodes
    BY <1>0
  <2> QED
    BY <1>2, <2>1, <2>2, NodesFinite, SumFunctionLaws
<1>4. ASSUME NEW ws, \A u \in Nodes : ws[u].degree = vs[u].degree
      PROVE  DegreeSum(ws) = DegreeSum(vs)
  <2>1. DOMAIN f(ws) = Nodes /\ \A u \in Nodes : f(ws)[u] = f(vs)[u]
    BY <1>0, <1>4
  <2>2. SumFunction(f(ws)) = SumFunction(f(vs))
    BY <1>0, <1>2, <2>1, NodesFinite, SumFunctionLaws
  <2> QED
    BY <1>0, <2>2
<1>5. ASSUME NEW u \in Nodes PROVE DegreeSum(WithEdge(vs, u)) = DegreeSum(vs) + 1
  <2> DEFINE ws == WithEdge(vs, u)
  <2>1. \A x \in Nodes : x # u => ws[x] = vs[x]
    BY EdgeChanges
  <2>2. ws[u].degree = vs[u].degree + 1
    BY EdgeChanges
  <2> HIDE DEF ws
  <2>3. DOMAIN f(ws) = Nodes /\ \A x \in Nodes : x # u => f(ws)[x] = f(vs)[x]
    <3>1. ASSUME NEW x \in Nodes, x # u PROVE f(ws)[x] = f(vs)[x]
      <4>1. f(ws)[x] = ws[x].degree /\ f(vs)[x] = vs[x].degree
        BY <1>0
      <4> QED
        BY <2>1, <3>1, <4>1
    <3> QED
      BY <1>0, <3>1
  <2>4. f(ws)[u] = f(vs)[u] + 1 /\ f(ws)[u] \in Int
    BY <1>0, <1>1, <2>2
  <2>5. SumFunction(f(ws)) = SumFunction(f(vs)) - f(vs)[u] + f(ws)[u]
    BY <1>0, <1>2, <2>3, <2>4, NodesFinite, SumFunctionLaws, SMTT(30)
  <2>6. SumFunction(f(vs)) \in Int
    BY <1>0, <1>3
  <2>7. DegreeSum(ws) = DegreeSum(vs) + 1
    BY <1>0, <1>2, <2>4, <2>5, <2>6
  <2> QED
    BY <2>7 DEF ws
<1> QED
  BY <1>3, <1>4, <1>5

\* A finished edge is one less to do.
LEMMA LeftSums ==
  ASSUME NEW q \in [Threads -> Seq(Edges)]
  PROVE  /\ EdgesLeft(q) \in Int
         /\ (\A t \in Threads : q[t] = <<>>) => EdgesLeft(q) = 0
         /\ \A t \in Threads : q[t] # <<>> => EdgesLeft([q EXCEPT ![t] = Tail(@)]) = EdgesLeft(q) - 1
<1> DEFINE f(x) == [t \in Threads |-> Len(x[t])]
<1>0. \A x : EdgesLeft(x) = SumFunction(f(x)) /\ DOMAIN f(x) = Threads
             /\ \A t \in Threads : f(x)[t] = Len(x[t])
  BY DEF EdgesLeft
<1>1. \A t \in Threads : Len(q[t]) \in Nat /\ (q[t] = <<>> => Len(q[t]) = 0)
  OBVIOUS
<1> HIDE DEF f
<1>2. \A t \in Threads : f(q)[t] \in Int
  BY <1>0, <1>1
<1>3. EdgesLeft(q) \in Int /\ ((\A t \in Threads : q[t] = <<>>) => EdgesLeft(q) = 0)
  <2>1. (\A t \in Threads : q[t] = <<>>) => \A t \in Threads : f(q)[t] = 0
    BY <1>0, <1>1
  <2> QED
    BY <1>0, <1>2, <2>1, ThreadsFinite, SumFunctionLaws
<1>4. ASSUME NEW t \in Threads, q[t] # <<>>
      PROVE  EdgesLeft([q EXCEPT ![t] = Tail(@)]) = EdgesLeft(q) - 1
  <2> DEFINE r == [q EXCEPT ![t] = Tail(@)]
  <2>1. Len(r[t]) = Len(q[t]) - 1 /\ \A x \in Threads : x # t => r[x] = q[x]
    BY <1>4
  <2> HIDE DEF r
  <2>2. DOMAIN f(r) = Threads /\ \A x \in Threads : x # t => f(r)[x] = f(q)[x]
    <3>1. \A x \in Threads : f(r)[x] = Len(r[x]) /\ f(q)[x] = Len(q[x])
      BY <1>0
    <3> QED
      BY <1>0, <2>1, <3>1
  <2>3. f(r)[t] = f(q)[t] - 1 /\ f(r)[t] \in Int
    <3>1. f(r)[t] = Len(r[t]) /\ f(q)[t] = Len(q[t])
      BY <1>0
    <3> QED
      BY <1>1, <2>1, <3>1
  <2>4. SumFunction(f(r)) = SumFunction(f(q)) - f(q)[t] + f(r)[t]
    <3> DEFINE F == f(q)
               G == f(r)
    <3>1. DOMAIN F = Threads /\ \A x \in Threads : F[x] \in Int
      BY <1>0, <1>2
    <3>2. DOMAIN G = Threads /\ G[t] \in Int /\ \A x \in Threads : x # t => G[x] = F[x]
      BY <2>2, <2>3
    <3> HIDE DEF F, G
    <3>3. SumFunction(G) = SumFunction(F) - F[t] + G[t]
      BY <3>1, <3>2, ThreadsFinite, SumFunctionLaws
    <3> QED
      BY <3>3 DEF F, G
  <2>5. SumFunction(f(q)) \in Int
    BY <1>0, <1>3
  <2>6. EdgesLeft(r) = EdgesLeft(q) - 1
    BY <1>0, <1>2, <2>3, <2>4, <2>5
  <2> QED
    BY <2>6 DEF r
<1> QED
  BY <1>3, <1>4

\* What a step of a thread does to the ends of the chains and to the degrees.
LEMMA VertexSteps ==
  ASSUME BalTypeOK, Sections, NEW t \in Threads, Insert(t)
  PROVE  /\ vertices_pmem' = vertices_pmem /\ base_num_edges' = base_num_edges
         /\ \A u \in Nodes :
              /\ vertices[u].degree > 0 => vertices'[u].head = vertices[u].head
              /\ pc[t] = "count" => vertices'[u] = WithEdge(vertices, src(t))[u]
              /\ pc[t] # "count" => vertices'[u].degree = vertices[u].degree
         /\ pc[t] = "count" => vertices' = WithEdge(vertices, src(t))
<1>1. vertices_pmem' = vertices_pmem /\ base_num_edges' = base_num_edges
  BY DEF Insert, Lock, Allocate, Link, Store, Unlock, Load, Swap, durable
<1>2. src(t) \in Nodes /\ vertices \in [Nodes -> Vertex]
  BY Inserting DEF BalTypeOK
<1>3. \A u \in Nodes : vertices[u].degree \in Nat
  BY <1>2 DEF Vertex
<1>4. CASE Link(t)
  <2> DEFINE at == mapped + block[t]
             u == src(t)
  <2>1. pc[t] = "link"
    BY <1>4 DEF Link, At
  <2>2. at \in Nat
    BY DEF BalTypeOK
  <2>3. \/ vertices[u].degree = 0 /\ vertices' = WithEnds(vertices, u, at)
        \/ vertices' = WithTail(vertices, u, at)
    BY <1>4 DEF Link, WithEnds, WithTail
  <2> HIDE DEF at, u
  <2>4. /\ WithEnds(vertices, u, at)[u].degree = vertices[u].degree
        /\ \A x \in Nodes : x # u => WithEnds(vertices, u, at)[x] = vertices[x]
        /\ WithTail(vertices, u, at)[u].head = vertices[u].head
        /\ WithTail(vertices, u, at)[u].degree = vertices[u].degree
        /\ \A x \in Nodes : x # u => WithTail(vertices, u, at)[x] = vertices[x]
    <3>1. u \in Nodes
      BY <1>2 DEF u
    <3> QED
      BY <1>2, <2>2, <3>1, VertexChanges
  <2>5. ASSUME NEW x \in Nodes
        PROVE  /\ vertices[x].degree > 0 => vertices'[x].head = vertices[x].head
               /\ vertices'[x].degree = vertices[x].degree
    <3>1. CASE x = u
      <4>1. vertices'[x].degree = vertices[x].degree
        BY <2>3, <2>4, <3>1
      <4>2. vertices[x].degree > 0 => vertices'[x].head = vertices[x].head
        BY <1>3, <2>3, <2>4, <3>1
      <4> QED
        BY <4>1, <4>2
    <3>2. CASE x # u
      BY <2>3, <2>4, <3>2
    <3> QED
      BY <3>1, <3>2
  <2> QED
    BY <1>1, <2>1, <2>5
<1>5. CASE Unlock(t)
  <2>1. pc[t] = "count" /\ vertices' = WithEdge(vertices, src(t))
    BY <1>5 DEF Unlock, At, WithEdge
  <2>2. ASSUME NEW x \in Nodes PROVE WithEdge(vertices, src(t))[x].head = vertices[x].head
    BY <1>2, EdgeChanges
  <2> QED
    BY <1>1, <2>1, <2>2
<1>6. CASE Lock(t) \/ Allocate(t) \/ Store(t) \/ Load(t) \/ Swap(t)
  <2>1. vertices' = vertices /\ pc[t] # "count"
    BY <1>6 DEF Lock, Allocate, Store, Load, Swap, At, memory
  <2> QED
    BY <1>1, <2>1
<1> QED
  BY <1>4, <1>5, <1>6 DEF Insert

\* A list never gets shorter or another beginning, so what was copied of it to
\* vertices_pmem_ stays a beginning of it.
LEMMA CopiedPreserved ==
  ASSUME BalTypeOK, Sections, Copied, [BalNext]_balVars PROVE Copied'
<1>1. ASSUME NEW t \in Threads, Insert(t) PROVE Copied'
  <2>0. /\ vertices \in [Nodes -> Vertex] /\ vertices_pmem \in [Nodes -> Vertex]
        /\ src(t) \in Nodes
    BY <1>1, Inserting DEF BalTypeOK
  <2>1. \A u \in Nodes : vertices[u].degree \in Nat /\ vertices_pmem[u].degree \in Nat
    BY <2>0 DEF Vertex
  <2>2. vertices_pmem' = vertices_pmem
    BY <1>1, VertexSteps
  <2>3. ASSUME NEW u \in Nodes
        PROVE  /\ vertices[u].degree > 0 => vertices'[u].head = vertices[u].head
               /\ vertices'[u].degree = vertices[u].degree
                  \/ vertices'[u].degree = vertices[u].degree + 1
    <3>1. /\ vertices[u].degree > 0 => vertices'[u].head = vertices[u].head
          /\ pc[t] = "count" => vertices'[u] = WithEdge(vertices, src(t))[u]
          /\ pc[t] # "count" => vertices'[u].degree = vertices[u].degree
      BY <1>1, VertexSteps
    <3>2. \/ WithEdge(vertices, src(t))[u].degree = vertices[u].degree
          \/ WithEdge(vertices, src(t))[u].degree = vertices[u].degree + 1
      BY <2>0, EdgeChanges
    <3> QED
      BY <3>1, <3>2
  <2> QED
    BY <2>1, <2>2, <2>3 DEF Copied
<1>2. ASSUME Program PROVE Copied'
  <2>1. vertices' = vertices /\ (vertices_pmem' = vertices_pmem \/ vertices_pmem' = vertices)
    BY <1>2 DEF Program, CopyBase, FlushBase, Close, CloseFlush, memory, durable
  <2>2. \A u \in Nodes : vertices[u].degree \in Nat
    BY DEF BalTypeOK, Vertex
  <2> QED
    BY <2>1, <2>2 DEF Copied
<1>3. ASSUME Restart PROVE Copied'
  <2>1. vertices' = vertices_pmem'
    BY <1>3 DEF Restart
  <2>2. vertices' \in [Nodes -> Vertex]
    BY TypePreserved DEF BalTypeOK
  <2>3. \A u \in Nodes : vertices'[u].degree \in Nat
    BY <2>2 DEF Vertex
  <2> QED
    BY <2>1, <2>3 DEF Copied
<1>4. ASSUME UNCHANGED balVars PROVE Copied'
  BY <1>4 DEF balVars, memory, durable, Copied
<1> QED
  BY <1>1, <1>2, <1>3, <1>4 DEF BalNext, Ended

\* Nothing is inserted yet, and the whole base graph is counted already.
LEMMA CountsInitial == BalInit => Copied /\ Counts
<1> SUFFICES ASSUME BalInit PROVE Copied /\ Counts
  OBVIOUS
<1>1. BalTypeOK
  BY TypeInitial
<1>2. \A u \in Nodes : vertices[u].degree = 0
  BY DEF BalInit
<1>3. vertices_pmem = vertices
  BY DEF BalInit
<1>4. Copied
  BY <1>2, <1>3 DEF Copied
<1>5. DegreeSum(vertices) = 0
  BY <1>1, <1>2, DegreeSums DEF BalTypeOK
<1>6. EdgesLeft(todo) = n_edges
  BY DEF BalInit, EdgesLeft, n_edges
<1>7. phase = "base" /\ num_edges = n_edges /\ base_num_edges = n_edges
  BY DEF BalInit
<1> QED
  BY <1>4, <1>5, <1>6, <1>7, BaseEdges DEF Counts, EdgesCounted

\* The threads between their edge and the counter.
Behind == {t \in Threads : pc[t] \in {"load", "swap"}}

\* Each step moves one edge between to do, in a list, and counted, or none.
LEMMA CountsPreserved ==
  ASSUME BalTypeOK, Sections, Counts, [BalNext]_balVars PROVE Counts'
<1>0. /\ pc \in [Threads -> Labels] /\ todo \in [Threads -> Seq(Edges)]
      /\ vertices \in [Nodes -> Vertex] /\ num_edges \in Int
  BY DEF BalTypeOK
<1>1. /\ IsFiniteSet(Behind) /\ Cardinality(Behind) \in Nat
      /\ DegreeSum(vertices) \in Int /\ EdgesLeft(todo) \in Int /\ n_edges \in Int
  <2>1. Behind \in SUBSET Threads
    BY DEF Behind
  <2>2. IsFiniteSet(Behind)
    BY <2>1, ThreadsFinite, FS_Subset
  <2>3. Cardinality(Behind) \in Nat
    BY <2>2, FS_CardinalityType
  <2> QED
    BY <1>0, <2>2, <2>3, DegreeSums, LeftSums, BaseEdges
<1>2. /\ EdgesCounted <=> (phase \in {"dynamic", "copied", "closed"} =>
                             num_edges + Cardinality(Behind) = DegreeSum(vertices))
      /\ EdgesCounted' <=> (phase' \in {"dynamic", "copied", "closed"} =>
                             num_edges' + Cardinality(Behind') = DegreeSum(vertices'))
  BY DEF EdgesCounted, Behind, DegreeSum
<1>3. ASSUME NEW t \in Threads, Insert(t) PROVE Counts'
  <2>1. /\ vertices_pmem' = vertices_pmem /\ base_num_edges' = base_num_edges
        /\ \A u \in Nodes : pc[t] # "count" => vertices'[u].degree = vertices[u].degree
        /\ pc[t] = "count" => vertices' = WithEdge(vertices, src(t))
    BY <1>3, VertexSteps
  <2>2. todo[t] # <<>> /\ src(t) \in Nodes /\ phase \in {"base", "dynamic"} /\ phase' = phase
    BY <1>3, Inserting
  <2>3. DegreeSum(vertices') = IF pc[t] = "count" THEN DegreeSum(vertices) + 1 ELSE DegreeSum(vertices)
    BY <1>0, <2>1, <2>2, DegreeSums
  <2>4. \A s \in Threads : s # t => pc'[s] = pc[s]
    BY <1>3, OthersStay
  <2>5. CASE Unlock(t)
    <3>1. pc[t] = "count" /\ num_edges' = num_edges
      BY <2>5 DEF Unlock, At
    <3>2. CASE phase = "base"
      <4>1. todo' = [todo EXCEPT ![t] = Tail(@)]
        BY <2>5, <3>2 DEF Unlock
      <4>2. EdgesLeft(todo') = EdgesLeft(todo) - 1
        BY <1>0, <2>2, <4>1, LeftSums
      <4> QED
        BY <1>1, <1>2, <2>1, <2>2, <2>3, <3>1, <3>2, <4>2 DEF Counts
    <3>3. CASE phase = "dynamic"
      <4>1. t \notin Behind /\ Behind' = Behind \cup {t}
        <5>1. pc'[t] = "load"
          BY <1>0, <2>5, <3>3 DEF Unlock, Goto
        <5> QED
          BY <2>4, <3>1, <5>1 DEF Behind
      <4>2. Cardinality(Behind') = Cardinality(Behind) + 1
        BY <1>1, <4>1, FS_AddElement
      <4> QED
        BY <1>0, <1>1, <1>2, <2>1, <2>2, <2>3, <3>1, <3>3, <4>2 DEF Counts
    <3> QED
      BY <2>2, <3>2, <3>3
  <2>6. CASE Swap(t)
    <3>1. pc[t] = "swap" /\ phase = "dynamic"
      BY <2>6 DEF Swap, At, Sections, Counting
    <3>2. CASE num_edges = old_val[t]
      <4>1. num_edges' = num_edges + 1 /\ pc'[t] = "idle"
        BY <1>0, <2>6, <3>2 DEF Swap, Goto
      <4>2. t \in Behind /\ Behind' = Behind \ {t}
        BY <2>4, <3>1, <4>1 DEF Behind
      <4>3. Cardinality(Behind') = Cardinality(Behind) - 1
        BY <1>1, <4>2, FS_RemoveElement
      <4> QED
        BY <1>0, <1>1, <1>2, <2>1, <2>2, <2>3, <3>1, <4>1, <4>3 DEF Counts
    <3>3. CASE num_edges # old_val[t]
      <4>1. num_edges' = num_edges /\ pc'[t] = "load"
        BY <1>0, <2>6, <3>3 DEF Swap, Goto
      <4>2. Behind' = Behind
        BY <2>4, <3>1, <4>1 DEF Behind
      <4> QED
        BY <1>0, <1>1, <1>2, <2>1, <2>2, <2>3, <3>1, <4>1, <4>2 DEF Counts
    <3> QED
      BY <3>2, <3>3
  <2>7. CASE Lock(t) \/ Allocate(t) \/ Link(t) \/ Store(t) \/ Load(t)
    <3>1. num_edges' = num_edges /\ todo' = todo /\ pc[t] # "count"
      BY <2>7 DEF Lock, Allocate, Link, Store, Load, At, memory
    <3>2. Behind' = Behind
      <4>1. pc[t] \in {"load", "swap"} <=> pc'[t] \in {"load", "swap"}
        BY <1>0, <2>7 DEF Lock, Allocate, Link, Store, Load, At, Goto
      <4> QED
        BY <2>4, <4>1 DEF Behind
    <3>3. EdgesLeft(todo') = EdgesLeft(todo)
      BY <3>1
    <3> QED
      BY <1>2, <2>1, <2>2, <2>3, <3>1, <3>2, <3>3 DEF Counts
  <2> QED
    BY <1>3, <2>5, <2>6, <2>7 DEF Insert
<1>4. ASSUME Program PROVE Counts'
  <2>1. AllDone
    <3>1. phase \in {"base copied", "copied"} \/ AllDone
      BY <1>4 DEF Program, CopyBase, FlushBase, Close, CloseFlush
    <3> QED
      BY <3>1 DEF Sections
  <2>2. Behind = {} /\ Behind' = {}
    <3>1. \A t \in Threads : pc[t] = "idle"
      BY <2>1 DEF Sections, AllDone
    <3>2. pc' = pc
      BY <1>4 DEF Program, CopyBase, FlushBase, Close, CloseFlush, threadVars
    <3> QED
      BY <3>1, <3>2 DEF Behind
  <2>3. Cardinality(Behind) = 0 /\ Cardinality(Behind') = 0
    BY <2>2, FS_EmptySet
  <2>4. EdgesLeft(todo) = 0
    BY <1>0, <2>1, LeftSums DEF AllDone
  <2>5. vertices' = vertices /\ num_edges' = num_edges
    BY <1>4 DEF Program, CopyBase, FlushBase, Close, CloseFlush, memory
  <2>6. CASE CopyBase
    <3>1. phase = "base" /\ phase' = "base copied" /\ base_num_edges' = base_num_edges
      BY <2>6 DEF CopyBase, durable
    <3>2. /\ DegreeSum(vertices) + EdgesLeft(todo) = n_edges
          /\ num_edges = n_edges /\ base_num_edges = n_edges
      BY <3>1 DEF Counts
    <3>3. DegreeSum(vertices) = n_edges
      BY <1>1, <2>4, <3>2
    <3>4. DegreeSum(vertices') = n_edges
      BY <2>5, <3>3
    <3> QED
      BY <1>2, <2>5, <3>1, <3>2, <3>4 DEF Counts
  <2>7. CASE FlushBase
    <3>1. /\ phase = "base copied" /\ phase' = "dynamic" /\ base_num_edges' = base_num_edges
          /\ vertices_pmem' = vertices
      BY <2>7 DEF FlushBase
    <3>2. DegreeSum(vertices) = n_edges /\ num_edges = n_edges /\ base_num_edges = n_edges
      BY <3>1 DEF Counts
    <3>3. DegreeSum(vertices') = n_edges /\ DegreeSum(vertices_pmem') = n_edges
      BY <2>5, <3>1, <3>2
    <3>4. num_edges' + Cardinality(Behind') = DegreeSum(vertices')
      BY <1>0, <2>3, <2>5, <3>2, <3>3
    <3> QED
      BY <1>2, <2>5, <3>1, <3>2, <3>3, <3>4 DEF Counts
  <2>8. CASE Close
    <3>1. /\ phase = "dynamic" /\ phase' = "copied" /\ base_num_edges' = base_num_edges
          /\ vertices_pmem' = vertices_pmem
      BY <2>8 DEF Close, durable
    <3> QED
      BY <1>2, <2>3, <2>5, <3>1 DEF Counts
  <2>9. CASE CloseFlush
    <3>1. /\ phase = "copied" /\ phase' = "closed"
          /\ vertices_pmem' = vertices /\ base_num_edges' = num_edges
      BY <2>9 DEF CloseFlush
    <3> QED
      BY <1>2, <2>3, <2>5, <3>1 DEF Counts
  <2> QED
    BY <1>4, <2>6, <2>7, <2>8, <2>9 DEF Program
<1>5. ASSUME Restart PROVE Counts'
  <2>1. phase' = "reopened"
    BY <1>5 DEF Restart
  <2> QED
    BY <1>2, <2>1 DEF Counts
<1>6. ASSUME UNCHANGED balVars PROVE Counts'
  BY <1>6 DEF balVars, memory, durable, threadVars, Counts, EdgesCounted
<1> QED
  BY <1>3, <1>4, <1>5, <1>6 DEF BalNext, Ended

-----------------------------------------------------------------------------
(***************************************************************************)
(* Chains: the blocks of every list, and what a reader finds in them.       *)
(***************************************************************************)
\* The cells of the edges of a list are in blocks of its chain.
LEMMA ChainFacts ==
  ASSUME BalTypeOK, NEW W, Chains(W), NEW u \in Nodes
  PROVE  /\ vertices[u].degree \in Nat /\ Len(W[u]) \in Nat
         /\ W[u] \in Seq(Nat) /\ DOMAIN W[u] = 1 .. Len(W[u])
         /\ Used(vertices[u].degree) <= Len(W[u])
         /\ \A k \in 1 .. Len(W[u]) : W[u][k] \in DOMAIN blocks
         /\ \A i \in 1 .. vertices[u].degree :
              /\ (i - 1) \div BLOCK_SIZE + 1 \in 1 .. Len(W[u])
              /\ (i - 1) % BLOCK_SIZE \in 0 .. BLOCK_SIZE - 1
<1> DEFINE d == vertices[u].degree
<1>1. d \in Nat
  BY DEF BalTypeOK, Vertex
<1>2. W[u] \in Seq(Nat) /\ W[u] \in Seq(DOMAIN blocks)
  BY DEF Chains, IsChain
<1>3. /\ Len(W[u]) \in Nat /\ DOMAIN W[u] = 1 .. Len(W[u])
      /\ \A k \in 1 .. Len(W[u]) : W[u][k] \in DOMAIN blocks
  BY <1>2
<1>4. Len(W[u]) = Used(d + 1) \/ Len(W[u]) = Used(d)
  BY DEF Chains, Lengths
<1> HIDE DEF d
<1>5. Used(d) \in Nat /\ Used(d) <= Len(W[u])
  <2>1. Used(d) \in Nat /\ Used(d) <= Used(d + 1)
    BY <1>1, UsedBlocks, SMTT(30)
  <2> QED
    BY <1>4, <2>1
<1>6. ASSUME NEW i \in 1 .. d
      PROVE  /\ (i - 1) \div BLOCK_SIZE + 1 \in 1 .. Len(W[u])
             /\ (i - 1) % BLOCK_SIZE \in 0 .. BLOCK_SIZE - 1
  <2>1. /\ (i - 1) \div BLOCK_SIZE + 1 \in 1 .. Used(d)
        /\ (i - 1) % BLOCK_SIZE \in 0 .. BLOCK_SIZE - 1
    BY <1>1, UsedBlocks
  <2> QED
    BY <1>3, <1>5, <2>1
<1> QED
  BY <1>1, <1>2, <1>3, <1>5, <1>6 DEF d

\* Two threads inside have different sources.
LEMMA Exclusive ==
  ASSUME Sections, NEW s \in Threads, NEW t \in Threads,
         pc[s] \in Locked, pc[t] \in Locked, src(s) = src(t)
  PROVE  s = t
BY DEF Sections

\* Where the next edge of a thread goes.
LEMMA Position ==
  ASSUME BalTypeOK, Sections, Room, NEW W, Chains(W), NEW t \in Threads, pc[t] \in Locked
  PROVE  LET u == src(t)
             d == vertices[u].degree
         IN /\ u \in Nodes /\ dst(t) \in Nodes /\ todo[t] # <<>>
            /\ d \div BLOCK_SIZE \in Nat /\ d % BLOCK_SIZE \in 0 .. BLOCK_SIZE - 1
            /\ Stored(u) <=> pc[t] = "count"
            /\ pc[t] \in {"allocate", "link"} =>
                 d % BLOCK_SIZE = 0 /\ Len(W[u]) = d \div BLOCK_SIZE /\ Len(W[u]) = Used(d)
            /\ pc[t] \in {"store", "count"} => Len(W[u]) = d \div BLOCK_SIZE + 1
            /\ Used(d + 1) = d \div BLOCK_SIZE + 1
<1> DEFINE u == src(t)
           d == vertices[u].degree
<1>1. todo[t] # <<>> /\ u \in Nodes /\ dst(t) \in Nodes
  <2>1. todo[t] # <<>>
    BY DEF Sections, Locked
  <2> QED
    BY <2>1, NextEdge
<1>2. d \in Nat
  BY <1>1, ChainFacts
<1>3. Stored(u) <=> pc[t] = "count"
  <2>1. ASSUME NEW s \in Threads, pc[s] = "count", src(s) = u PROVE s = t
    <3>1. pc[s] \in Locked
      BY <2>1 DEF Locked
    <3> QED
      BY <2>1, <3>1, Exclusive
  <2> QED
    BY <2>1 DEF Stored
<1>4. /\ pc[t] \in {"allocate", "link"} => d % BLOCK_SIZE = 0
      /\ pc[t] = "store" => d % BLOCK_SIZE # 0
  BY DEF Room, NeedsBlock
<1>5. Len(W[u]) = IF Stored(u) THEN Used(d + 1) ELSE Used(d)
  BY <1>1 DEF Chains, Lengths
<1> HIDE DEF d, u
<1>6. /\ d \div BLOCK_SIZE \in Nat /\ d % BLOCK_SIZE \in 0 .. BLOCK_SIZE - 1
      /\ Used(d + 1) = d \div BLOCK_SIZE + 1
      /\ d % BLOCK_SIZE = 0 => Used(d) = d \div BLOCK_SIZE
      /\ d % BLOCK_SIZE # 0 => Used(d) = d \div BLOCK_SIZE + 1
  BY <1>2, UsedBlocks
<1>7. /\ pc[t] \in {"allocate", "link"} => Len(W[u]) = d \div BLOCK_SIZE /\ Len(W[u]) = Used(d)
      /\ pc[t] \in {"store", "count"} => Len(W[u]) = d \div BLOCK_SIZE + 1
  BY <1>3, <1>4, <1>5, <1>6
<1> QED
  BY <1>1, <1>3, <1>4, <1>6, <1>7 DEF d, u

\* Only a step from or to "count" changes which lists have an edge behind them.
LEMMA StoredStays ==
  ASSUME BalTypeOK, NEW t \in Threads, Insert(t), NEW u \in Nodes
  PROVE  /\ pc[t] # "count" /\ pc'[t] # "count" => (Stored(u)' <=> Stored(u))
         /\ src(t) # u /\ (pc'[t] = "count" => src(t)' = src(t)) => (Stored(u)' <=> Stored(u))
<1>1. \A s \in Threads : s # t => pc'[s] = pc[s] /\ src(s)' = src(s)
  BY OthersStay
<1> QED
  BY <1>1 DEF Stored

\* Empty lists have empty chains.
LEMMA ChainsInitial == BalInit => Heap
<1> SUFFICES ASSUME BalInit PROVE Heap
  OBVIOUS
<1>1. PICK W : W = [u \in Nodes |-> <<>>]
  OBVIOUS
<1>2. W \in [Nodes -> Seq(Nat)] /\ \A u \in Nodes : W[u] = <<>> /\ Len(W[u]) = 0
  BY <1>1
<1>3. /\ \A t \in Threads : pc[t] = "idle"
      /\ \A u \in Nodes : vertices[u].degree = 0
      /\ mapped = 0
  BY DEF BalInit
<1>4. \A u \in Nodes : ~Stored(u)
  BY <1>3 DEF Stored
<1>5. Used(0) = 0
  BY DEF Used
<1>6. \A u \in Nodes : IsChain(W[u], blocks)
  BY <1>2 DEF IsChain
<1>7. Apart(W) /\ Ends(W) /\ Lengths(W) /\ Fresh(W) /\ Written(W)
  BY <1>2, <1>3, <1>4, <1>5, SMTT(30) DEF Apart, Ends, Lengths, Fresh, Written
<1>8. Chains(W)
  BY <1>2, <1>6, <1>7 DEF Chains
<1>9. Room
  BY <1>3 DEF Room
<1> QED
  BY <1>3, <1>8, <1>9 DEF Heap

\* What a reader finds, list by list.
SameReads(W, V) ==
  \A u \in Nodes : Read(blocks', V[u], vertices'[u].degree) = Read(blocks, W[u], vertices[u].degree)

\* Taking the lock and counting touch no list.
LEMMA QuietKeepsChains ==
  ASSUME BalTypeOK, Sections, Room, NEW W, Chains(W),
         NEW t \in Threads, Lock(t) \/ Load(t) \/ Swap(t)
  PROVE  Room' /\ Chains(W)' /\ SameReads(W, W)
<1>0. Insert(t) /\ pc \in [Threads -> Labels]
  BY DEF Insert, BalTypeOK
<1>1. vertices' = vertices /\ blocks' = blocks
  BY DEF Lock, Load, Swap, memory
<1>2. \A s \in Threads : s # t =>
        pc'[s] = pc[s] /\ block'[s] = block[s] /\ src(s)' = src(s) /\ dst(s)' = dst(s)
  BY <1>0, OthersStay
<1>3. /\ pc[t] \notin {"link", "count"} /\ pc'[t] \notin {"link", "count"}
      /\ pc'[t] \in {"allocate", "store"} =>
           src(t)' = src(t) /\ pc'[t] = IF NeedsBlock(src(t)) THEN "allocate" ELSE "store"
  <2>1. CASE Lock(t)
    <3>1. pc[t] = "idle" /\ pc'[t] = (IF NeedsBlock(src(t)) THEN "allocate" ELSE "store")
          /\ todo' = todo
      BY <1>0, <2>1 DEF Lock, At, Goto
    <3> QED
      BY <3>1 DEF src
  <2>2. CASE Load(t) \/ Swap(t)
    BY <1>0, <2>2 DEF Load, Swap, At, Goto
  <2> QED
    BY <2>1, <2>2
<1>4. \A u \in Nodes : Stored(u)' <=> Stored(u)
  BY <1>0, <1>3, StoredStays
<1>5. Room'
  <2>1. \A u : NeedsBlock(u)' <=> NeedsBlock(u)
    BY <1>1 DEF NeedsBlock
  <2>2. ASSUME NEW s \in Threads
        PROVE  /\ pc'[s] \in {"allocate", "link"} => NeedsBlock(src(s))'
               /\ pc'[s] = "store" => ~NeedsBlock(src(s))'
    <3>1. CASE s = t
      <4>1. pc'[s] \in {"allocate", "link", "store"} => src(s)' = src(t)
        BY <1>3, <3>1
      <4>2. src(s)' = src(t) => (NeedsBlock(src(s))' <=> NeedsBlock(src(t)))
        BY <1>1 DEF NeedsBlock
      <4> QED
        BY <1>3, <3>1, <4>1, <4>2
    <3>2. CASE s # t
      <4>1. NeedsBlock(src(s))' <=> NeedsBlock(src(s))
        BY <1>1, <1>2, <3>2 DEF NeedsBlock
      <4> QED
        BY <1>2, <3>2, <4>1 DEF Room
    <3> QED
      BY <3>1, <3>2
  <2> QED
    BY <2>2 DEF Room
<1>6. Ends(W)' /\ \A u \in Nodes : IsChain(W[u], blocks')
  BY <1>1 DEF Ends, Chains
<1>7. Lengths(W)'
  BY <1>1, <1>4 DEF Lengths, Chains
<1>8. Fresh(W)'
  BY <1>1, <1>2, <1>3 DEF Fresh, Chains
<1>9. Written(W)'
  BY <1>1, <1>2, <1>3 DEF Written, Chains
<1>10. SameReads(W, W)
  BY <1>1 DEF SameReads
<1> QED
  BY <1>5, <1>6, <1>7, <1>8, <1>9, <1>10 DEF Chains, Apart

\* The blocks that a reader sees are in the chain.
LEMMA ReadsAre ==
  ASSUME BalTypeOK, NEW W, Chains(W), NEW u \in Nodes, NEW heap, NEW w,
         \A i \in 1 .. vertices[u].degree :
           LET k == (i - 1) \div BLOCK_SIZE + 1
               c == (i - 1) % BLOCK_SIZE
           IN heap[w[k]].cells[c] = blocks[W[u][k]].cells[c]
  PROVE  Read(heap, w, vertices[u].degree) = Read(blocks, W[u], vertices[u].degree)
BY DEF Read

\* A new block is in no list yet.
LEMMA AllocateKeepsChains ==
  ASSUME BalTypeOK, Sections, Room, NEW W, Chains(W), NEW t \in Threads, Allocate(t)
  PROVE  Room' /\ Chains(W)' /\ SameReads(W, W)
<1>0. Insert(t) /\ pc \in [Threads -> Labels] /\ pc[t] = "allocate" /\ pc[t] \in Locked
  BY DEF Insert, BalTypeOK, Allocate, At, Locked
<1> DEFINE new == [cells |-> [i \in 0 .. BLOCK_SIZE - 1 |-> IF i = 0 THEN dst(t) ELSE Hole],
                   next_offset |-> 0]
           n == Len(blocks) + 1
<1>1. /\ vertices' = vertices /\ todo' = todo /\ blocks' = Append(blocks, new)
      /\ block' = [block EXCEPT ![t] = n] /\ pc' = [pc EXCEPT ![t] = "link"]
  BY DEF Allocate, Goto
<1>2. new.cells[0] = dst(t)
  <2>1. 0 \in 0 .. BLOCK_SIZE - 1
    BY BlockSize
  <2> QED
    BY <2>1
<1> HIDE DEF new
<1>3. /\ \A b \in DOMAIN blocks : b \in DOMAIN blocks' /\ blocks'[b] = blocks[b] /\ b # n
      /\ n \in DOMAIN blocks' /\ blocks'[n] = new
  BY <1>1 DEF BalTypeOK
<1>4. \A s \in Threads : src(s)' = src(s) /\ dst(s)' = dst(s)
  BY <1>1 DEF src, dst
<1>5. \A s \in Threads : s # t => pc'[s] = pc[s] /\ block'[s] = block[s]
  BY <1>0, OthersStay
<1>6. pc'[t] = "link" /\ block'[t] = n
  BY <1>0, <1>1 DEF BalTypeOK
<1>7. \A u \in Nodes : Stored(u)' <=> Stored(u)
  BY <1>0, <1>6, StoredStays
<1>8. \A u \in Nodes : \A k \in 1 .. Len(W[u]) : W[u][k] \in DOMAIN blocks
  BY ChainFacts
<1>9. Room'
  <2>1. \A s \in Threads : NeedsBlock(src(s))' <=> NeedsBlock(src(s))
    BY <1>1, <1>4 DEF NeedsBlock
  <2>2. NeedsBlock(src(t))
    BY <1>0 DEF Room
  <2> QED
    BY <1>5, <1>6, <2>1, <2>2 DEF Room
<1>10. ASSUME NEW u \in Nodes PROVE IsChain(W[u], blocks')
  <2>1. W[u] \in Seq(Nat) /\ IsChain(W[u], blocks) /\ Len(W[u]) \in Nat /\ DOMAIN W[u] = 1 .. Len(W[u])
    BY ChainFacts DEF Chains
  <2>2. W[u] \in Seq(DOMAIN blocks')
    <3>1. W[u] \in Seq(DOMAIN blocks)
      BY <2>1 DEF IsChain
    <3>2. DOMAIN blocks \subseteq DOMAIN blocks'
      BY <1>3
    <3> QED
      BY <3>1, <3>2
  <2>3. ASSUME NEW k \in 1 .. Len(W[u]) - 1 PROVE blocks'[W[u][k]].next_offset = W[u][k + 1]
    <3>1. blocks[W[u][k]].next_offset = W[u][k + 1] /\ k \in 1 .. Len(W[u])
      BY <2>1 DEF IsChain
    <3> QED
      BY <1>3, <1>8, <3>1
  <2> QED
    BY <2>2, <2>3 DEF IsChain
<1>11. Ends(W)'
  BY <1>1 DEF Ends, Chains
<1>12. Lengths(W)'
  BY <1>1, <1>7 DEF Lengths, Chains
<1>13. Fresh(W)'
  <2>1. \A s \in Threads : pc[s] = "link" =>
          /\ block[s] \in DOMAIN blocks /\ blocks[block[s]].cells[0] = dst(s)
          /\ \A u \in Nodes : \A i \in 1 .. Len(W[u]) : W[u][i] # block[s]
          /\ \A r \in Threads : pc[r] = "link" /\ block[r] = block[s] => r = s
    BY DEF Chains, Fresh
  <2>2. ASSUME NEW s \in Threads, pc'[s] = "link", s # t
        PROVE  /\ block'[s] \in DOMAIN blocks' /\ blocks'[block'[s]].cells[0] = dst(s)'
               /\ \A u \in Nodes : \A i \in 1 .. Len(W[u]) : W[u][i] # block'[s]
               /\ block'[s] # n
    BY <1>3, <1>4, <1>5, <2>1, <2>2
  <2>3. /\ block'[t] \in DOMAIN blocks' /\ blocks'[block'[t]].cells[0] = dst(t)'
        /\ \A u \in Nodes : \A i \in 1 .. Len(W[u]) : W[u][i] # block'[t]
    BY <1>2, <1>3, <1>4, <1>6, <1>8
  <2>4. ASSUME NEW s \in Threads, NEW r \in Threads, pc'[s] = "link", pc'[r] = "link",
               block'[r] = block'[s]
        PROVE  r = s
    <3>1. s = t <=> r = t
      BY <1>6, <2>2, <2>4
    <3>2. s # t => r = s
      BY <1>5, <2>1, <2>4, <3>1
    <3> QED
      BY <3>1, <3>2
  <2> QED
    BY <2>2, <2>3, <2>4 DEF Fresh
<1>14. Written(W)'
  <2>1. ASSUME NEW s \in Threads, pc'[s] = "count"
        PROVE  LET d == vertices'[src(s)'].degree IN
               blocks'[W[src(s)'][d \div BLOCK_SIZE + 1]].cells[d % BLOCK_SIZE] = dst(s)'
    <3> DEFINE u == src(s)
               k == vertices[u].degree \div BLOCK_SIZE + 1
    <3>1. pc[s] = "count" /\ pc[s] \in Locked
      BY <1>5, <1>6, <2>1 DEF Locked
    <3>2. u \in Nodes /\ k = Len(W[u]) /\ k - 1 \in Nat
      BY <3>1, Position
    <3>3. W[u][k] \in DOMAIN blocks
      <4>1. Len(W[u]) \in Nat /\ k \in 1 .. Len(W[u])
        BY <3>2, ChainFacts
      <4> QED
        BY <1>8, <3>2, <4>1
    <3>4. blocks[W[u][k]].cells[vertices[u].degree % BLOCK_SIZE] = dst(s)
      BY <3>1 DEF Chains, Written
    <3> QED
      BY <1>1, <1>3, <1>4, <3>3, <3>4
  <2> QED
    BY <2>1 DEF Written
<1>15. SameReads(W, W)
  <2>1. ASSUME NEW u \in Nodes
        PROVE  Read(blocks', W[u], vertices[u].degree) = Read(blocks, W[u], vertices[u].degree)
    <3>1. ASSUME NEW i \in 1 .. vertices[u].degree
          PROVE  LET k == (i - 1) \div BLOCK_SIZE + 1
                     c == (i - 1) % BLOCK_SIZE
                 IN blocks'[W[u][k]].cells[c] = blocks[W[u][k]].cells[c]
      <4>1. (i - 1) \div BLOCK_SIZE + 1 \in 1 .. Len(W[u])
        BY ChainFacts
      <4> QED
        BY <1>3, <1>8, <4>1
    <3> QED
      BY <3>1, ReadsAre
  <2> QED
    BY <1>1, <2>1 DEF SameReads
<1> QED
  BY <1>9, <1>10, <1>11, <1>12, <1>13, <1>14, <1>15 DEF Chains, Apart

\* The steps of a thread leave the parts of the invariant about the others.
LEMMA OtherThreads ==
  ASSUME BalTypeOK, Sections, Room, NEW W, Chains(W), NEW t \in Threads, Insert(t),
         NEW s \in Threads, s # t
  PROVE  /\ pc'[s] = pc[s] /\ block'[s] = block[s] /\ src(s)' = src(s) /\ dst(s)' = dst(s)
         /\ pc[s] \in Locked /\ pc[t] \in Locked => src(s) # src(t)
         /\ pc[s] \in Locked => src(s) \in Nodes
         /\ pc[s] = "link" =>
              /\ block[s] \in DOMAIN blocks /\ blocks[block[s]].cells[0] = dst(s)
              /\ \A u \in Nodes : \A i \in 1 .. Len(W[u]) : W[u][i] # block[s]
              /\ \A r \in Threads : pc[r] = "link" /\ block[r] = block[s] => r = s
<1>1. pc'[s] = pc[s] /\ block'[s] = block[s] /\ src(s)' = src(s) /\ dst(s)' = dst(s)
  BY OthersStay
<1>2. pc[s] \in Locked /\ pc[t] \in Locked => src(s) # src(t)
  BY Exclusive
<1>3. pc[s] \in Locked => src(s) \in Nodes
  BY Position
<1>4. pc[s] = "link" =>
        /\ block[s] \in DOMAIN blocks /\ blocks[block[s]].cells[0] = dst(s)
        /\ \A u \in Nodes : \A i \in 1 .. Len(W[u]) : W[u][i] # block[s]
        /\ \A r \in Threads : pc[r] = "link" /\ block[r] = block[s] => r = s
  BY DEF Chains, Fresh
<1> QED
  BY <1>1, <1>2, <1>3, <1>4

\* The edge that thread s is to count is in the list W of its source.
WrittenAt(W, s) ==
  LET d == vertices[src(s)].degree
      k == d \div BLOCK_SIZE + 1
      c == d % BLOCK_SIZE
  IN /\ k \in 1 .. Len(W[src(s)]) /\ c \in 0 .. BLOCK_SIZE - 1
     /\ W[src(s)][k] \in DOMAIN blocks
     /\ blocks[W[src(s)][k]].cells[c] = dst(s)

\* A thread that is to count its edge has written it.
LEMMA CountsWritten ==
  ASSUME BalTypeOK, Sections, Room, NEW W, Chains(W), NEW s \in Threads, pc[s] = "count"
  PROVE  WrittenAt(W, s)
<1> DEFINE d == vertices[src(s)].degree
           k == d \div BLOCK_SIZE + 1
           c == d % BLOCK_SIZE
<1>1. pc[s] \in Locked
  BY DEF Locked
<1>2. src(s) \in Nodes /\ k = Len(W[src(s)]) /\ k - 1 \in Nat /\ c \in 0 .. BLOCK_SIZE - 1
  BY <1>1, Position
<1>3. Len(W[src(s)]) \in Nat /\ \A j \in 1 .. Len(W[src(s)]) : W[src(s)][j] \in DOMAIN blocks
  BY <1>2, ChainFacts
<1>4. blocks[W[src(s)][k]].cells[c] = dst(s)
  BY DEF Chains, Written
<1>5. k \in 1 .. Len(W[src(s)])
  BY <1>2, <1>3
<1> QED
  BY <1>2, <1>3, <1>4, <1>5 DEF WrittenAt

\* The room of the others, when the list of t alone changes its degree, if any.
LEMMA RoomKept ==
  ASSUME BalTypeOK, Sections, Room, NEW W, Chains(W), NEW t \in Threads, Insert(t),
         pc[t] \in Locked, pc'[t] \notin {"allocate", "link", "store"},
         \A u \in Nodes : u # src(t) => vertices'[u].degree = vertices[u].degree
  PROVE  Room'
<1>1. ASSUME NEW s \in Threads, s # t, pc'[s] \in {"allocate", "link", "store"}
      PROVE  /\ pc[s] = pc'[s]
             /\ NeedsBlock(src(s))' <=> NeedsBlock(src(s))
  <2>1. pc'[s] = pc[s] /\ src(s)' = src(s)
    BY <1>1, OtherThreads
  <2>2. pc[s] \in Locked
    BY <1>1, <2>1 DEF Locked
  <2>3. src(s) \in Nodes /\ src(s) # src(t)
    BY <1>1, <2>2, OtherThreads
  <2> QED
    BY <2>1, <2>3 DEF NeedsBlock
<1> QED
  BY <1>1 DEF Room

\* An edge goes to a cell behind its list.
LEMMA StoreKeepsChains ==
  ASSUME BalTypeOK, Sections, Room, mapped = 0, NEW W, Chains(W), NEW t \in Threads, Store(t)
  PROVE  Room' /\ Chains(W)' /\ SameReads(W, W)
<1>0. /\ Insert(t) /\ pc \in [Threads -> Labels] /\ pc[t] = "store" /\ pc[t] \in Locked
      /\ blocks \in Seq(Block)
  BY DEF Insert, BalTypeOK, Store, At, Locked
<1>u. PICK u : u = src(t)
  OBVIOUS
<1> DEFINE d == vertices[u].degree
           q == d \div BLOCK_SIZE + 1
           r == d % BLOCK_SIZE
           k == W[u][q]
           x == dst(t)
<1>1. /\ u \in Nodes /\ x \in Nodes /\ r \in 0 .. BLOCK_SIZE - 1
      /\ q = Len(W[u]) /\ q \in 1 .. Len(W[u]) /\ Used(d + 1) = q /\ d \in Nat
      /\ ~Stored(u)
  <2>1. /\ u \in Nodes /\ x \in Nodes /\ r \in 0 .. BLOCK_SIZE - 1 /\ d \div BLOCK_SIZE \in Nat
        /\ q = Len(W[u]) /\ Used(d + 1) = q /\ ~Stored(u)
    BY <1>0, <1>u, Position
  <2>2. Len(W[u]) \in Nat /\ d \in Nat
    BY <2>1, ChainFacts
  <2> QED
    BY <2>1, <2>2
<1>2. vertices[u].tail = k
  BY <1>1 DEF Chains, Ends
<1>3. k \in DOMAIN blocks /\ k \in Nat
  <2>1. k \in DOMAIN blocks
    BY <1>1, ChainFacts
  <2> QED
    BY <1>0, <2>1
<1>4. vertices' = vertices /\ todo' = todo /\ block' = block /\ pc'[t] = "count"
      /\ blocks' = WithCell(blocks, k, r, x)
  <2>1. k - 0 = k
    BY <1>3
  <2> QED
    BY <1>0, <1>u, <1>2, <2>1 DEF Store, Goto, WithCell
<1>5. /\ DOMAIN blocks' = DOMAIN blocks
      /\ blocks'[k].next_offset = blocks[k].next_offset
      /\ blocks'[k].cells = [blocks[k].cells EXCEPT ![r] = x]
      /\ \A b \in DOMAIN blocks : b # k => blocks'[b] = blocks[b]
  <2> HIDE DEF k, r, x
  <2> QED
    BY <1>0, <1>1, <1>3, <1>4, CellChanges
<1>6. blocks'[k].cells[r] = x /\ \A c \in 0 .. BLOCK_SIZE - 1 : c # r =>
        blocks'[k].cells[c] = blocks[k].cells[c]
  <2>1. blocks[k].cells \in [0 .. BLOCK_SIZE - 1 -> Nodes \cup {Hole}]
    <3>1. blocks[k] \in Block
      BY <1>0, <1>3
    <3> QED
      BY <3>1, BlockShape
  <2> HIDE DEF k, r, x
  <2> QED
    BY <1>1, <1>5, <2>1
<1>7. \A v \in Nodes : \A j \in 1 .. Len(W[v]) : W[v][j] = k => v = u /\ j = q
  BY <1>1 DEF Chains, Apart
<1>8. src(t)' = u /\ dst(t)' = x
  BY <1>4, <1>u DEF src, dst
<1> HIDE DEF d, q, r, k, x
<1>9. ASSUME NEW v \in Nodes, NEW i \in 1 .. vertices[v].degree
      PROVE  LET j == (i - 1) \div BLOCK_SIZE + 1
                 c == (i - 1) % BLOCK_SIZE
             IN blocks'[W[v][j]].cells[c] = blocks[W[v][j]].cells[c]
  <2> DEFINE j == (i - 1) \div BLOCK_SIZE + 1
             c == (i - 1) % BLOCK_SIZE
  <2>1. j \in 1 .. Len(W[v]) /\ W[v][j] \in DOMAIN blocks /\ c \in 0 .. BLOCK_SIZE - 1
    BY ChainFacts
  <2>2. CASE W[v][j] # k
    BY <1>5, <2>1, <2>2
  <2>3. CASE W[v][j] = k /\ c # r
    BY <1>6, <2>1, <2>3
  <2>4. CASE W[v][j] = k /\ c = r
    <3>1. v = u /\ j = q
      BY <1>7, <2>1, <2>4
    <3>2. i - 1 \in Nat /\ d \in Nat /\ i - 1 # d
      BY <1>1, <3>1 DEF d
    <3>3. (i - 1) \div BLOCK_SIZE = d \div BLOCK_SIZE /\ (i - 1) % BLOCK_SIZE = d % BLOCK_SIZE
      <4>1. (i - 1) \div BLOCK_SIZE \in Nat /\ d \div BLOCK_SIZE \in Nat
        BY <3>2, DivMod
      <4>2. (i - 1) \div BLOCK_SIZE + 1 = d \div BLOCK_SIZE + 1
        BY <3>1 DEF q
      <4> QED
        BY <2>4, <4>1, <4>2 DEF r
    <3> QED
      BY <3>2, <3>3, DivModUnique
  <2> QED
    BY <2>2, <2>3, <2>4
<1>10. SameReads(W, W)
  BY <1>4, <1>9, ReadsAre DEF SameReads
<1>11. Room'
  BY <1>0, <1>4, RoomKept
<1>12. ASSUME NEW v \in Nodes PROVE IsChain(W[v], blocks')
  <2>1. IsChain(W[v], blocks) /\ \A j \in 1 .. Len(W[v]) : W[v][j] \in DOMAIN blocks
    BY ChainFacts DEF Chains
  <2>2. Len(W[v]) \in Nat
    BY ChainFacts
  <2>3. \A b \in DOMAIN blocks : blocks'[b].next_offset = blocks[b].next_offset
    BY <1>5
  <2>4. \A j \in 1 .. Len(W[v]) - 1 : W[v][j] \in DOMAIN blocks
    BY <2>1, <2>2
  <2> QED
    BY <1>5, <2>1, <2>3, <2>4 DEF IsChain
<1>13. Ends(W)'
  BY <1>4 DEF Ends, Chains
<1>14. Lengths(W)'
  <2>1. Stored(u)'
    BY <1>4, <1>8 DEF Stored
  <2>2. \A v \in Nodes : v # u => (Stored(v)' <=> Stored(v))
    BY <1>0, <1>u, <1>8, StoredStays
  <2>3. \A v \in Nodes : v # u =>
          Len(W[v]) = IF Stored(v)' THEN Used(vertices'[v].degree + 1) ELSE Used(vertices'[v].degree)
    BY <1>4, <2>2 DEF Lengths, Chains
  <2>4. Len(W[u]) = Used(vertices'[u].degree + 1)
    BY <1>1, <1>4 DEF d
  <2> QED
    BY <2>1, <2>3, <2>4 DEF Lengths
<1>15. Fresh(W)'
  <2>1. ASSUME NEW s \in Threads, pc'[s] = "link"
        PROVE  /\ s # t /\ pc[s] = "link" /\ block'[s] = block[s]
               /\ block'[s] \in DOMAIN blocks' /\ blocks'[block'[s]].cells[0] = dst(s)'
               /\ \A v \in Nodes : \A i \in 1 .. Len(W[v]) : W[v][i] # block'[s]
    <3>1. s # t
      BY <1>4, <2>1
    <3>2. /\ pc[s] = "link" /\ block'[s] = block[s] /\ dst(s)' = dst(s)
          /\ block[s] \in DOMAIN blocks /\ blocks[block[s]].cells[0] = dst(s)
          /\ \A v \in Nodes : \A i \in 1 .. Len(W[v]) : W[v][i] # block[s]
      BY <1>0, <2>1, <3>1, OtherThreads, SMTT(60)
    <3>3. block[s] # k
      BY <1>1, <3>2 DEF k
    <3> QED
      BY <1>5, <3>1, <3>2, <3>3
  <2>2. ASSUME NEW s \in Threads, NEW y \in Threads, pc'[s] = "link", pc'[y] = "link",
               block'[y] = block'[s]
        PROVE  y = s
    BY <2>1, <2>2 DEF Fresh, Chains
  <2> QED
    BY <2>1, <2>2 DEF Fresh
<1>16. Written(W)'
  <2>1. ASSUME NEW s \in Threads, pc'[s] = "count"
        PROVE  LET e == vertices'[src(s)'].degree IN
               blocks'[W[src(s)'][e \div BLOCK_SIZE + 1]].cells[e % BLOCK_SIZE] = dst(s)'
    <3>1. CASE s = t
      BY <1>4, <1>6, <1>8, <3>1 DEF k, q, r, d
    <3>2. CASE s # t
      <4> DEFINE e == vertices[src(s)].degree
                 j == e \div BLOCK_SIZE + 1
                 c == e % BLOCK_SIZE
      <4>1. pc[s] = "count" /\ src(s)' = src(s) /\ dst(s)' = dst(s)
        BY <1>0, <2>1, <3>2, OtherThreads, SMTT(60)
      <4>2. pc[s] \in Locked
        BY <4>1 DEF Locked
      <4>3. src(s) \in Nodes /\ src(s) # u
        BY <1>0, <1>u, <3>2, <4>2, OtherThreads
      <4>4. j \in 1 .. Len(W[src(s)]) /\ W[src(s)][j] \in DOMAIN blocks
            /\ blocks[W[src(s)][j]].cells[c] = dst(s)
        <5>1. WrittenAt(W, s)
          BY <1>0, <3>2, <4>1, CountsWritten
        <5> QED
          BY <5>1 DEF WrittenAt
      <4>5. W[src(s)][j] # k
        BY <1>7, <4>3, <4>4
      <4>6. blocks'[W[src(s)][j]].cells[c] = dst(s)
        BY <1>5, <4>4, <4>5
      <4> QED
        BY <1>4, <4>1, <4>6
    <3> QED
      BY <3>1, <3>2
  <2> QED
    BY <2>1 DEF Written
<1> QED
  BY <1>10, <1>11, <1>12, <1>13, <1>14, <1>15, <1>16 DEF Chains, Apart

\* The edge counts, and the list ends with it.
LEMMA UnlockKeepsChains ==
  ASSUME BalTypeOK, Sections, Room, NEW W, Chains(W), NEW t \in Threads, Unlock(t)
  PROVE  /\ Room' /\ Chains(W)'
         /\ \A v \in Nodes : v # src(t) =>
              Read(blocks', W[v], vertices'[v].degree) = Read(blocks, W[v], vertices[v].degree)
         /\ vertices'[src(t)].degree = vertices[src(t)].degree + 1
         /\ Read(blocks', W[src(t)], vertices'[src(t)].degree) =
              Append(Read(blocks, W[src(t)], vertices[src(t)].degree), dst(t))
<1>0. /\ Insert(t) /\ pc \in [Threads -> Labels] /\ pc[t] = "count" /\ pc[t] \in Locked
      /\ vertices \in [Nodes -> Vertex]
  BY DEF Insert, BalTypeOK, Unlock, At, Locked
<1>u. PICK u : u = src(t)
  OBVIOUS
<1> DEFINE d == vertices[u].degree
           q == d \div BLOCK_SIZE + 1
           r == d % BLOCK_SIZE
<1>1. /\ u \in Nodes /\ q = Len(W[u]) /\ Used(d + 1) = q /\ d \in Nat
      /\ d \div BLOCK_SIZE \in Nat
  <2>1. u \in Nodes /\ q = Len(W[u]) /\ Used(d + 1) = q /\ d \div BLOCK_SIZE \in Nat
    BY <1>0, <1>u, Position
  <2>2. d \in Nat
    BY <2>1, ChainFacts
  <2> QED
    BY <2>1, <2>2
<1>2. /\ vertices' = WithEdge(vertices, u) /\ blocks' = blocks /\ block' = block
      /\ pc'[t] \in {"idle", "load"}
  BY <1>0, <1>u DEF Unlock, WithEdge, Goto
<1>3. /\ vertices'[u].head = vertices[u].head /\ vertices'[u].tail = vertices[u].tail
      /\ vertices'[u].degree = d + 1
      /\ \A v \in Nodes : v # u => vertices'[v] = vertices[v]
  BY <1>0, <1>1, <1>2, EdgeChanges
<1>4. blocks[W[u][q]].cells[r] = dst(t)
  BY <1>0, <1>u DEF Chains, Written
<1> HIDE DEF d, q, r
<1>5. Room'
  BY <1>0, <1>2, <1>3, <1>u, RoomKept
<1>6. Ends(W)' /\ \A v \in Nodes : IsChain(W[v], blocks')
  <2>1. \A v \in Nodes : vertices'[v].head = vertices[v].head /\ vertices'[v].tail = vertices[v].tail
    BY <1>3
  <2> QED
    BY <1>2, <2>1 DEF Ends, Chains
<1>7. Lengths(W)'
  <2>1. ~(Stored(u)')
    <3>1. ASSUME NEW s \in Threads, pc'[s] = "count" PROVE src(s)' # u
      <4>1. s # t
        BY <1>2, <3>1
      <4>2. pc[s] = "count" /\ src(s)' = src(s)
        BY <1>0, <3>1, <4>1, OtherThreads
      <4>3. pc[s] \in Locked
        BY <4>2 DEF Locked
      <4> QED
        BY <1>0, <1>u, <4>1, <4>2, <4>3, OtherThreads, SMTT(60)
    <3> QED
      BY <3>1 DEF Stored
  <2>2. \A v \in Nodes : v # u => (Stored(v)' <=> Stored(v))
    BY <1>0, <1>2, <1>u, StoredStays
  <2>3. \A v \in Nodes : v # u =>
          Len(W[v]) = IF Stored(v)' THEN Used(vertices'[v].degree + 1) ELSE Used(vertices'[v].degree)
    BY <1>3, <2>2 DEF Lengths, Chains
  <2>4. Len(W[u]) = Used(vertices'[u].degree)
    BY <1>1, <1>3
  <2> QED
    BY <2>1, <2>3, <2>4 DEF Lengths
<1>8. Fresh(W)'
  <2>1. ASSUME NEW s \in Threads, pc'[s] = "link"
        PROVE  /\ s # t /\ pc[s] = "link" /\ block'[s] = block[s]
               /\ block'[s] \in DOMAIN blocks' /\ blocks'[block'[s]].cells[0] = dst(s)'
               /\ \A v \in Nodes : \A i \in 1 .. Len(W[v]) : W[v][i] # block'[s]
    BY <1>0, <1>2, <2>1, OtherThreads, SMTT(60)
  <2>2. ASSUME NEW s \in Threads, NEW y \in Threads, pc'[s] = "link", pc'[y] = "link",
               block'[y] = block'[s]
        PROVE  y = s
    BY <2>1, <2>2 DEF Fresh, Chains
  <2> QED
    BY <2>1, <2>2 DEF Fresh
<1>9. Written(W)'
  <2>1. ASSUME NEW s \in Threads, pc'[s] = "count"
        PROVE  LET e == vertices'[src(s)'].degree IN
               blocks'[W[src(s)'][e \div BLOCK_SIZE + 1]].cells[e % BLOCK_SIZE] = dst(s)'
    <3>1. s # t
      BY <1>2, <2>1
    <3>2. pc[s] = "count" /\ src(s)' = src(s) /\ dst(s)' = dst(s)
      BY <1>0, <2>1, <3>1, OtherThreads, SMTT(60)
    <3>3. pc[s] \in Locked
      BY <3>2 DEF Locked
    <3>4. src(s) \in Nodes /\ src(s) # u
      BY <1>0, <1>u, <3>1, <3>3, OtherThreads
    <3>5. vertices'[src(s)] = vertices[src(s)]
      BY <1>3, <3>4
    <3>6. LET e == vertices[src(s)].degree IN
          blocks[W[src(s)][e \div BLOCK_SIZE + 1]].cells[e % BLOCK_SIZE] = dst(s)
      BY <3>2 DEF Written, Chains
    <3> QED
      BY <1>2, <3>2, <3>5, <3>6
  <2> QED
    BY <2>1 DEF Written
<1>10. ASSUME NEW v \in Nodes, v # src(t)
       PROVE  Read(blocks', W[v], vertices'[v].degree) = Read(blocks, W[v], vertices[v].degree)
  BY <1>2, <1>3, <1>10, <1>u
<1>11. Read(blocks', W[u], vertices'[u].degree) = Append(Read(blocks, W[u], d), dst(t))
  <2> DEFINE cell(i) == blocks[W[u][(i - 1) \div BLOCK_SIZE + 1]].cells[(i - 1) % BLOCK_SIZE]
  <2>1. Read(blocks', W[u], vertices'[u].degree) = [i \in 1 .. d + 1 |-> cell(i)]
    BY <1>2, <1>3 DEF Read
  <2>2. Read(blocks, W[u], d) = [i \in 1 .. d |-> cell(i)]
    BY DEF Read
  <2>3. cell(d + 1) = dst(t)
    <3>1. (d + 1) - 1 = d
      BY <1>1
    <3> QED
      BY <1>4, <3>1 DEF q, r
  <2> HIDE DEF cell
  <2>4. Append([i \in 1 .. d |-> cell(i)], dst(t)) = [i \in 1 .. d + 1 |-> cell(i)]
    <3> DEFINE short == [i \in 1 .. d |-> cell(i)]
    <3>1. Len(short) = d /\ short \in Seq({cell(i) : i \in 1 .. d})
      BY <1>1
    <3>2. Append(short, dst(t)) = [i \in 1 .. d + 1 |-> IF i = d + 1 THEN dst(t) ELSE short[i]]
      BY <1>1, <3>1
    <3>3. ASSUME NEW i \in 1 .. d + 1
          PROVE  (IF i = d + 1 THEN dst(t) ELSE short[i]) = cell(i)
      BY <1>1, <2>3
    <3> QED
      BY <3>2, <3>3
  <2> QED
    BY <2>1, <2>2, <2>4
<1> QED
  BY <1>3, <1>5, <1>6, <1>7, <1>8, <1>9, <1>10, <1>11, <1>u DEF Chains, Apart, d

\* The new block is the tail of its list, and no one else's.
LEMMA LinkKeepsChains ==
  ASSUME BalTypeOK, Sections, Room, mapped = 0, NEW W, Chains(W), NEW t \in Threads, Link(t)
  PROVE  \E V : Room' /\ Chains(V)' /\ SameReads(W, V)
<1>0. /\ Insert(t) /\ pc \in [Threads -> Labels] /\ pc[t] = "link" /\ pc[t] \in Locked
      /\ blocks \in Seq(Block) /\ vertices \in [Nodes -> Vertex] /\ block \in [Threads -> Nat]
  BY DEF Insert, BalTypeOK, Link, At, Locked
<1>u. PICK u, n : u = src(t) /\ n = block[t]
  OBVIOUS
<1> DEFINE d == vertices[u].degree
           q == d \div BLOCK_SIZE
           k == W[u][q]
           x == dst(t)
<1>1. /\ u \in Nodes /\ x \in Nodes /\ d % BLOCK_SIZE = 0 /\ d \in Nat /\ q \in Nat
      /\ Len(W[u]) = q /\ Used(d) = q /\ Used(d + 1) = q + 1 /\ ~Stored(u)
      /\ W[u] \in Seq(Nat) /\ DOMAIN W[u] = 1 .. q
  <2>1. /\ u \in Nodes /\ x \in Nodes /\ d % BLOCK_SIZE = 0 /\ q \in Nat
        /\ Len(W[u]) = q /\ Used(d) = q /\ Used(d + 1) = q + 1 /\ ~Stored(u)
    BY <1>0, <1>u, Position
  <2>2. d \in Nat /\ W[u] \in Seq(Nat) /\ DOMAIN W[u] = 1 .. Len(W[u])
    BY <2>1, ChainFacts
  <2> QED
    BY <2>1, <2>2
<1>2. /\ n \in DOMAIN blocks /\ n \in Nat /\ blocks[n].cells[0] = x
      /\ \A v \in Nodes : \A i \in 1 .. Len(W[v]) : W[v][i] # n
  BY <1>0, <1>u DEF Chains, Fresh
<1>3. d > 0 => q > 0
  BY <1>1, UsedBlocks
<1>4. \/ d = 0 /\ q = 0 /\ vertices' = WithEnds(vertices, u, n) /\ blocks' = blocks
      \/ /\ q > 0 /\ k \in DOMAIN blocks /\ vertices[u].tail = k
         /\ vertices' = WithTail(vertices, u, n) /\ blocks' = WithNext(blocks, k, n)
  <2>1. mapped + block[t] = n
    BY <1>2, <1>u
  <2>2. CASE d = 0
    <3>1. q = 0
      BY <1>1, <2>2 DEF Used
    <3> QED
      BY <1>u, <2>1, <2>2, <3>1 DEF Link, WithEnds
  <2>3. CASE d # 0
    <3>1. q > 0 /\ q \in 1 .. Len(W[u])
      BY <1>1, <1>3, <2>3
    <3>2. vertices[u].tail = k /\ k \in DOMAIN blocks
      BY <1>1, <3>1, ChainFacts DEF Chains, Ends
    <3>3. k - 0 = k
      BY <1>0, <3>2
    <3> QED
      BY <1>u, <2>1, <2>3, <3>1, <3>2, <3>3 DEF Link, WithTail, WithNext
  <2> QED
    BY <2>2, <2>3
<1>5. todo' = todo /\ block' = block /\ pc'[t] = "count"
  BY <1>0 DEF Link, Goto
<1>6. src(t)' = u /\ dst(t)' = x
  BY <1>5, <1>u DEF src, dst
<1> HIDE DEF d, q, k, x
<1>7. /\ \A v \in Nodes : vertices'[v].degree = vertices[v].degree
      /\ vertices'[u].tail = n
      /\ vertices'[u].head = IF q = 0 THEN n ELSE vertices[u].head
      /\ \A v \in Nodes : v # u => vertices'[v] = vertices[v]
  <2>1. /\ WithEnds(vertices, u, n)[u].head = n /\ WithEnds(vertices, u, n)[u].tail = n
        /\ WithEnds(vertices, u, n)[u].degree = vertices[u].degree
        /\ \A v \in Nodes : v # u => WithEnds(vertices, u, n)[v] = vertices[v]
        /\ WithTail(vertices, u, n)[u].head = vertices[u].head
        /\ WithTail(vertices, u, n)[u].tail = n
        /\ WithTail(vertices, u, n)[u].degree = vertices[u].degree
        /\ \A v \in Nodes : v # u => WithTail(vertices, u, n)[v] = vertices[v]
    BY <1>0, <1>1, <1>2, VertexChanges, SMTT(30)
  <2>2. CASE q = 0 /\ vertices' = WithEnds(vertices, u, n)
    BY <2>1, <2>2
  <2>3. CASE q > 0 /\ vertices' = WithTail(vertices, u, n)
    BY <2>1, <2>3
  <2> QED
    BY <1>4, <2>2, <2>3
<1>8. /\ DOMAIN blocks' = DOMAIN blocks
      /\ \A b \in DOMAIN blocks : blocks'[b].cells = blocks[b].cells
      /\ q > 0 => blocks'[k].next_offset = n
      /\ \A b \in DOMAIN blocks : (q > 0 => b # k) => blocks'[b] = blocks[b]
  <2>1. CASE q = 0 /\ blocks' = blocks
    BY <2>1
  <2>2. CASE q > 0 /\ k \in DOMAIN blocks /\ blocks' = WithNext(blocks, k, n)
    <3>0. /\ DOMAIN WithNext(blocks, k, n) = DOMAIN blocks
          /\ WithNext(blocks, k, n)[k].cells = blocks[k].cells
          /\ WithNext(blocks, k, n)[k].next_offset = n
          /\ \A b \in DOMAIN blocks : b # k => WithNext(blocks, k, n)[b] = blocks[b]
      <4>1. blocks \in Seq(Block) /\ k \in DOMAIN blocks /\ n \in Nat
        BY <1>0, <1>2, <2>2
      <4> QED
        BY ONLY <4>1, NextChanges
    <3>1. /\ DOMAIN blocks' = DOMAIN blocks
          /\ blocks'[k].cells = blocks[k].cells /\ blocks'[k].next_offset = n
          /\ \A b \in DOMAIN blocks : b # k => blocks'[b] = blocks[b]
      BY <2>2, <3>0
    <3>2. ASSUME NEW b \in DOMAIN blocks PROVE blocks'[b].cells = blocks[b].cells
      BY <3>1
    <3> QED
      BY <2>2, <3>1, <3>2
  <2> QED
    BY <1>4, <2>1, <2>2
<1>9. PICK V : V = [W EXCEPT ![u] = Append(W[u], n)]
  OBVIOUS
<1>10. /\ V \in [Nodes -> Seq(Nat)] /\ V[u] = Append(W[u], n)
       /\ Len(V[u]) = q + 1 /\ V[u][q + 1] = n
       /\ \A i \in 1 .. q : V[u][i] = W[u][i]
       /\ \A v \in Nodes : v # u => V[v] = W[v]
  <2>1. W \in [Nodes -> Seq(Nat)]
    BY DEF Chains
  <2>2. /\ Append(W[u], n) \in Seq(Nat) /\ Len(Append(W[u], n)) = q + 1
        /\ Append(W[u], n)[q + 1] = n /\ \A i \in 1 .. q : Append(W[u], n)[i] = W[u][i]
    BY <1>1, <1>2
  <2> QED
    BY <1>1, <1>9, <2>1, <2>2
<1>11. \A v \in Nodes : \A i \in 1 .. Len(W[v]) :
         /\ W[v][i] \in DOMAIN blocks /\ V[v][i] = W[v][i]
  <2>1. \A v \in Nodes : \A i \in 1 .. Len(W[v]) : W[v][i] \in DOMAIN blocks
    BY ChainFacts
  <2> QED
    BY <1>1, <1>10, <2>1
<1>12. q > 0 => \A v \in Nodes : \A j \in 1 .. Len(W[v]) : W[v][j] = k => v = u /\ j = q
  <2>1. Apart(W) /\ W[u][q] = k
    BY DEF Chains, k
  <2>2. q > 0 => q \in 1 .. Len(W[u])
    BY <1>1
  <2> QED
    BY <1>1, <2>1, <2>2 DEF Apart
<1>13. ASSUME NEW v \in Nodes PROVE IsChain(V[v], blocks')
  <2>1. /\ IsChain(W[v], blocks) /\ Len(W[v]) \in Nat
        /\ \A j \in 1 .. Len(W[v]) : W[v][j] \in DOMAIN blocks
    BY ChainFacts DEF Chains
  <2>2. CASE v # u
    <3>1. V[v] = W[v] /\ W[v] \in Seq(DOMAIN blocks')
      BY <1>8, <1>10, <2>1, <2>2 DEF IsChain
    <3>2. ASSUME NEW j \in 1 .. Len(W[v]) - 1 PROVE blocks'[W[v][j]].next_offset = W[v][j + 1]
      <4>1. W[v][j] \in DOMAIN blocks /\ (q > 0 => W[v][j] # k)
        BY <1>12, <2>1, <2>2
      <4>2. blocks[W[v][j]].next_offset = W[v][j + 1]
        BY <2>1 DEF IsChain
      <4> QED
        BY <1>8, <4>1, <4>2
    <3> QED
      BY <3>1, <3>2 DEF IsChain
  <2>3. CASE v = u
    <3>1. V[u] \in Seq(DOMAIN blocks')
      <4>1. W[u] \in Seq(DOMAIN blocks)
        BY <2>1, <2>3 DEF IsChain
      <4> QED
        BY <1>2, <1>8, <1>10, <4>1
    <3>2. ASSUME NEW j \in 1 .. Len(V[u]) - 1 PROVE blocks'[V[u][j]].next_offset = V[u][j + 1]
      <4>1. j \in 1 .. q /\ q > 0
        BY <1>1, <1>10
      <4>2. V[u][j] = W[u][j] /\ W[u][j] \in DOMAIN blocks
        BY <1>1, <1>10, <2>1, <2>3, <4>1
      <4>3. CASE j = q
        BY <1>8, <1>10, <4>1, <4>2, <4>3 DEF k
      <4>4. CASE j # q
        <5>1. j \in 1 .. Len(W[u]) - 1 /\ j + 1 \in 1 .. q
          BY <1>1, <4>1, <4>4
        <5>2. blocks[W[u][j]].next_offset = W[u][j + 1]
          BY <2>1, <2>3, <5>1 DEF IsChain
        <5>3. W[u][j] # k
          BY <1>1, <1>12, <4>1, <4>4
        <5> QED
          BY <1>8, <1>10, <4>1, <4>2, <5>1, <5>2, <5>3
      <4> QED
        BY <4>3, <4>4
    <3> QED
      BY <2>3, <3>1, <3>2 DEF IsChain
  <2> QED
    BY <2>2, <2>3
<1>14. Apart(V)
  <2>1. ASSUME NEW v \in Nodes, NEW i \in 1 .. Len(V[v])
        PROVE  \/ i \in 1 .. Len(W[v]) /\ V[v][i] = W[v][i] /\ V[v][i] # n
               \/ v = u /\ i = q + 1 /\ V[v][i] = n
    <3>1. CASE v # u
      BY <1>2, <1>10, <3>1
    <3>2. CASE v = u
      <4>1. i \in 1 .. q \/ i = q + 1
        BY <1>1, <1>10, <3>2
      <4>2. CASE i = q + 1
        BY <1>10, <3>2, <4>2
      <4>3. CASE i \in 1 .. q
        <5>1. i \in 1 .. Len(W[u]) /\ V[u][i] = W[u][i]
          BY <1>1, <1>10, <4>3
        <5> QED
          BY <1>1, <1>2, <3>2, <5>1
      <4> QED
        BY <4>1, <4>2, <4>3
    <3> QED
      BY <3>1, <3>2
  <2>2. Apart(W)
    BY DEF Chains
  <2>3. ASSUME NEW v \in Nodes, NEW w \in Nodes, NEW i \in 1 .. Len(V[v]), NEW j \in 1 .. Len(V[w]),
               V[v][i] = V[w][j]
        PROVE  v = w /\ i = j
    <3>1. \/ i \in 1 .. Len(W[v]) /\ V[v][i] = W[v][i] /\ V[v][i] # n
          \/ v = u /\ i = q + 1 /\ V[v][i] = n
      BY <2>1
    <3>2. \/ j \in 1 .. Len(W[w]) /\ V[w][j] = W[w][j] /\ V[w][j] # n
          \/ w = u /\ j = q + 1 /\ V[w][j] = n
      BY <2>1
    <3>3. CASE V[v][i] = n
      BY <2>3, <3>1, <3>2, <3>3
    <3>4. CASE V[v][i] # n
      <4>1. i \in 1 .. Len(W[v]) /\ j \in 1 .. Len(W[w]) /\ W[v][i] = W[w][j]
        BY <2>3, <3>1, <3>2, <3>4
      <4> QED
        BY <2>2, <4>1 DEF Apart
    <3> QED
      BY <3>3, <3>4
  <2> QED
    BY <2>3 DEF Apart
<1>15. Ends(V)'
  <2>1. ASSUME NEW v \in Nodes, Len(V[v]) > 0
        PROVE  vertices'[v].head = V[v][1] /\ vertices'[v].tail = V[v][Len(V[v])]
    <3>1. CASE v # u
      BY <1>7, <1>10, <2>1, <3>1 DEF Ends, Chains
    <3>2. CASE v = u /\ q = 0
      BY <1>1, <1>7, <1>10, <3>2
    <3>3. CASE v = u /\ q > 0
      <4>1. vertices[u].head = W[u][1]
        BY <1>1, <3>3 DEF Ends, Chains
      <4>2. 1 \in 1 .. q /\ q # 0
        BY <1>1, <3>3
      <4> QED
        BY <1>7, <1>10, <3>3, <4>1, <4>2
    <3> QED
      BY <1>1, <3>1, <3>2, <3>3
  <2> QED
    BY <2>1 DEF Ends
<1>16. Lengths(V)'
  <2>1. Stored(u)'
    BY <1>5, <1>6 DEF Stored
  <2>2. \A v \in Nodes : v # u => (Stored(v)' <=> Stored(v))
    BY <1>0, <1>u, <1>6, StoredStays
  <2>3. \A v \in Nodes : v # u =>
          Len(V[v]) = IF Stored(v)' THEN Used(vertices'[v].degree + 1) ELSE Used(vertices'[v].degree)
    BY <1>7, <1>10, <2>2 DEF Lengths, Chains
  <2>4. Len(V[u]) = Used(vertices'[u].degree + 1)
    BY <1>1, <1>7, <1>10 DEF d
  <2> QED
    BY <2>1, <2>3, <2>4 DEF Lengths
<1>17. Fresh(V)'
  <2>1. ASSUME NEW s \in Threads, pc'[s] = "link"
        PROVE  /\ s # t /\ pc[s] = "link" /\ block'[s] = block[s]
               /\ block'[s] \in DOMAIN blocks' /\ blocks'[block'[s]].cells[0] = dst(s)'
               /\ \A v \in Nodes : \A i \in 1 .. Len(V[v]) : V[v][i] # block'[s]
    <3>1. s # t
      BY <1>5, <2>1
    <3>2. /\ pc[s] = "link" /\ block'[s] = block[s] /\ dst(s)' = dst(s)
          /\ block[s] \in DOMAIN blocks /\ blocks[block[s]].cells[0] = dst(s)
          /\ \A v \in Nodes : \A i \in 1 .. Len(W[v]) : W[v][i] # block[s]
          /\ \A y \in Threads : pc[y] = "link" /\ block[y] = block[s] => y = s
      BY <1>0, <2>1, <3>1, OtherThreads, SMTT(60)
    <3>3. block[s] # n
      BY <1>0, <1>u, <3>1, <3>2
    <3>4. ASSUME NEW v \in Nodes, NEW i \in 1 .. Len(V[v]) PROVE V[v][i] # block[s]
      <4>1. CASE v # u
        BY <1>10, <3>2, <4>1
      <4>2. CASE v = u
        <5>1. i \in 1 .. q \/ i = q + 1
          BY <1>1, <1>10, <4>2
        <5>2. CASE i = q + 1
          BY <1>10, <3>3, <4>2, <5>2
        <5>3. CASE i \in 1 .. q
          <6>1. i \in 1 .. Len(W[u]) /\ V[u][i] = W[u][i]
            BY <1>1, <1>10, <5>3
          <6> QED
            BY <1>1, <3>2, <4>2, <6>1
        <5> QED
          BY <5>1, <5>2, <5>3
      <4> QED
        BY <4>1, <4>2
    <3> QED
      BY <1>8, <3>1, <3>2, <3>4
  <2>2. ASSUME NEW s \in Threads, NEW y \in Threads, pc'[s] = "link", pc'[y] = "link",
               block'[y] = block'[s]
        PROVE  y = s
    BY <2>1, <2>2 DEF Fresh, Chains
  <2> QED
    BY <2>1, <2>2 DEF Fresh
<1>18. Written(V)'
  <2>1. ASSUME NEW s \in Threads, pc'[s] = "count"
        PROVE  LET e == vertices'[src(s)'].degree IN
               blocks'[V[src(s)'][e \div BLOCK_SIZE + 1]].cells[e % BLOCK_SIZE] = dst(s)'
    <3>1. CASE s = t
      <4>1. vertices'[u].degree = d
        BY <1>1, <1>7 DEF d
      <4>2. V[u][d \div BLOCK_SIZE + 1] = n /\ d % BLOCK_SIZE = 0
        BY <1>1, <1>10 DEF q
      <4> QED
        BY <1>2, <1>6, <1>8, <3>1, <4>1, <4>2
    <3>2. CASE s # t
      <4> DEFINE e == vertices[src(s)].degree
                 j == e \div BLOCK_SIZE + 1
                 c == e % BLOCK_SIZE
      <4>1. pc[s] = "count" /\ src(s)' = src(s) /\ dst(s)' = dst(s)
        BY <1>0, <2>1, <3>2, OtherThreads, SMTT(60)
      <4>2. pc[s] \in Locked
        BY <4>1 DEF Locked
      <4>3. src(s) \in Nodes /\ src(s) # u
        BY <1>0, <1>u, <3>2, <4>2, OtherThreads
      <4>4. W[src(s)][j] \in DOMAIN blocks /\ blocks[W[src(s)][j]].cells[c] = dst(s)
        <5>1. WrittenAt(W, s)
          BY <1>0, <3>2, <4>1, CountsWritten
        <5> QED
          BY <5>1 DEF WrittenAt
      <4>5. vertices'[src(s)].degree = e /\ V[src(s)] = W[src(s)]
        BY <1>7, <1>10, <4>3
      <4> QED
        BY <1>8, <4>1, <4>4, <4>5
    <3> QED
      BY <3>1, <3>2
  <2> QED
    BY <2>1 DEF Written
<1>19. SameReads(W, V)
  <2>1. ASSUME NEW v \in Nodes, NEW i \in 1 .. vertices[v].degree
        PROVE  LET j == (i - 1) \div BLOCK_SIZE + 1
                   c == (i - 1) % BLOCK_SIZE
               IN blocks'[V[v][j]].cells[c] = blocks[W[v][j]].cells[c]
    <3>1. (i - 1) \div BLOCK_SIZE + 1 \in 1 .. Len(W[v])
      BY ChainFacts
    <3> QED
      BY <1>8, <1>11, <3>1
  <2>2. ASSUME NEW v \in Nodes
        PROVE  Read(blocks', V[v], vertices'[v].degree) = Read(blocks, W[v], vertices[v].degree)
    <3>1. Read(blocks', V[v], vertices[v].degree) = Read(blocks, W[v], vertices[v].degree)
      BY <2>1, ReadsAre
    <3> QED
      BY <1>7, <3>1
  <2> QED
    BY <2>2 DEF SameReads
<1>20. Room'
  BY <1>0, <1>5, <1>7, RoomKept
<1>21. Chains(V)'
  BY <1>10, <1>13, <1>14, <1>15, <1>16, <1>17, <1>18 DEF Chains, Apart
<1> QED
  BY <1>19, <1>20, <1>21

\* The steps of the program between the loops touch no list.
LEMMA ProgramKeepsChains ==
  ASSUME BalTypeOK, Sections, NEW W, Chains(W), Program
  PROVE  /\ \A t \in Threads : pc[t] = "idle" /\ pc'[t] = "idle"
         /\ mapped' = mapped /\ phase # "reopened"
         /\ Room' /\ Chains(W)' /\ SameReads(W, W)
<1>1. /\ vertices' = vertices /\ blocks' = blocks /\ mapped' = mapped /\ pc' = pc
      /\ phase # "reopened"
  BY DEF Program, CopyBase, FlushBase, Close, CloseFlush, memory, threadVars
<1>2. AllDone
  <2>1. phase \in {"base copied", "copied"} \/ AllDone
    BY DEF Program, CopyBase, FlushBase, Close, CloseFlush
  <2> QED
    BY <2>1 DEF Sections
<1>3. \A t \in Threads : pc[t] = "idle" /\ pc'[t] = "idle"
  BY <1>1, <1>2 DEF Sections, AllDone
<1>4. \A u \in Nodes : ~Stored(u) /\ ~Stored(u)'
  BY <1>3 DEF Stored
<1>5. Room'
  BY <1>3 DEF Room
<1>6. Ends(W)' /\ \A u \in Nodes : IsChain(W[u], blocks')
  BY <1>1 DEF Ends, Chains
<1>7. Lengths(W)'
  BY <1>1, <1>4 DEF Lengths, Chains
<1>8. Fresh(W)' /\ Written(W)'
  BY <1>3 DEF Fresh, Written
<1>9. SameReads(W, W)
  BY <1>1 DEF SameReads
<1> QED
  BY <1>1, <1>3, <1>5, <1>6, <1>7, <1>8, <1>9 DEF Chains, Apart

\* Every step of a thread keeps the chains, and only Unlock changes what a
\* reader finds.
LEMMA InsertKeepsChains ==
  ASSUME BalTypeOK, Sections, Room, mapped = 0, NEW W, Chains(W), NEW t \in Threads, Insert(t)
  PROVE  /\ mapped' = mapped
         /\ \E V : Room' /\ Chains(V)' /\ (~Unlock(t) => SameReads(W, V))
<1>1. mapped' = mapped
  BY DEF Insert, Lock, Allocate, Link, Store, Unlock, Load, Swap
<1>2. CASE Lock(t) \/ Load(t) \/ Swap(t)
  BY <1>1, <1>2, QuietKeepsChains
<1>3. CASE Allocate(t)
  BY <1>1, <1>3, AllocateKeepsChains
<1>4. CASE Store(t)
  BY <1>1, <1>4, StoreKeepsChains
<1>5. CASE Link(t)
  <2>1. \E V : Room' /\ Chains(V)' /\ SameReads(W, V)
    BY <1>5, LinkKeepsChains
  <2> QED
    BY <1>1, <2>1
<1>6. CASE Unlock(t)
  <2>1. Room' /\ Chains(W)'
    BY <1>6, UnlockKeepsChains
  <2> QED
    BY <1>1, <1>6, <2>1
<1> QED
  BY <1>2, <1>3, <1>4, <1>5, <1>6 DEF Insert

\* Until the process ends, every list is in its chain.
LEMMA HeapPreserved ==
  ASSUME BalTypeOK, Sections, Heap, [BalNext]_balVars PROVE Heap'
<1> SUFFICES ASSUME phase' # "reopened" PROVE mapped' = 0 /\ Room' /\ \E V : Chains(V)'
  BY DEF Heap
<1>1. phase # "reopened"
  <2>1. (\E t \in Threads : Insert(t)) => phase' = phase
    BY Inserting
  <2>2. Program => phase # "reopened"
    BY DEF Program, CopyBase, FlushBase, Close, CloseFlush
  <2>3. UNCHANGED balVars => phase' = phase
    BY DEF balVars
  <2> QED
    BY <2>1, <2>2, <2>3 DEF BalNext, Restart, Ended
<1>2. PICK W : mapped = 0 /\ Room /\ Chains(W)
  BY <1>1 DEF Heap
<1>3. CASE \E t \in Threads : Insert(t)
  <2>1. PICK t \in Threads : Insert(t)
    BY <1>3
  <2>2. mapped' = mapped /\ \E V : Room' /\ Chains(V)' /\ (~Unlock(t) => SameReads(W, V))
    BY <1>2, <2>1, InsertKeepsChains
  <2> QED
    BY <1>2, <2>2
<1>4. CASE Program
  BY <1>2, <1>4, ProgramKeepsChains
<1>5. CASE UNCHANGED balVars
  <2>1. /\ vertices' = vertices /\ blocks' = blocks /\ mapped' = mapped
        /\ pc' = pc /\ todo' = todo /\ block' = block
    BY <1>5 DEF balVars, memory, threadVars
  <2>2. /\ \A t : src(t)' = src(t) /\ dst(t)' = dst(t)
        /\ \A u : NeedsBlock(u)' <=> NeedsBlock(u)
    BY <2>1 DEF src, dst, NeedsBlock
  <2>3. \A u : Stored(u)' <=> Stored(u)
    BY <2>1, <2>2 DEF Stored
  <2>4. Room'
    <3>1. \A t \in Threads : NeedsBlock(src(t))' <=> NeedsBlock(src(t))
      BY <2>1 DEF NeedsBlock, src
    <3> QED
      BY <1>2, <2>1, <3>1 DEF Room
  <2>5. Ends(W)' /\ \A u \in Nodes : IsChain(W[u], blocks')
    BY <1>2, <2>1 DEF Ends, Chains
  <2>6. Lengths(W)'
    BY <1>2, <2>1, <2>3 DEF Lengths, Chains
  <2>7. Fresh(W)' /\ Written(W)'
    BY <1>2, <2>1, <2>2 DEF Fresh, Written, Chains
  <2> QED
    BY <1>2, <2>1, <2>4, <2>5, <2>6, <2>7 DEF Chains, Apart
<1> QED
  BY <1>1, <1>3, <1>4, <1>5 DEF BalNext, Restart, Ended

-----------------------------------------------------------------------------
(***************************************************************************)
(* The invariant, and the number of edges.                                  *)
(***************************************************************************)

\* The lock of a vertex, the ends of its chain, the blocks in it and its
\* degree agree, whatever the threads of the two loops do (graph.h, the
\* constructor and insert), and what the copies of vertices_ left in
\* persistent memory is a beginning of every list.
THEOREM BalInvariant == BalSpec => []BalInv
<1>1. BalInit => BalInv
  BY TypeInitial, CountsInitial, ChainsInitial DEF BalInv
<1>2. BalInv /\ [BalNext]_balVars => BalInv'
  <2> SUFFICES ASSUME BalInv, [BalNext]_balVars PROVE BalInv'
    OBVIOUS
  <2> USE DEF BalInv
  <2>1. BalTypeOK'
    BY TypePreserved
  <2>2. Sections'
    BY SectionsPreserved
  <2>3. Copied'
    BY CopiedPreserved
  <2>4. Counts'
    BY CountsPreserved
  <2>5. Heap'
    BY HeapPreserved
  <2> QED
    BY <2>1, <2>2, <2>3, <2>4, <2>5
<1> QED
  BY <1>1, <1>2, PTL DEF BalSpec

\* num_edges_, which the threads of insert() add to by compare-and-swap and
\* without a lock, lacks just the edges that are in their lists and not yet
\* counted.
THEOREM NumberOfEdges == BalSpec => []EdgesCounted
<1>1. BalInv => EdgesCounted
  BY DEF BalInv, Counts
<1> QED
  BY <1>1, BalInvariant, PTL

-----------------------------------------------------------------------------
(***************************************************************************)
(* The lists that out_neigh returns.                                        *)
(***************************************************************************)

\* A longer list does not use fewer blocks.
LEMMA UsedMonotone ==
  ASSUME NEW m \in Nat, NEW n \in Nat, m <= n
  PROVE  /\ Used(m) \in Nat /\ Used(n) \in Nat /\ Used(m) <= Used(n)
         /\ n > 0 => Used(n) > 0
<1>1. Used(m) \in Nat /\ Used(n) \in Nat /\ (n > 0 => Used(n) > 0)
  BY UsedBlocks
<1>2. CASE m = 0
  BY <1>1, <1>2 DEF Used
<1>3. CASE m > 0
  <2>1. m - 1 \in Nat /\ n - 1 \in Nat /\ m - 1 <= n - 1 /\ n # 0
    BY <1>3
  <2>2. (m - 1) \div BLOCK_SIZE <= (n - 1) \div BLOCK_SIZE
    BY <2>1, DivMonotone
  <2>3. (m - 1) \div BLOCK_SIZE \in Nat /\ (n - 1) \div BLOCK_SIZE \in Nat
    BY <2>1, DivMod
  <2> QED
    BY <1>1, <1>3, <2>1, <2>2, <2>3 DEF Used
<1> QED
  BY <1>2, <1>3

\* out_neigh reads the chain that the head of the list begins, from wherever
\* the head was last copied.
LEMMA ListRead ==
  ASSUME NEW heap \in Seq(Block), NEW w, IsChain(w, heap), NEW v \in Vertex,
         v.degree > 0 => v.head = w[1], Used(v.degree) <= Len(w)
  PROVE  edges_of(v, v.head - 0, heap) = Read(heap, w, v.degree)
<1>1. v.degree \in Nat /\ v.head \in Nat
  BY DEF Vertex
<1>2. v.head - 0 = v.head
  BY <1>1
<1>3. v.degree > 0 => v.head - 0 = w[1]
  BY <1>2
<1> QED
  BY <1>1, <1>3, Reading

\* The list of a vertex is what its chain holds.
LEMMA ListsAre ==
  ASSUME BalTypeOK, mapped = 0, NEW W, Chains(W)
  PROVE  \A u \in Nodes : Lists[u] = Read(blocks, W[u], vertices[u].degree)
<1> SUFFICES ASSUME NEW u \in Nodes
             PROVE  edges_of(vertices[u], vertices[u].head - 0, blocks)
                      = Read(blocks, W[u], vertices[u].degree)
  BY DEF Lists, out_neigh
<1>1. vertices[u] \in Vertex /\ blocks \in Seq(Block)
  BY DEF BalTypeOK
<1>2. vertices[u].degree \in Nat /\ Len(W[u]) \in Nat /\ Used(vertices[u].degree) <= Len(W[u])
  BY ChainFacts
<1>3. vertices[u].degree > 0 => Len(W[u]) > 0
  <2> DEFINE d == vertices[u].degree
  <2>1. d \in Nat /\ d <= d
    BY <1>2
  <2> HIDE DEF d
  <2>2. Used(d) \in Nat /\ (d > 0 => Used(d) > 0)
    BY <2>1, UsedMonotone
  <2> QED
    BY <1>2, <2>2 DEF d
<1>4. vertices[u].degree > 0 => vertices[u].head = W[u][1]
  BY <1>3 DEF Chains, Ends
<1>5. IsChain(W[u], blocks)
  BY DEF Chains
<1> QED
  BY <1>1, <1>2, <1>4, <1>5, ListRead

\* ... and after the step.
LEMMA NextListsAre ==
  ASSUME BalTypeOK', mapped' = 0, NEW V, Chains(V)'
  PROVE  \A u \in Nodes : Lists'[u] = Read(blocks', V[u], vertices'[u].degree)
<1> SUFFICES ASSUME NEW u \in Nodes
             PROVE  edges_of(vertices'[u], vertices'[u].head - 0, blocks')
                      = Read(blocks', V[u], vertices'[u].degree)
  BY DEF Lists, out_neigh
<1>1. vertices'[u] \in Vertex /\ blocks' \in Seq(Block)
  BY DEF BalTypeOK
<1>2. vertices'[u].degree \in Nat
  BY <1>1 DEF Vertex
<1>3. \/ Len(V[u]) = Used(vertices'[u].degree) \/ Len(V[u]) = Used(vertices'[u].degree + 1)
  BY DEF Chains, Lengths
<1>4. Used(vertices'[u].degree) <= Len(V[u]) /\ Len(V[u]) \in Nat
  <2>1. vertices'[u].degree + 1 \in Nat /\ vertices'[u].degree <= vertices'[u].degree + 1
    BY <1>2
  <2>2. Used(vertices'[u].degree) <= Used(vertices'[u].degree + 1)
    BY <1>2, <2>1, UsedMonotone
  <2>3. Used(vertices'[u].degree) \in Nat /\ Used(vertices'[u].degree + 1) \in Nat
    BY <1>2, <2>1, UsedBlocks
  <2> QED
    BY <1>3, <2>2, <2>3
<1>5. vertices'[u].degree > 0 => Len(V[u]) > 0
  <2> DEFINE d == vertices'[u].degree
  <2>1. d \in Nat /\ d <= d
    BY <1>2
  <2> HIDE DEF d
  <2>2. Used(d) \in Nat /\ (d > 0 => Used(d) > 0)
    BY <2>1, UsedMonotone
  <2> QED
    BY <1>4, <2>2 DEF d
<1>6. vertices'[u].degree > 0 => vertices'[u].head = V[u][1]
  BY <1>5 DEF Chains, Ends
<1>7. IsChain(V[u], blocks')
  BY DEF Chains
<1> QED
  BY <1>1, <1>4, <1>6, <1>7, ListRead

\* What changes no reading changes no list.
LEMMA ListsStay ==
  ASSUME BalTypeOK, BalTypeOK', mapped = 0, mapped' = 0, NEW W, Chains(W), NEW V, Chains(V)',
         SameReads(W, V)
  PROVE  Lists' = Lists
<1>1. \A u \in Nodes : Lists[u] = Read(blocks, W[u], vertices[u].degree)
  BY ListsAre
<1>2. \A u \in Nodes : Lists'[u] = Read(blocks', V[u], vertices'[u].degree)
  BY NextListsAre
<1>3. \A u \in Nodes : Lists'[u] = Lists[u]
  BY <1>1, <1>2 DEF SameReads
<1> QED
  BY <1>3 DEF Lists

\* The edge of Unlock is at the end of the list of its source.
LEMMA UnlockAppends ==
  ASSUME BalTypeOK, BalTypeOK', Sections, Room, mapped = 0, mapped' = 0, NEW W, Chains(W),
         NEW t \in Threads, Unlock(t), src(t) \in Nodes
  PROVE  Lists' = [Lists EXCEPT ![src(t)] = Append(@, dst(t))]
<1>1. /\ Chains(W)'
      /\ \A v \in Nodes : v # src(t) =>
           Read(blocks', W[v], vertices'[v].degree) = Read(blocks, W[v], vertices[v].degree)
      /\ Read(blocks', W[src(t)], vertices'[src(t)].degree) =
           Append(Read(blocks, W[src(t)], vertices[src(t)].degree), dst(t))
  BY UnlockKeepsChains
<1>2. \A u \in Nodes : Lists[u] = Read(blocks, W[u], vertices[u].degree)
  BY ListsAre
<1>3. \A u \in Nodes : Lists'[u] = Read(blocks', W[u], vertices'[u].degree)
  BY <1>1, NextListsAre
<1>4. /\ \A v \in Nodes : v # src(t) => Lists'[v] = Lists[v]
      /\ Lists'[src(t)] = Append(Lists[src(t)], dst(t))
  BY <1>1, <1>2, <1>3
<1>5. Lists = [u \in Nodes |-> Lists[u]] /\ Lists' = [u \in Nodes |-> Lists'[u]]
  BY DEF Lists
<1> QED
  BY <1>4, <1>5

-----------------------------------------------------------------------------
(***************************************************************************)
(* The calls of insert() that a caller sees.                                *)
(***************************************************************************)
CallOf(t) ==
  IF pc[t] = "idle" THEN [busy |-> FALSE]
  ELSE [busy |-> TRUE, u |-> src(t), v |-> dst(t), added |-> pc[t] \in {"load", "swap"}]

\* The three states of a call.
CallIs(t) ==
  /\ pc[t] = "idle" => CallOf(t) = [busy |-> FALSE]
  /\ pc[t] \in Locked =>
       CallOf(t) = [busy |-> TRUE, u |-> src(t), v |-> dst(t), added |-> FALSE]
  /\ pc[t] \in Counting =>
       CallOf(t) = [busy |-> TRUE, u |-> src(t), v |-> dst(t), added |-> TRUE]

\* A call has added its edge just when its thread is counting it.
LEMMA CallStates == ASSUME NEW t PROVE CallIs(t) /\ CallIs(t)'
<1>1. CallIs(t)
  <2>1. ASSUME pc[t] \in Locked
        PROVE  CallOf(t) = [busy |-> TRUE, u |-> src(t), v |-> dst(t), added |-> FALSE]
    <3>1. pc[t] # "idle" /\ (pc[t] \in {"load", "swap"}) = FALSE
      BY <2>1 DEF Locked
    <3> QED
      BY <3>1, Zenon DEF CallOf
  <2>2. ASSUME pc[t] \in Counting
        PROVE  CallOf(t) = [busy |-> TRUE, u |-> src(t), v |-> dst(t), added |-> TRUE]
    <3>1. pc[t] # "idle" /\ (pc[t] \in {"load", "swap"}) = TRUE
      BY <2>2 DEF Counting
    <3> QED
      BY <3>1, Zenon DEF CallOf
  <2>3. pc[t] = "idle" => CallOf(t) = [busy |-> FALSE]
    BY DEF CallOf
  <2> QED
    BY <2>1, <2>2, <2>3 DEF CallIs
<1>2. CallIs(t)'
  BY <1>1, PTL
<1> QED
  BY <1>1, <1>2

\* Setting one field of a call.
LEMMA CallAdded ==
  ASSUME NEW b, NEW u, NEW v, NEW a, NEW c
  PROVE  /\ [[busy |-> b, u |-> u, v |-> v, added |-> a] EXCEPT !.added = c]
              = [busy |-> b, u |-> u, v |-> v, added |-> c]
         /\ [busy |-> b, u |-> u, v |-> v, added |-> a].busy = b
         /\ [busy |-> b, u |-> u, v |-> v, added |-> a].u = u
         /\ [busy |-> b, u |-> u, v |-> v, added |-> a].v = v
         /\ [busy |-> b, u |-> u, v |-> v, added |-> a].added = a
         /\ [busy |-> b].busy = b
OBVIOUS

\* A step of a thread changes its own call only.
LEMMA CallChanges ==
  ASSUME BalTypeOK, NEW t \in Threads, Insert(t)
  PROVE  /\ Calls[t] = CallOf(t)
         /\ Calls' = [Calls EXCEPT ![t] = CallOf(t)']
         /\ CallOf(t)' = CallOf(t) => Calls' = Calls
<1>1. /\ Calls = [s \in Threads |-> CallOf(s)]
      /\ Calls' = [s \in Threads |-> CallOf(s)']
  BY DEF Calls, CallOf
<1>2. ASSUME NEW s \in Threads, s # t PROVE CallOf(s)' = CallOf(s)
  <2>1. pc'[s] = pc[s] /\ src(s)' = src(s) /\ dst(s)' = dst(s)
    BY <1>2, OthersStay
  <2> QED
    BY <2>1 DEF CallOf
<1> QED
  BY <1>1, <1>2

\* Before the first edge every list is empty and no call is in progress.
LEMMA StoreInitially == BalInit => Abstract!StoreInit
<1> SUFFICES ASSUME BalInit PROVE Abstract!StoreInit
  OBVIOUS
<1>1. \A u \in Nodes : vertices[u].degree = 0
  BY DEF BalInit
<1>2. 1 .. 0 = {}
  OBVIOUS
<1>3. \A u \in Nodes : out_neigh(u) = <<>>
  BY <1>1, <1>2 DEF out_neigh, edges_of
<1>4. \A t \in Threads : pc[t] = "idle"
  BY DEF BalInit
<1>5. Calls = [t \in Threads |-> [busy |-> FALSE]]
  BY <1>4 DEF Calls
<1> QED
  BY <1>3, <1>5 DEF Lists, Abstract!StoreInit, Abstract!NoCall

\* Each step of a thread is a step of its call, or none that a caller sees:
\* taking the lock begins it, raising the degree adds the edge, and the
\* counter, for a dynamic edge, ends it.
LEMMA InsertIsAtomic ==
  ASSUME BalInv, BalInv', NEW t \in Threads, Insert(t)
  PROVE  [Abstract!StoreNext]_(Abstract!storeVars)
<1>0. /\ BalTypeOK /\ BalTypeOK' /\ Sections
      /\ todo[t] # <<>> /\ src(t) \in Nodes /\ dst(t) \in Nodes
      /\ phase \in {"base", "dynamic"} /\ phase' = phase
  BY Inserting DEF BalInv
<1>1. mapped = 0 /\ mapped' = 0 /\ Room /\ \E W : Chains(W)
  BY <1>0 DEF BalInv, Heap
<1>2. PICK W : Chains(W)
  BY <1>1
<1>3. pc \in [Threads -> Labels]
  BY <1>0 DEF BalTypeOK
<1>4. /\ Calls[t] = CallOf(t)
      /\ Calls' = [Calls EXCEPT ![t] = CallOf(t)']
      /\ CallOf(t)' = CallOf(t) => Calls' = Calls
  BY <1>0, CallChanges
<1>5. ASSUME ~Unlock(t) PROVE Lists' = Lists
  <2>1. PICK V : Chains(V)' /\ SameReads(W, V)
    BY <1>0, <1>1, <1>2, <1>5, InsertKeepsChains
  <2> QED
    BY <1>0, <1>1, <1>2, <2>1, ListsStay
<1>u. PICK u, v : u = src(t) /\ v = dst(t)
  OBVIOUS
<1> DEFINE open == [busy |-> TRUE, u |-> u, v |-> v, added |-> FALSE]
           added == [busy |-> TRUE, u |-> u, v |-> v, added |-> TRUE]
           none == [busy |-> FALSE]
<1>6. /\ pc[t] = "idle" => CallOf(t) = none
      /\ pc[t] \in Locked => CallOf(t) = open
      /\ pc[t] \in Counting => CallOf(t) = added
  BY <1>u, CallStates DEF CallIs
<1>7. todo' = todo =>
        /\ pc'[t] = "idle" => CallOf(t)' = none
        /\ pc'[t] \in Locked => CallOf(t)' = open
        /\ pc'[t] \in Counting => CallOf(t)' = added
  <2>1. todo' = todo => src(t)' = u /\ dst(t)' = v
    BY <1>u DEF src, dst
  <2>2. /\ pc'[t] = "idle" => CallOf(t)' = [busy |-> FALSE]
        /\ pc'[t] \in Locked =>
             CallOf(t)' = [busy |-> TRUE, u |-> src(t)', v |-> dst(t)', added |-> FALSE]
        /\ pc'[t] \in Counting =>
             CallOf(t)' = [busy |-> TRUE, u |-> src(t)', v |-> dst(t)', added |-> TRUE]
    BY CallStates DEF CallIs
  <2> QED
    BY <2>1, <2>2, Zenon
<1>8. pc'[t] = "idle" => CallOf(t)' = none
  BY DEF CallOf
<1>9. open # none /\ added # none
  <2>1. open.busy = TRUE /\ added.busy = TRUE /\ none.busy = FALSE
    OBVIOUS
  <2> QED
    BY <2>1
<1>10. open.added = FALSE /\ added.added = TRUE /\ open.u = u /\ open.v = v
       /\ [open EXCEPT !.added = TRUE] = added
  <2>1. open.added = FALSE
    BY CallAdded, Zenon
  <2>2. added.added = TRUE
    BY CallAdded, Zenon
  <2>3. open.u = u /\ open.v = v
    BY CallAdded, Zenon
  <2>4. [open EXCEPT !.added = TRUE] = added
    <3>1. PICK yes, no : yes = TRUE /\ no = FALSE
      OBVIOUS
    <3>2. [[busy |-> yes, u |-> u, v |-> v, added |-> no] EXCEPT !.added = yes]
             = [busy |-> yes, u |-> u, v |-> v, added |-> yes]
      BY ONLY CallAdded
    <3>3. open = [busy |-> yes, u |-> u, v |-> v, added |-> no]
          /\ added = [busy |-> yes, u |-> u, v |-> v, added |-> yes]
      BY <3>1, Zenon
    <3> QED
      BY ONLY <3>1, <3>2, <3>3, Zenon
  <2> QED
    BY <2>1, <2>2, <2>3, <2>4
<1> HIDE DEF open, added, none
<1>11. CASE Lock(t)
  <2>1. pc[t] = "idle" /\ pc'[t] \in Locked /\ todo' = todo
    BY <1>3, <1>11 DEF Lock, At, Goto, Locked
  <2>2. Calls[t] = none /\ Calls' = [Calls EXCEPT ![t] = open]
    BY <1>4, <1>6, <1>7, <2>1
  <2>3. Lists' = Lists
    BY <1>5, <1>11, <2>1 DEF Unlock, At
  <2>4. Abstract!Invoke(t, u, v)
    BY <2>2, <2>3 DEF Abstract!Invoke, Abstract!NoCall, none, open
  <2> QED
    BY <1>0, <1>u, <2>4 DEF Abstract!StoreNext
<1>12. CASE Allocate(t) \/ Link(t) \/ Store(t) \/ Load(t) \/ (Swap(t) /\ num_edges # old_val[t])
  <2>1. /\ todo' = todo /\ pc[t] # "count"
        /\ \/ pc[t] \in Locked /\ pc'[t] \in Locked
           \/ pc[t] \in Counting /\ pc'[t] \in Counting
    BY <1>3, <1>12 DEF Allocate, Link, Store, Load, Swap, At, Goto, Locked, Counting
  <2>2. CallOf(t)' = CallOf(t)
    BY <1>6, <1>7, <2>1
  <2>3. Lists' = Lists
    BY <1>5, <2>1 DEF Unlock, At
  <2> QED
    BY <1>4, <2>2, <2>3 DEF Abstract!storeVars
<1>13. CASE Swap(t) /\ num_edges = old_val[t]
  <2>1. pc[t] \in Counting /\ pc[t] # "count" /\ pc'[t] = "idle"
    BY <1>3, <1>13 DEF Swap, At, Goto, Counting
  <2>2. Calls[t] = added /\ Calls' = [Calls EXCEPT ![t] = none]
    BY <1>4, <1>6, <1>8, <2>1
  <2>3. Lists' = Lists
    BY <1>5, <2>1 DEF Unlock, At
  <2>4. Abstract!Return(t)
    BY <1>9, <1>10, <2>2, <2>3 DEF Abstract!Return, Abstract!NoCall, none
  <2> QED
    BY <2>4 DEF Abstract!StoreNext
<1>14. CASE Unlock(t)
  <2>1. pc[t] \in Locked
    BY <1>14 DEF Unlock, At, Locked
  <2>2. Calls[t] = open
    BY <1>4, <1>6, <2>1
  <2>3. Lists' = [Lists EXCEPT ![u] = Append(@, v)]
    BY <1>0, <1>1, <1>2, <1>14, <1>u, UnlockAppends
  <2>4. Lists' = [Lists EXCEPT ![Calls[t].u] = Append(@, Calls[t].v)]
    BY <1>10, <2>2, <2>3
  <2>5. CASE phase = "base"
    <3>1. pc'[t] = "idle"
      BY <1>3, <1>14, <2>5 DEF Unlock, Goto
    <3>2. Calls' = [Calls EXCEPT ![t] = none]
      BY <1>4, <1>8, <3>1
    <3>3. Abstract!AddAndReturn(t)
      BY <1>9, <1>10, <2>2, <2>4, <3>2 DEF Abstract!AddAndReturn, Abstract!NoCall, none
    <3> QED
      BY <3>3 DEF Abstract!StoreNext
  <2>6. CASE phase # "base"
    <3>1. pc'[t] = "load" /\ todo' = todo
      BY <1>3, <1>14, <2>6 DEF Unlock, Goto
    <3>2. Calls' = [Calls EXCEPT ![t] = added]
      BY <1>4, <1>7, <3>1 DEF Counting
    <3>3. Calls' = [Calls EXCEPT ![t].added = TRUE]
      BY <1>10, <2>2, <3>2
    <3>4. Abstract!AddEdge(t)
      BY <1>9, <1>10, <2>2, <2>4, <3>3 DEF Abstract!AddEdge, Abstract!NoCall, none
    <3> QED
      BY <3>4 DEF Abstract!StoreNext
  <2> QED
    BY <2>5, <2>6
<1> QED
  BY <1>11, <1>12, <1>13, <1>14 DEF Insert

\* A list changes only when a call of insert() adds its edge to the end of
\* it, once and at one moment, until the process ends: the lock of the source
\* is enough, whatever insert() does to the blocks and to the other lists
\* meanwhile.
THEOREM AtomicInsertions == BalSpec => InsertsAtomically
<1>1. BalInit => Abstract!StoreInit
  BY StoreInitially
<1>2. BalInv /\ BalInv' /\ [BalNext]_balVars
        => [Abstract!StoreNext \/ Restart]_(Abstract!storeVars)
  <2> SUFFICES ASSUME BalInv, BalInv', [BalNext]_balVars
               PROVE  [Abstract!StoreNext \/ Restart]_(Abstract!storeVars)
    OBVIOUS
  <2>1. CASE \E t \in Threads : Insert(t)
    BY <2>1, InsertIsAtomic
  <2>2. CASE Program
    <3>1. BalTypeOK /\ BalTypeOK' /\ Sections /\ phase # "reopened"
      BY <2>2 DEF BalInv, Program, CopyBase, FlushBase, Close, CloseFlush
    <3>2. PICK W : mapped = 0 /\ Chains(W)
      BY <3>1 DEF BalInv, Heap
    <3>3. /\ \A t \in Threads : pc[t] = "idle" /\ pc'[t] = "idle"
          /\ mapped' = mapped /\ Chains(W)' /\ SameReads(W, W)
      BY <2>2, <3>1, <3>2, ProgramKeepsChains
    <3>4. Lists' = Lists
      BY <3>1, <3>2, <3>3, ListsStay
    <3>5. Calls' = Calls
      BY <3>3 DEF Calls
    <3> QED
      BY <3>4, <3>5 DEF Abstract!storeVars
  <2>3. CASE Restart
    BY <2>3
  <2>4. CASE UNCHANGED balVars
    <3>1. Lists' = Lists /\ Calls' = Calls
      BY <2>4 DEF balVars, memory, threadVars, Lists, out_neigh, Calls, src, dst
    <3> QED
      BY <3>1 DEF Abstract!storeVars
  <2> QED
    BY <2>1, <2>2, <2>3, <2>4 DEF BalNext, Ended
<1> QED
  BY <1>1, <1>2, BalInvariant, PTL DEF BalSpec, InsertsAtomically

-----------------------------------------------------------------------------
(***************************************************************************)
(* Opening the pool again, at the address it was mapped at before: head and *)
(* tail are addresses.                                                      *)
(***************************************************************************)

\* A shorter reading of a chain is a beginning of a longer one.
LEMMA ReadPrefix ==
  ASSUME NEW heap, NEW w, NEW d \in Nat, NEW e \in Nat, d <= e
  PROVE  Len(Read(heap, w, d)) = d /\ Read(heap, w, d) = SubSeq(Read(heap, w, e), 1, d)
<1> DEFINE cell(i) == heap[w[(i - 1) \div BLOCK_SIZE + 1]].cells[(i - 1) % BLOCK_SIZE]
           S == {cell(i) : i \in 1 .. e}
<1>1. Read(heap, w, d) = [i \in 1 .. d |-> cell(i)] /\ Read(heap, w, e) = [i \in 1 .. e |-> cell(i)]
  BY DEF Read
<1>2. \A i \in 1 .. d : i \in 1 .. e
  OBVIOUS
<1>3. \A i \in 1 .. e : cell(i) \in S
  OBVIOUS
<1> HIDE DEF cell, S
<1>4. [i \in 1 .. e |-> cell(i)] \in Seq(S) /\ [i \in 1 .. d |-> cell(i)] \in Seq(S)
  BY <1>2, <1>3
<1>5. Len([i \in 1 .. e |-> cell(i)]) = e /\ Len([i \in 1 .. d |-> cell(i)]) = d
  BY <1>4
<1>6. SubSeq([i \in 1 .. e |-> cell(i)], 1, d) = [i \in 1 .. d |-> cell(i)]
  BY <1>2, <1>4, <1>5
<1> QED
  BY <1>1, <1>5, <1>6

\* A list is opened as the beginning of itself that its copied degree says.
LEMMA OpenedList ==
  ASSUME BalTypeOK, mapped = 0, mapped' = 0, blocks' = blocks, NEW W, Chains(W), NEW u \in Nodes,
         vertices'[u] \in Vertex, vertices'[u].degree <= vertices[u].degree,
         vertices'[u].degree > 0 => vertices'[u].head = vertices[u].head
  PROVE  /\ Len(Lists'[u]) = vertices'[u].degree
         /\ Lists'[u] = SubSeq(Lists[u], 1, vertices'[u].degree)
<1> DEFINE d == vertices'[u].degree
           e == vertices[u].degree
<1>1. d \in Nat /\ d <= e
  BY DEF Vertex
<1>2. e \in Nat /\ Len(W[u]) \in Nat /\ Used(e) <= Len(W[u])
  BY ChainFacts
<1>3. /\ Used(d) \in Nat /\ Used(e) \in Nat /\ Used(d) <= Used(e)
      /\ e > 0 => Used(e) > 0
  <2> HIDE DEF d, e
  <2> QED
    BY <1>1, <1>2, UsedMonotone
<1>4. Used(d) <= Len(W[u]) /\ (d > 0 => Len(W[u]) > 0)
  <2> HIDE DEF d, e
  <2> QED
    BY <1>1, <1>2, <1>3
<1>5. d > 0 => vertices'[u].head = W[u][1]
  BY <1>4 DEF Chains, Ends
<1>6. IsChain(W[u], blocks) /\ blocks \in Seq(Block)
  BY DEF Chains, BalTypeOK
<1>7. Lists'[u] = Read(blocks, W[u], d)
  <2>1. edges_of(vertices'[u], vertices'[u].head - 0, blocks) = Read(blocks, W[u], d)
    BY <1>4, <1>5, <1>6, ListRead
  <2> QED
    BY <2>1 DEF Lists, out_neigh
<1>8. Lists[u] = Read(blocks, W[u], e)
  BY ListsAre
<1> HIDE DEF d, e
<1>9. Len(Read(blocks, W[u], d)) = d
      /\ Read(blocks, W[u], d) = SubSeq(Read(blocks, W[u], e), 1, d)
  BY <1>1, <1>2, ReadPrefix
<1> QED
  BY <1>7, <1>8, <1>9 DEF d

\* What a restart finds in persistent memory.
LEMMA Reopening ==
  ASSUME BalInv, BalInv', Restart, Mappings \subseteq {0}
  PROVE  /\ BalTypeOK /\ mapped = 0 /\ mapped' = 0 /\ blocks' = blocks /\ \E W : Chains(W)
         /\ num_edges' = base_num_edges
         /\ \A u \in Nodes : vertices'[u] \in Vertex /\ vertices'[u] \in Durable(u)
         /\ vertices' = [u \in Nodes |-> vertices'[u]]
<1>1. /\ phase # "reopened" /\ mapped' \in Mappings /\ blocks' = blocks
      /\ num_edges' = base_num_edges
      /\ \A u \in Nodes : vertices'[u] \in Durable(u)
  BY DEF Restart
<1>2. BalTypeOK /\ mapped = 0 /\ \E W : Chains(W)
  BY <1>1 DEF BalInv, Heap
<1>3. vertices' \in [Nodes -> Vertex]
  BY DEF BalInv, BalTypeOK
<1> QED
  BY <1>1, <1>2, <1>3

\* A pool that was closed is opened with all its lists and their number, and
\* one whose process was killed among the dynamic edges with the base graph,
\* though blocks that the copied lists end in have been written to since
\* (graph.h, the constructor for an existing file): where the pool is mapped
\* at the same address, for head_offset and tail_offset are addresses.
THEOREM RestartFindsGraph ==
  ASSUME Mappings \subseteq {0} PROVE BalSpec => RestartKeeps
<1>1. ASSUME BalInv, BalInv', Restart, phase = "closed"
      PROVE  Lists' = Lists /\ num_edges' = num_edges
  <2>1. /\ mapped = 0 /\ mapped' = 0 /\ blocks' = blocks /\ num_edges' = base_num_edges
        /\ \A u \in Nodes : vertices'[u] \in Durable(u)
    BY <1>1, Reopening
  <2>2. vertices_pmem = vertices /\ base_num_edges = num_edges
    BY <1>1 DEF BalInv, Counts
  <2>3. \A u \in Nodes : vertices'[u] = vertices[u]
    BY <1>1, <2>1, <2>2 DEF Durable
  <2>4. Lists' = Lists
    BY <2>1, <2>3 DEF Lists, out_neigh
  <2> QED
    BY <2>1, <2>2, <2>4
<1>2. ASSUME BalInv, BalInv', Restart, phase = "dynamic"
      PROVE  /\ num_edges' = SumFunction([u \in Nodes |-> Len(Lists'[u])])
             /\ \A u \in Nodes : Lists'[u] = SubSeq(Lists[u], 1, Len(Lists'[u]))
  <2>1. /\ BalTypeOK /\ mapped = 0 /\ mapped' = 0 /\ blocks' = blocks
        /\ num_edges' = base_num_edges /\ \E W : Chains(W)
        /\ \A u \in Nodes : vertices'[u] \in Vertex /\ vertices'[u] \in Durable(u)
    BY <1>2, Reopening
  <2>2. PICK W : Chains(W)
    BY <2>1
  <2>3. \A u \in Nodes : vertices'[u] = vertices_pmem[u]
    BY <1>2, <2>1 DEF Durable
  <2>4. \A u \in Nodes : /\ vertices_pmem[u].degree <= vertices[u].degree
                         /\ vertices_pmem[u].degree > 0 => vertices_pmem[u].head = vertices[u].head
    BY <1>2 DEF BalInv, Copied
  <2>5. ASSUME NEW u \in Nodes
        PROVE  /\ Len(Lists'[u]) = vertices_pmem[u].degree
               /\ Lists'[u] = SubSeq(Lists[u], 1, Len(Lists'[u]))
    <3>1. /\ vertices'[u] \in Vertex /\ vertices'[u].degree <= vertices[u].degree
          /\ vertices'[u].degree > 0 => vertices'[u].head = vertices[u].head
      BY <2>1, <2>3, <2>4
    <3>2. /\ Len(Lists'[u]) = vertices'[u].degree
          /\ Lists'[u] = SubSeq(Lists[u], 1, vertices'[u].degree)
      BY <2>1, <2>2, <3>1, OpenedList
    <3> QED
      BY <2>3, <3>2
  <2>6. base_num_edges = n_edges /\ DegreeSum(vertices_pmem) = n_edges
    BY <1>2 DEF BalInv, Counts
  <2>7. [u \in Nodes |-> Len(Lists'[u])] = [u \in Nodes |-> vertices_pmem[u].degree]
    BY <2>5
  <2>8. SumFunction([u \in Nodes |-> Len(Lists'[u])]) = DegreeSum(vertices_pmem)
    BY <2>7 DEF DegreeSum
  <2> QED
    BY <2>1, <2>5, <2>6, <2>8
<1>3. BalInv /\ BalInv' /\ [BalNext]_balVars =>
        [Restart =>
           CASE phase = "closed" -> Lists' = Lists /\ num_edges' = num_edges
             [] phase = "dynamic" ->
                  /\ num_edges' = SumFunction([u \in Nodes |-> Len(Lists'[u])])
                  /\ \A u \in Nodes : Lists'[u] = SubSeq(Lists[u], 1, Len(Lists'[u]))
             [] OTHER -> TRUE]_balVars
  BY <1>1, <1>2
<1> QED
  BY <1>3, BalInvariant, PTL DEF BalSpec, RestartKeeps

\* A kill between the last copy of vertices_ and its flush (~CSRGraph) leaves
\* each field of a vertex old or new; any mixture reads as the old list or as
\* the complete one, for a list that the base graph began.
THEOREM TornCopyIsReadable ==
  ASSUME Mappings \subseteq {0} PROVE BalSpec => TornCopyReads
<1>1. ASSUME BalInv, BalInv', Restart, phase = "copied", NEW u \in Nodes,
             vertices_pmem[u].degree > 0
      PROVE  /\ Len(Lists'[u]) \in {vertices_pmem[u].degree, vertices[u].degree}
             /\ Lists'[u] = SubSeq(Lists[u], 1, Len(Lists'[u]))
  <2>1. /\ BalTypeOK /\ mapped = 0 /\ mapped' = 0 /\ blocks' = blocks /\ \E W : Chains(W)
        /\ vertices'[u] \in Vertex /\ vertices'[u] \in Durable(u)
    BY <1>1, Reopening
  <2>2. PICK W : Chains(W)
    BY <2>1
  <2>3. /\ vertices_pmem[u].degree <= vertices[u].degree
        /\ vertices_pmem[u].head = vertices[u].head
    BY <1>1 DEF BalInv, Copied
  <2>4. /\ vertices'[u].head \in {vertices_pmem[u].head, vertices[u].head}
        /\ vertices'[u].degree \in {vertices_pmem[u].degree, vertices[u].degree}
    BY <1>1, <2>1 DEF Durable
  <2>5. vertices[u].degree \in Nat
    BY <2>1 DEF BalTypeOK, Vertex
  <2>6. /\ vertices'[u].degree <= vertices[u].degree
        /\ vertices'[u].head = vertices[u].head
    BY <2>3, <2>4, <2>5
  <2>7. /\ Len(Lists'[u]) = vertices'[u].degree
        /\ Lists'[u] = SubSeq(Lists[u], 1, vertices'[u].degree)
    BY <2>1, <2>2, <2>6, OpenedList
  <2> QED
    BY <2>4, <2>7
<1>2. BalInv /\ BalInv' /\ [BalNext]_balVars =>
        [(Restart /\ phase = "copied") =>
           \A u \in Nodes :
             vertices_pmem[u].degree > 0 =>
               /\ Len(Lists'[u]) \in {vertices_pmem[u].degree, vertices[u].degree}
               /\ Lists'[u] = SubSeq(Lists[u], 1, Len(Lists'[u]))]_balVars
  BY <1>1
<1> QED
  BY <1>2, BalInvariant, PTL DEF BalSpec, TornCopyReads
=============================================================================
