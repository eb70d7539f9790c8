------------------------- MODULE PersistenceProofs -------------------------
(***************************************************************************)
(* For every base graph, every sequence of insertions and any number of     *)
(* deaths and shutdowns: if the array has an empty cell after the edges of  *)
(* vertex 0, recovery() stays inside it; a backup flag that a power failure *)
(* may leave set vouches for complete backups; and a graph opened from its  *)
(* backups is the graph that was shut down.                                 *)
(*                                                                         *)
(* As long as no assert() fails (AssertionsHold), the loop of               *)
(* rebalance_data_V1 has the effect Pma gives it as one step, what it has    *)
(* not flushed is in the range of its undo log, wherever it is stopped each *)
(* edge is where a scan of the array finds it, or in its log, and of what   *)
(* was durable no more than one range of cells can be lost.                 *)
(***************************************************************************)
EXTENDS Persistence, PmaProofs, SequenceTheorems, FiniteSetTheorems

-----------------------------------------------------------------------------
(***************************************************************************)
(* The inductive invariant.                                                 *)
(***************************************************************************)
Phases == {"ingesting", "freed", "installed", "closing", "off", "open", "failed"}
Ingesting == phase \in {"ingesting", "freed", "installed"}

\* What ~CSRGraph vouches for with the flag.
VouchedFor == {"vertices_", "log_segment_idx_", "segment_edges_actual",
               "segment_edges_total", "num_edges_", "elem_capacity"}
RootFields == VouchedFor \cup {"edges_oid_", "backed_up_"}

RootShape ==
  /\ phase \in Phases
  /\ DOMAIN root = RootFields
  /\ DOMAIN rootMedia = RootFields
  /\ root.backed_up_ \in BOOLEAN

\* The sizes of the arrays, from step to step of a resize and afterwards.
Capacities ==
  /\ graph.elem_capacity \in Nat \ {0}
  /\ root.elem_capacity \in Nat \ {0}
  /\ root.edges_oid_ \in Nat
  /\ phase \in {"ingesting", "freed", "closing", "open"} => root.elem_capacity = graph.elem_capacity
  /\ phase = "ingesting" => root.edges_oid_ = graph.elem_capacity
  /\ phase = "freed" => root.edges_oid_ = 0
  /\ phase = "installed" => /\ root.edges_oid_ = graph.elem_capacity
                            /\ root.elem_capacity <= graph.elem_capacity
  /\ root.edges_oid_ # 0 => root.elem_capacity <= root.edges_oid_

\* The graph of a process that does not ingest has the edge array in which the
\* ingestion ended, and a part of each of its logs.
ReadsPool ==
  /\ graph.edges_ = last.pool.edges_
  /\ \A s \in Leaves : graph.log_[s] = SubSeq(last.pool.log_[s], 1, Len(graph.log_[s]))

Reading == phase \in {"closing", "open"} \/ (phase = "off" /\ root.backed_up_)

Shapes ==
  /\ GraphShape(graph)
  /\ Ingesting => LogsAreSequences(graph)
  /\ ~Ingesting => GraphShape(last.pool) /\ LogsAreSequences(last.pool)
  /\ Reading => ReadsPool

\* Field f of the root object is what the graph says, and so is all a power
\* failure may leave in it.
Complete(f) == root[f] = Backup(graph, f) /\ rootMedia[f] = {Backup(graph, f)}

\* The shutdown has dealt with all fields before the k-th, and copied that one
\* if copied says so.
ClosingAt(k) ==
  /\ closing.todo = SubSeq(CloseOrder, k, 7)
  /\ \A i \in 1 .. 7 : i < k => Complete(CloseOrder[i])
  /\ closing.copied => k < 8 /\ root[CloseOrder[k]] = Backup(graph, CloseOrder[k])

Flags ==
  /\ Ingesting => ~root.backed_up_
  /\ TRUE \in rootMedia["backed_up_"] => root.backed_up_
  /\ root.backed_up_ => \A f \in VouchedFor : Complete(f)
  /\ phase = "closing" =>
       /\ closing = [todo |-> closing.todo, copied |-> closing.copied]
       /\ closing.copied \in BOOLEAN
       /\ \E k \in 1 .. 8 : ClosingAt(k)

PersistInv == RootShape /\ Capacities /\ Shapes /\ Flags

-----------------------------------------------------------------------------
(***************************************************************************)
(* Lemmas about the operators of Persistence.                               *)
(***************************************************************************)

\* SubSeq from the first element on, taken again, is the same.
LEMMA PrefixOfPrefix ==
  ASSUME NEW x, NEW n \in Int
  PROVE  SubSeq(x, 1, n) = SubSeq(x, 1, Len(SubSeq(x, 1, n)))
<1> DEFINE y == [i \in 1 .. n |-> x[i]]
<1>1. SubSeq(x, 1, n) = y
  OBVIOUS
<1>2. CASE n >= 0
  <2>1. Len(y) = n
    BY <1>2
  <2> QED
    BY <1>1, <2>1
<1>3. CASE n < 0
  <2>1. y = <<>>
    BY <1>3
  <2>2. SubSeq(x, 1, 0) = <<>>
    OBVIOUS
  <2> QED
    BY <1>1, <2>1, <2>2
<1>4. QED
  BY <1>2, <1>3

\* A sequence is its longest prefix.
LEMMA WholePrefix == ASSUME NEW x, IsSequence(x) PROVE x = SubSeq(x, 1, Len(x))
<1>1. PICK S : x \in Seq(S)
  BY DEF IsSequence
<1>2. QED
  BY <1>1

\* The count recovery() makes of a log is a number.
LEMMA RecoveredLogIdxType ==
  ASSUME NEW log, IsSequence(log), NEW junk \in Int
  PROVE  RecoveredLogIdx(log, junk) \in Int
<1> DEFINE complete(i) == log[i].u # 0 /\ log[i].v # 0 /\ log[i].prev_offset # 0
           scanned == {n \in 0 .. Len(log) : \A i \in 1 .. n : complete(i)}
<1>1. Len(log) \in Nat
  <2>1. PICK S : log \in Seq(S)
    BY DEF IsSequence
  <2> QED
    BY <2>1
<1>2. scanned \in SUBSET Nat /\ (\A n \in scanned : n <= Len(log)) /\ 0 \in scanned
  <2> HIDE DEF complete
  <2> QED
    BY <1>1
<1> HIDE DEF scanned
<1>3. \E n \in scanned : \A i \in scanned : i <= n
  BY <1>1, <1>2, Greatest
<1>4. Max(scanned) \in Nat
  BY <1>2, <1>3 DEF Max
<1>5. RecoveredLogIdx(log, junk) = IF Max(scanned) = 0 THEN junk ELSE Max(scanned) - 1
  BY DEF RecoveredLogIdx, scanned
<1>6. QED
  BY <1>4, <1>5

\* The graph recovery() makes reads the pool.
LEMMA RecoveryReads ==
  ASSUME NEW pool, GraphShape(pool), LogsAreSequences(pool), NEW end, NEW cap, NEW junk \in Int,
         NEW g, g = recovery(pool, end, cap, junk)
  PROVE  /\ GraphShape(g) /\ g.elem_capacity = cap /\ g.edges_ = pool.edges_
         /\ \A s \in Leaves : g.log_[s] = SubSeq(pool.log_[s], 1, Len(g.log_[s]))
<1> DEFINE L == [s \in Leaves |-> SubSeq(pool.log_[s], 1, RecoveredLogIdx(pool.log_[s], junk))]
<1>1. PICK V, N, A :
        g = recount_segment_total(
              [pool EXCEPT !.elem_capacity = cap, !.vertices_ = V, !.num_edges_ = N,
                           !.segment_edges_actual = A, !.log_ = L], 0, leaf_count)
  BY Zenon DEF recovery
<1> DEFINE h == [pool EXCEPT !.elem_capacity = cap, !.vertices_ = V, !.num_edges_ = N,
                             !.segment_edges_actual = A, !.log_ = L]
<1>2. L = [s \in Leaves |-> L[s]]
  OBVIOUS
<1>3. \A s \in Leaves : L[s] = SubSeq(pool.log_[s], 1, Len(L[s]))
  <2> SUFFICES ASSUME NEW s \in Leaves PROVE L[s] = SubSeq(pool.log_[s], 1, Len(L[s]))
    OBVIOUS
  <2>1. RecoveredLogIdx(pool.log_[s], junk) \in Int
    BY RecoveredLogIdxType DEF LogsAreSequences
  <2>2. L[s] = SubSeq(pool.log_[s], 1, RecoveredLogIdx(pool.log_[s], junk))
    OBVIOUS
  <2> QED
    BY <2>1, <2>2, PrefixOfPrefix
<1>4. h = [pool EXCEPT !.elem_capacity = cap, !.vertices_ = V, !.num_edges_ = N,
                       !.segment_edges_actual = A, !.log_ = L]
  OBVIOUS
<1> HIDE DEF h, L
<1>5. GraphShape(h) /\ h.elem_capacity = cap /\ h.edges_ = pool.edges_ /\ h.log_ = L
  BY <1>2, <1>4 DEF GraphShape
<1>6. g = recount_segment_total(h, 0, leaf_count)
  BY <1>1, <1>4
<1>7. QED
  BY <1>3, <1>5, <1>6, RecountKeeps DEF Keeps

\* No step of an ingestion changes the shape or the capacity of the graph.
LEMMA IngestKeeps == ASSUME GraphShape(graph), Ingest PROVE Keeps(graph, graph')
<1>1. Keeps(graph, graph)
  BY DEF Keeps
<1>2. ASSUME NEW src \in Sources, InsertNow(src) PROVE Keeps(graph, graph')
  BY <1>2, InsertionKeeps DEF InsertNow
<1>3. ASSUME NEW src \in Sources, BeginLeaf(src) PROVE Keeps(graph, graph')
  BY <1>3, <1>1 DEF BeginLeaf, Begin
<1>4. ASSUME NEW src \in Sources, BeginWindow(src) PROVE Keeps(graph, graph')
  BY <1>4, <1>1 DEF BeginWindow, Begin
<1>5. CASE WriteCell
  <2>1. PICK c, value : graph' = [graph EXCEPT !.edges_[c] = value]
    BY <1>5, Zenon DEF WriteCell
  <2> QED
    BY <2>1 DEF Keeps, GraphShape, LogsAreSequences
<1>6. CASE FinishVertex
  <2>1. PICK v, i : graph' = [graph EXCEPT !.vertices_[v].index = i, !.vertices_[v].offset = -1]
    BY <1>6, Zenon DEF FinishVertex
  <2> QED
    BY <2>1 DEF Keeps, GraphShape, LogsAreSequences
<1>7. CASE FinishRebalance
  <2>1. PICK left, right : graph' = recount_segment_total(release_log(graph, left, right), left, right)
    BY <1>7, Zenon DEF FinishRebalance
  <2>2. Keeps(graph, release_log(graph, left, right))
    BY ReleaseKeeps
  <2> QED
    BY <2>1, <2>2, RecountKeeps DEF Keeps
<1>8. QED
  BY <1>2, <1>3, <1>4, <1>5, <1>6, <1>7 DEF Ingest, RebalanceStep

-----------------------------------------------------------------------------
(***************************************************************************)
(* The invariant is inductive.                                              *)
(***************************************************************************)
\* The fields the destructor flushes, in order.
LEMMA CloseOrderFields ==
  /\ \A k \in 1 .. 7 : CloseOrder[k] \in VouchedFor \cup {"backed_up_"}
  /\ \A k \in 1 .. 7 : CloseOrder[k] = "backed_up_" <=> k = 7
  /\ \A i, k \in 1 .. 7 : i # k => CloseOrder[i] # CloseOrder[k]
  /\ \A f \in VouchedFor : \E k \in 1 .. 6 : CloseOrder[k] = f
<1>1. /\ CloseOrder[1] = "vertices_" /\ CloseOrder[2] = "log_segment_idx_"
      /\ CloseOrder[3] = "segment_edges_actual" /\ CloseOrder[4] = "segment_edges_total"
      /\ CloseOrder[5] = "num_edges_" /\ CloseOrder[6] = "elem_capacity"
      /\ CloseOrder[7] = "backed_up_"
  BY DEF CloseOrder
<1>2. \A k \in 1 .. 7 : k = 1 \/ k = 2 \/ k = 3 \/ k = 4 \/ k = 5 \/ k = 6 \/ k = 7
  OBVIOUS
<1>3. \A k \in 1 .. 7 : CloseOrder[k] \in VouchedFor \cup {"backed_up_"}
  BY <1>1, <1>2 DEF VouchedFor
<1>4. \A k \in 1 .. 7 : CloseOrder[k] = "backed_up_" <=> k = 7
  BY <1>1, <1>2
<1>5. \A i, k \in 1 .. 7 : i # k => CloseOrder[i] # CloseOrder[k]
  BY <1>1, <1>2
<1>6. \A f \in VouchedFor : \E k \in 1 .. 6 : CloseOrder[k] = f
  BY <1>1 DEF VouchedFor
<1>7. QED
  BY <1>3, <1>4, <1>5, <1>6

\* The destructor has a fixed number of fields to flush.
LEMMA CloseOrderLength ==
  (\E S : CloseOrder \in Seq(S)) /\ Len(CloseOrder) = 7 /\ CloseOrder = SubSeq(CloseOrder, 1, 7)
<1>1. CloseOrder \in Seq({"vertices_", "log_segment_idx_", "segment_edges_actual",
                          "segment_edges_total", "num_edges_", "elem_capacity", "backed_up_"})
  BY DEF CloseOrder
<1>2. Len(CloseOrder) = 7
  BY DEF CloseOrder
<1> HIDE DEF CloseOrder
<1>3. CloseOrder = SubSeq(CloseOrder, 1, 7)
  BY <1>1, <1>2
<1>4. QED
  BY <1>1, <1>2, <1>3

\* The fields a shutdown still has to write: the first of them and the rest.
LEMMA CloseOrderSuffix ==
  ASSUME NEW k \in 1 .. 8, NEW todo, todo = SubSeq(CloseOrder, k, 7)
  PROVE  /\ todo # <<>> => k < 8
         /\ k < 8 => Head(todo) = CloseOrder[k] /\ Tail(todo) = SubSeq(CloseOrder, k + 1, 7)
<1>1. (\E S : CloseOrder \in Seq(S)) /\ Len(CloseOrder) = 7
  BY CloseOrderLength
<1> HIDE DEF CloseOrder
<1>2. Len(todo) = 8 - k /\ todo = [i \in 1 .. 8 - k |-> CloseOrder[k - 1 + i]]
  BY <1>1
<1>3. todo # <<>> => k < 8
  BY <1>1
<1>4. ASSUME k < 8
      PROVE Head(todo) = CloseOrder[k] /\ Tail(todo) = SubSeq(CloseOrder, k + 1, 7)
  BY <1>1, <1>2, <1>4
<1>5. QED
  BY <1>3, <1>4

\* A fresh process has a consistent pool.
LEMMA PersistInitial == PersistInit => PersistInv
<1> SUFFICES ASSUME PersistInit PROVE PersistInv
  OBVIOUS
<1> USE DEF PersistInit, UndoInit
<1>1. RootShape
  BY DEF RootShape, NewRoot, RootFields, VouchedFor, Phases
<1>2. Capacities
  BY BaseShape, TreeShape DEF Capacities, NewRoot
<1>3. Shapes
  BY BaseShape DEF Shapes, Reading, Ingesting
<1>4. Flags
  BY DEF Flags, NewRoot, Ingesting
<1>5. QED
  BY <1>1, <1>2, <1>3, <1>4 DEF PersistInv

\* Ingestion: the root object is left alone.
LEMMA IngestPreserves == ASSUME PersistInv, Ingest PROVE PersistInv'
<1> USE DEF PersistInv
<1>1. phase = "ingesting" /\ UNCHANGED poolVars
  BY DEF Ingest
<1>2. Keeps(graph, graph')
  BY IngestKeeps DEF Shapes
<1>3. RootShape'
  BY <1>1 DEF RootShape, poolVars
<1>4. Capacities'
  BY <1>1, <1>2 DEF Capacities, poolVars, Keeps
<1>5. Shapes'
  BY <1>1, <1>2 DEF Shapes, Reading, Ingesting, poolVars, Keeps, LogsAreSequences
<1>6. Flags'
  BY <1>1 DEF Flags, Ingesting, poolVars
<1>7. QED
  BY <1>3, <1>4, <1>5, <1>6

\* A store changes one field.
LEMMA StoreField ==
  ASSUME RootShape, NEW f \in RootFields, NEW value, Store(f, value)
  PROVE  /\ DOMAIN root' = RootFields /\ DOMAIN rootMedia' = RootFields
         /\ root'[f] = value /\ rootMedia'[f] = {value}
         /\ \A h \in RootFields \ {f} : root'[h] = root[h] /\ rootMedia'[h] = rootMedia[h]
BY DEF Store, RootShape

\* The old array is freed: the field that names it is cleared.
LEMMA ResizeFreePreserves == ASSUME PersistInv, ResizeFree PROVE PersistInv'
<1> USE DEF PersistInv, ResizeFree, Store, rebalanceVars
<1>1. RootShape'
  BY DEF RootShape, RootFields, Phases
<1>2. Capacities'
  BY DEF Capacities, RootShape, RootFields
<1>3. Shapes'
  BY DEF Shapes, Reading, Ingesting, LogsAreSequences
<1>4. Flags'
  BY DEF Flags, Ingesting, RootShape, RootFields
<1>5. QED
  BY <1>1, <1>2, <1>3, <1>4

\* The new array takes its place in memory and in the field.
LEMMA ResizeInstallPreserves == ASSUME PersistInv, ResizeInstall PROVE PersistInv'
<1> USE DEF PersistInv, ResizeInstall, Store
<1>1. RootShape'
  BY DEF RootShape, RootFields, Phases
<1>2. /\ GraphShape(graph') /\ graph'.elem_capacity = 2 * graph.elem_capacity
      /\ graph'.log_ = graph.log_
  <2>1. GraphShape(graph)
    BY DEF Shapes
  <2>2. GraphShape(resize_V1(graph)) /\ resize_V1(graph).elem_capacity = 2 * graph.elem_capacity
    BY <2>1, ResizeShape
  <2> DEFINE h == resize_V1(graph)
  <2> HIDE DEF h
  <2>3. graph' = [h EXCEPT !.log_ = graph.log_]
    BY DEF h
  <2> QED
    BY <2>1, <2>2, <2>3 DEF GraphShape, h
<1>3. Capacities'
  BY <1>2 DEF Capacities, RootShape, RootFields
<1>4. Shapes'
  BY <1>2 DEF Shapes, Reading, Ingesting, LogsAreSequences
<1>5. Flags'
  BY DEF Flags, Ingesting, RootShape, RootFields
<1>6. QED
  BY <1>1, <1>3, <1>4, <1>5

\* The new size is recorded, and the pool names its array again.
LEMMA ResizeRecordPreserves == ASSUME PersistInv, ResizeRecord PROVE PersistInv'
<1> USE DEF PersistInv, ResizeRecord, Store
<1>1. RootShape'
  BY DEF RootShape, RootFields, Phases
<1>2. Keeps(graph, graph')
  BY ReleaseKeeps DEF Shapes
<1>3. Capacities'
  <2>1. graph'.elem_capacity = graph.elem_capacity
    BY <1>2 DEF Keeps
  <2>2. root'["elem_capacity"] = graph.elem_capacity /\ root'["edges_oid_"] = root["edges_oid_"]
    <3>1. Store("elem_capacity", graph.elem_capacity) /\ RootShape
      OBVIOUS
    <3>2. "elem_capacity" \in RootFields /\ "edges_oid_" \in RootFields \ {"elem_capacity"}
      BY DEF RootFields, VouchedFor
    <3> QED
      BY ONLY <3>1, <3>2, StoreField
  <2> QED
    BY <2>1, <2>2 DEF Capacities
<1>4. Shapes'
  BY <1>2 DEF Shapes, Reading, Ingesting, LogsAreSequences, Keeps
<1>5. Flags'
  BY DEF Flags, Ingesting, RootShape, RootFields
<1>6. QED
  BY <1>1, <1>3, <1>4, <1>5

\* The first step of a shutdown.
LEMMA ClosePreserves == ASSUME PersistInv, Close PROVE PersistInv'
<1> USE DEF PersistInv
<1>1. /\ phase \in {"ingesting", "open"} /\ phase' = "closing"
      /\ closing' = [todo |-> CloseFields, copied |-> FALSE]
      /\ last' = IF phase = "ingesting" THEN [pool |-> graph, quiet |-> TRUE] ELSE last
      /\ UNCHANGED <<graph, root, rootMedia>>
  BY DEF Close, rebalanceVars
<1>2. RootShape'
  BY <1>1 DEF RootShape, Phases
<1>3. Capacities'
  BY <1>1 DEF Capacities
<1>4. Shapes'
  <2>1. CASE phase = "ingesting"
    <3>1. last'.pool = graph /\ GraphShape(graph) /\ LogsAreSequences(graph)
      BY <1>1, <2>1 DEF Shapes, Ingesting
    <3>2. ReadsPool'
      BY <1>1, <3>1, WholePrefix DEF ReadsPool, LogsAreSequences
    <3> QED
      BY <1>1, <3>1, <3>2 DEF Shapes, Ingesting
  <2>2. CASE phase = "open"
    BY <1>1, <2>2 DEF Shapes, Ingesting, Reading, ReadsPool
  <2> QED
    BY <1>1, <2>1, <2>2
<1>5. Flags'
  <2>1. ~Ingesting' /\ closing'.todo = CloseOrder /\ ~closing'.copied
    BY <1>1 DEF Ingesting, CloseFields
  <2>2. CloseOrder = SubSeq(CloseOrder, 1, 7)
    BY CloseOrderLength
  <2>3. ClosingAt(1)'
    BY <2>1, <2>2 DEF ClosingAt
  <2>4. (TRUE \in rootMedia["backed_up_"] => root["backed_up_"])'
    BY <1>1 DEF Flags
  <2>5. (root["backed_up_"] => \A f \in VouchedFor : Complete(f))'
    BY <1>1 DEF Flags, Complete, Backup
  <2>6. closing' = [todo |-> closing'.todo, copied |-> closing'.copied] /\ closing'.copied \in BOOLEAN
    BY <1>1, <2>1
  <2>7. (\E k \in 1 .. 8 : ClosingAt(k))'
    BY <2>3
  <2> HIDE DEF PersistInv
  <2> QED
    BY <1>1, <2>1, <2>4, <2>5, <2>6, <2>7 DEF Flags
<1>6. QED
  BY <1>2, <1>3, <1>4, <1>5

\* The graph, what it reads and the fields before the k-th are left alone by
\* the copy and by the flush of the k-th.
LEMMA CopyFieldPreserves == ASSUME PersistInv, CopyField PROVE PersistInv'
<1> USE DEF PersistInv
<1>1. PICK k \in 1 .. 8 : ClosingAt(k)
  BY DEF CopyField, Flags
<1> DEFINE f == CloseOrder[k]
<1>2. /\ phase = "closing" /\ phase' = "closing" /\ ~closing.copied
      /\ UNCHANGED <<graph, last>>
      /\ closing' = [closing EXCEPT !.copied = TRUE]
  BY DEF CopyField, rebalanceVars
<1>3. k \in 1 .. 7 /\ Head(closing.todo) = f
  BY <1>1, CloseOrderSuffix DEF CopyField, ClosingAt
<1>4. /\ root' = [root EXCEPT ![f] = Backup(graph, f)]
      /\ rootMedia' = [rootMedia EXCEPT ![f] = @ \cup {Backup(graph, f)}]
  BY <1>3 DEF CopyField
<1>5. f \in RootFields /\ f # "edges_oid_" /\ (f = "backed_up_" <=> k = 7)
  BY <1>3, CloseOrderFields DEF RootFields, VouchedFor
<1> HIDE DEF f
<1>6. /\ DOMAIN root' = RootFields /\ DOMAIN rootMedia' = RootFields
      /\ root'[f] = Backup(graph, f) /\ rootMedia'[f] = rootMedia[f] \cup {Backup(graph, f)}
      /\ \A h \in RootFields \ {f} : root'[h] = root[h] /\ rootMedia'[h] = rootMedia[h]
  BY <1>4, <1>5 DEF RootShape
<1>7. \A h \in RootFields : Complete(h) => Complete(h)'
  BY <1>2, <1>6 DEF Complete, Backup
<1>8. root'["edges_oid_"] = root["edges_oid_"]
      /\ (k # 7 => root'["backed_up_"] = root["backed_up_"])
      /\ (k = 7 => root'["backed_up_"] = TRUE)
  BY <1>5, <1>6 DEF RootFields, Backup
<1>9. root'["elem_capacity"] = root["elem_capacity"]
  <2>1. CASE f = "elem_capacity"
    BY <1>2, <1>6, <2>1 DEF Capacities, Backup
  <2>2. CASE f # "elem_capacity"
    BY <1>6, <2>2 DEF RootFields, VouchedFor
  <2> QED
    BY <2>1, <2>2
<1>10. RootShape'
  BY <1>2, <1>6, <1>8 DEF RootShape, Phases
<1>11. Capacities'
  BY <1>2, <1>8, <1>9 DEF Capacities
<1>12. Shapes'
  BY <1>2 DEF Shapes, Reading, Ingesting, ReadsPool
<1>13. Flags'
  <2>1. (TRUE \in rootMedia["backed_up_"] => root["backed_up_"])'
    <3>1. CASE k = 7
      BY <1>8, <3>1
    <3>2. CASE k # 7
      BY <1>5, <1>6, <1>8, <3>2 DEF Flags, RootFields
    <3> QED
      BY <3>1, <3>2
  <2>2. (root["backed_up_"] => \A h \in VouchedFor : Complete(h))'
    <3>1. CASE k = 7
      <4>1. \A h \in VouchedFor : Complete(h)
        <5> SUFFICES ASSUME NEW h \in VouchedFor PROVE Complete(h)
          OBVIOUS
        <5>1. PICK i \in 1 .. 6 : CloseOrder[i] = h
          BY CloseOrderFields
        <5>2. i \in 1 .. 7 /\ i < k
          BY <3>1
        <5> QED
          BY <1>1, <5>1, <5>2 DEF ClosingAt
      <4> QED
        BY <1>7, <4>1 DEF RootFields
    <3>2. CASE k # 7
      BY <1>7, <1>8, <3>2 DEF Flags, RootFields
    <3> QED
      BY <3>1, <3>2
  <2>3. ClosingAt(k)'
    <3>1. closing'.todo = closing.todo
      BY <1>2 DEF Flags
    <3>2. \A i \in 1 .. 7 : i < k => Complete(CloseOrder[i])'
      BY <1>1, <1>7, CloseOrderFields DEF ClosingAt, RootFields
    <3>3. root'[CloseOrder[k]] = Backup(graph', CloseOrder[k])
      BY <1>2, <1>6 DEF f
    <3> QED
      BY <1>1, <1>3, <3>1, <3>2, <3>3 DEF ClosingAt
  <2>4. closing' = [todo |-> closing'.todo, copied |-> closing'.copied] /\ closing'.copied
    BY <1>2 DEF Flags
  <2> QED
    BY <1>2, <2>1, <2>2, <2>3, <2>4 DEF Flags, Ingesting
<1>14. QED
  BY <1>10, <1>11, <1>12, <1>13

\* The destructor flushes one field after another.
LEMMA FlushFieldPreserves == ASSUME PersistInv, FlushField PROVE PersistInv'
<1> USE DEF PersistInv
<1>1. PICK k \in 1 .. 8 : ClosingAt(k)
  BY DEF FlushField, Flags
<1> DEFINE f == CloseOrder[k]
<1>2. /\ phase = "closing" /\ phase' = "closing" /\ closing.copied
      /\ UNCHANGED <<graph, last, root>>
      /\ closing' = [todo |-> Tail(closing.todo), copied |-> FALSE]
  BY DEF FlushField, rebalanceVars
<1>3. k \in 1 .. 7 /\ Head(closing.todo) = f /\ Tail(closing.todo) = SubSeq(CloseOrder, k + 1, 7)
      /\ root[f] = Backup(graph, f)
  <2>1. k < 8 /\ root[f] = Backup(graph, f) /\ closing.todo = SubSeq(CloseOrder, k, 7)
    BY <1>1, <1>2 DEF ClosingAt
  <2> HIDE DEF PersistInv
  <2>2. Head(closing.todo) = CloseOrder[k] /\ Tail(closing.todo) = SubSeq(CloseOrder, k + 1, 7)
    BY <2>1, CloseOrderSuffix
  <2> QED
    BY <2>1, <2>2
<1>4. rootMedia' = [rootMedia EXCEPT ![f] = {root[f]}]
  BY <1>3 DEF FlushField
<1>5. f \in RootFields
  BY <1>3, CloseOrderFields DEF RootFields
<1> HIDE DEF f
<1>6. /\ DOMAIN rootMedia' = RootFields /\ rootMedia'[f] = {Backup(graph, f)}
      /\ \A h \in RootFields \ {f} : rootMedia'[h] = rootMedia[h]
  BY <1>3, <1>4, <1>5 DEF RootShape
<1>7. \A h \in RootFields : Complete(h) => Complete(h)'
  BY <1>2, <1>6 DEF Complete, Backup
<1>8. Complete(f)'
  BY <1>2, <1>3, <1>6 DEF Complete, Backup
<1>9. RootShape'
  BY <1>2, <1>6 DEF RootShape, Phases
<1>10. Capacities'
  BY <1>2 DEF Capacities
<1>11. Shapes'
  BY <1>2 DEF Shapes, Reading, Ingesting, ReadsPool
<1>12. Flags'
  <2>1. (TRUE \in rootMedia["backed_up_"] => root["backed_up_"])'
    <3>1. CASE f = "backed_up_"
      BY <1>2, <1>3, <3>1 DEF Backup
    <3>2. CASE f # "backed_up_"
      BY <1>2, <1>6, <3>2 DEF Flags, RootFields
    <3> QED
      BY <3>1, <3>2
  <2>2. (root["backed_up_"] => \A h \in VouchedFor : Complete(h))'
    BY <1>2, <1>7 DEF Flags, RootFields
  <2>3. ClosingAt(k + 1)'
    <3>1. \A i \in 1 .. 7 : i < k + 1 => Complete(CloseOrder[i])'
      BY <1>1, <1>7, <1>8, CloseOrderFields DEF ClosingAt, RootFields, f
    <3> QED
      BY <1>2, <1>3, <3>1 DEF ClosingAt
  <2>4. closing' = [todo |-> closing'.todo, copied |-> closing'.copied] /\ ~closing'.copied
    BY <1>2
  <2>5. k + 1 \in 1 .. 8
    BY <1>3
  <2> QED
    BY <1>2, <2>1, <2>2, <2>3, <2>4, <2>5 DEF Flags, Ingesting
<1>13. QED
  BY <1>9, <1>10, <1>11, <1>12

\* The shutdown ends when the last field is flushed.
LEMMA CloseDonePreserves == ASSUME PersistInv, CloseDone PROVE PersistInv'
<1> USE DEF PersistInv
<1>1. phase = "closing" /\ phase' = "off" /\ UNCHANGED <<graph, last, root, rootMedia, closing>>
  BY DEF CloseDone, rebalanceVars
<1>2. RootShape'
  BY <1>1 DEF RootShape, Phases
<1>3. Capacities'
  BY <1>1 DEF Capacities
<1>4. Shapes'
  BY <1>1 DEF Shapes, Reading, Ingesting, ReadsPool
<1>5. Flags'
  BY <1>1 DEF Flags, Ingesting, Complete, Backup
<1>6. QED
  BY <1>2, <1>3, <1>4, <1>5

\* The process dies; the pool and what the shutdown has done of it stay.
LEMMA KillPreserves == ASSUME PersistInv, Kill PROVE PersistInv'
<1> USE DEF PersistInv
<1>1. /\ phase \in {"ingesting", "freed", "installed", "closing"} /\ phase' = "off"
      /\ last' = IF phase = "closing" THEN last ELSE [pool |-> graph, quiet |-> ~task.active]
      /\ UNCHANGED <<graph, root, rootMedia>>
  BY DEF Kill
<1>2. RootShape'
  BY <1>1 DEF RootShape, Phases
<1>3. Capacities'
  BY <1>1 DEF Capacities
<1>4. Shapes'
  <2>1. CASE phase = "closing"
    BY <1>1, <2>1 DEF Shapes, Reading, Ingesting, ReadsPool
  <2>2. CASE phase # "closing"
    <3>1. last'.pool = graph /\ ~root.backed_up_
      BY <1>1, <2>2 DEF Flags, Ingesting
    <3> QED
      BY <1>1, <2>2, <3>1 DEF Shapes, Reading, Ingesting, LogsAreSequences
  <2> QED
    BY <2>1, <2>2
<1>5. Flags'
  BY <1>1 DEF Flags, Ingesting, Complete, Backup
<1>6. QED
  BY <1>2, <1>3, <1>4, <1>5

\* The graph the constructor makes of complete backups is the one they were
\* made of, when that read the pool.
LEMMA RestoredIsGraph ==
  ASSUME PersistInv, phase = "off", root.backed_up_ PROVE Restored(last.pool) = graph
<1> DEFINE L == [s \in Leaves |-> SubSeq(last.pool.log_[s], 1, root.log_segment_idx_[s])]
           h == Restored(last.pool)
<1>1. /\ GraphShape(graph) /\ GraphShape(last.pool) /\ graph.edges_ = last.pool.edges_
      /\ \A s \in Leaves : graph.log_[s] = SubSeq(last.pool.log_[s], 1, Len(graph.log_[s]))
  BY DEF PersistInv, Shapes, Reading, Ingesting, ReadsPool
<1>2. \A f \in VouchedFor : root[f] = Backup(graph, f)
  BY DEF PersistInv, Flags, Complete
<1>3. /\ root.vertices_ = graph.vertices_ /\ root.num_edges_ = graph.num_edges_
      /\ root.segment_edges_actual = graph.segment_edges_actual
      /\ root.segment_edges_total = graph.segment_edges_total
      /\ root.elem_capacity = graph.elem_capacity
      /\ root.log_segment_idx_ = log_segment_idx_(graph)
  <2>1. /\ Backup(graph, "vertices_") = graph.vertices_
        /\ Backup(graph, "num_edges_") = graph.num_edges_
        /\ Backup(graph, "segment_edges_actual") = graph.segment_edges_actual
        /\ Backup(graph, "segment_edges_total") = graph.segment_edges_total
        /\ Backup(graph, "elem_capacity") = graph.elem_capacity
        /\ Backup(graph, "log_segment_idx_") = log_segment_idx_(graph)
    BY DEF Backup
  <2> QED
    BY <1>2, <2>1 DEF VouchedFor
<1>4. L = graph.log_
  <2>1. \A s \in Leaves : L[s] = graph.log_[s]
    BY <1>1, <1>3 DEF log_segment_idx_
  <2>2. graph.log_ = [s \in Leaves |-> graph.log_[s]]
    BY <1>1 DEF GraphShape
  <2> QED
    BY <2>1, <2>2
<1>5. h = [last.pool EXCEPT
             !.vertices_ = root.vertices_,
             !.segment_edges_actual = root.segment_edges_actual,
             !.segment_edges_total = root.segment_edges_total,
             !.num_edges_ = root.num_edges_, !.elem_capacity = root.elem_capacity,
             !.log_ = L]
  BY Zenon DEF Restored
<1> HIDE DEF h, L
<1>6. h = graph
  BY <1>1, <1>3, <1>4, <1>5, ZenonT(90) DEF GraphShape
<1>7. QED
  BY <1>6 DEF h

\* A reopened pool with the flag is loaded from its backup.
LEMMA ReopenBackupPreserves == ASSUME PersistInv, ReopenBackup PROVE PersistInv'
<1>1. phase = "off" /\ root.backed_up_ /\ phase' = "open"
      /\ UNCHANGED <<graph, last, root, rootMedia, closing>>
  BY RestoredIsGraph DEF ReopenBackup
<1> USE DEF PersistInv
<1>2. RootShape'
  BY <1>1 DEF RootShape, Phases
<1>3. Capacities'
  <2>1. root.elem_capacity = graph.elem_capacity
    <3>1. root["elem_capacity"] = Backup(graph, "elem_capacity")
      BY <1>1 DEF Flags, Complete, VouchedFor
    <3> QED
      BY <3>1 DEF Backup
  <2> QED
    BY <1>1, <2>1 DEF Capacities
<1>4. Shapes'
  BY <1>1 DEF Shapes, Reading, Ingesting, ReadsPool
<1>5. Flags'
  BY <1>1 DEF Flags, Ingesting, Complete, Backup
<1>6. QED
  BY <1>2, <1>3, <1>4, <1>5

\* A reopened pool without the flag is scanned.
LEMMA ReopenRecoveryPreserves == ASSUME PersistInv, ReopenRecovery PROVE PersistInv'
<1> USE DEF PersistInv
<1>1. PICK junk \in Uninitialised : \E over \in Beyond :
        LET g == recovery(last.pool, EndOfVertex0(last.pool.edges_, over), root.elem_capacity, junk)
        IN graph' = g /\ Store("num_edges_", g.num_edges_)
  BY Zenon DEF ReopenRecovery
<1>11. PICK over : \E g : /\ g = recovery(last.pool, EndOfVertex0(last.pool.edges_, over), root.elem_capacity, junk)
                         /\ graph' = g /\ Store("num_edges_", g.num_edges_)
  BY <1>1, Zenon
<1>12. PICK end : graph' = recovery(last.pool, end, root.elem_capacity, junk) /\ Store("num_edges_", graph'.num_edges_)
  BY <1>11, Zenon
<1>2. phase = "off" /\ ~root.backed_up_ /\ phase' = "open" /\ UNCHANGED <<last, closing>>
  BY DEF ReopenRecovery
<1>3. /\ GraphShape(graph') /\ graph'.elem_capacity = root.elem_capacity
      /\ graph'.edges_ = last.pool.edges_
      /\ \A s \in Leaves : graph'.log_[s] = SubSeq(last.pool.log_[s], 1, Len(graph'.log_[s]))
  <2>1. GraphShape(last.pool) /\ LogsAreSequences(last.pool) /\ junk \in Int
    BY <1>2, PersistenceAssumption DEF Shapes, Ingesting
  <2> QED
    BY <1>12, <2>1, RecoveryReads
<1>4. /\ DOMAIN root' = RootFields /\ DOMAIN rootMedia' = RootFields
      /\ \A h \in RootFields \ {"num_edges_"} : root'[h] = root[h] /\ rootMedia'[h] = rootMedia[h]
  <2>1. "num_edges_" \in RootFields /\ RootShape
    BY DEF RootFields, VouchedFor
  <2> HIDE DEF PersistInv
  <2> QED
    BY <1>12, <2>1, StoreField
<1>5. /\ root'["backed_up_"] = root["backed_up_"] /\ root'["edges_oid_"] = root["edges_oid_"]
      /\ root'["elem_capacity"] = root["elem_capacity"]
      /\ rootMedia'["backed_up_"] = rootMedia["backed_up_"]
  BY <1>4 DEF RootFields, VouchedFor
<1>6. RootShape'
  BY <1>2, <1>4, <1>5 DEF RootShape, Phases
<1>7. Capacities'
  BY <1>2, <1>3, <1>5 DEF Capacities
<1>8. Shapes'
  BY <1>2, <1>3 DEF Shapes, Reading, Ingesting, ReadsPool
<1>9. Flags'
  BY <1>2, <1>5 DEF Flags, Ingesting
<1>10. QED
  BY <1>6, <1>7, <1>8, <1>9

\* A pool that names no array is not opened, and not changed.
LEMMA ReopenFailsPreserves == ASSUME PersistInv, ReopenFails PROVE PersistInv'
<1> USE DEF PersistInv
<1>1. phase = "off" /\ ~root.backed_up_ /\ phase' = "failed"
      /\ UNCHANGED <<graph, last, root, rootMedia, closing>>
  BY DEF ReopenFails, rebalanceVars
<1>2. RootShape'
  BY <1>1 DEF RootShape, Phases
<1>3. Capacities'
  BY <1>1 DEF Capacities
<1>4. Shapes'
  BY <1>1 DEF Shapes, Reading, Ingesting
<1>5. Flags'
  BY <1>1 DEF Flags, Ingesting
<1>6. QED
  BY <1>2, <1>3, <1>4, <1>5

\* Every step keeps the invariant.
LEMMA PersistInductive == PersistInv /\ [PersistNext]_persistVars => PersistInv'
<1>1. ASSUME PersistInv, UNCHANGED persistVars PROVE PersistInv'
  BY <1>1, ZenonT(60) DEF persistVars, PersistInv, RootShape, Capacities, Shapes, Flags, Reading, ReadsPool,
              Ingesting, Complete, ClosingAt, Backup
<1>2. QED
  BY <1>1, IngestPreserves, ResizeFreePreserves, ResizeInstallPreserves, ResizeRecordPreserves,
     ClosePreserves, CopyFieldPreserves, FlushFieldPreserves, CloseDonePreserves, KillPreserves,
     ReopenBackupPreserves, ReopenRecoveryPreserves, ReopenFailsPreserves
  DEF PersistNext

-----------------------------------------------------------------------------
(***************************************************************************)
(* Theorems.                                                                *)
(***************************************************************************)

\* The invariant: sizes and arrays step by step of a resize, what the shutdown
\* has written so far, and which parts of the pool an opened graph reads.
THEOREM PersistInvariant == PersistSpec => []PersistInv
BY PersistInitial, PersistInductive, PTL DEF PersistSpec

\* The array resize_V1 copies to has the cells it is made with.
LEMMA CopiedCells ==
  ASSUME NEW g, NEW N PROVE DOMAIN Copied(g, N) = 0 .. 2 * g.elem_capacity - 1
<1> DEFINE D == 0 .. 2 * g.elem_capacity - 1
           n == num_vertices
           from(v, c) == log_chain(g, v)[(N[v] + g.vertices_[v].degree - 1) - c + 1]
           logged(v) == {from(v, c) : c \in D}
           W == {0, Garbage} \cup {g.edges_[c] : c \in DOMAIN g.edges_}
                  \cup UNION {logged(v) : v \in 0 .. n - 1}
           A == [D -> W]
<1>1. n \in Nat /\ n = num_vertices
  BY TreeShape
<1>2. Zeroed(g) \in A
  BY DEF Zeroed
<1>3. CopiesWithin(g, N, n, A)
  <2> SUFFICES ASSUME NEW F \in A, NEW v \in 0 .. n - 1 PROVE CopyVertex(g, v, F, N) \in A
    BY DEF CopiesWithin
  <2> DEFINE C == CopyCells(g.edges_, F, g.vertices_[v].index, N[v], ResizeCopied(g, v))
             chain == log_chain(g, v)
             top == N[v] + g.vertices_[v].degree - 1
             M == [c \in DOMAIN C |-> IF top - c \in 0 .. Len(chain) - 1 THEN chain[top - c + 1] ELSE C[c]]
  <2>1. /\ DOMAIN F = D /\ \A c \in D : F[c] \in W
        /\ Garbage \in W /\ \A c \in DOMAIN g.edges_ : g.edges_[c] \in W
    <3> HIDE DEF D
    <3> QED
      OBVIOUS
  <2>2. ASSUME NEW c \in D PROVE chain[top - c + 1] \in W
    <3>1. chain[top - c + 1] \in logged(v)
      <4>1. chain[top - c + 1] = from(v, c)
        OBVIOUS
      <4> HIDE DEF D, from, chain, top
      <4>2. from(v, c) \in logged(v)
        OBVIOUS
      <4> QED
        BY <4>1, <4>2
    <3>2. logged(v) \subseteq W
      <4> HIDE DEF logged, n
      <4> QED
        OBVIOUS
    <3> HIDE DEF logged, W, chain, top
    <3> QED
      BY <3>1, <3>2
  <2>3. CopyVertex(g, v, F, N) = M
    BY DEF CopyVertex, MergeLog
  <2> HIDE DEF W, D, chain, top, n
  <2>4. DOMAIN C = D /\ \A c \in D : C[c] \in W
    BY <2>1 DEF CopyCells
  <2> HIDE DEF C
  <2>5. M \in [D -> W]
    BY <2>2, <2>4
  <2> QED
    BY <2>3, <2>5
<1> HIDE DEF A, n
<1>4. PICK B \in [0 .. n -> A] : CopySteps(g, N, n, B)
  BY <1>1, <1>2, <1>3, CopiedIs
<1>5. n \in 0 .. n
  BY <1>1
<1>6. Copied(g, N) \in A
  BY <1>4, <1>5 DEF CopySteps
<1> QED
  BY <1>6 DEF A

\* The array a resize installs.
LEMMA ResizedCells ==
  ASSUME NEW g, GraphShape(g), NEW h, h = [resize_V1(g) EXCEPT !.log_ = g.log_]
  PROVE  DOMAIN h.edges_ = 0 .. h.elem_capacity - 1
<1>1. PICK N : Grown(g) = [g EXCEPT !.elem_capacity = 2 * @, !.edges_ = Copied(g, N),
                                    !.vertices_ = [v \in Vertices |-> MovedTo(@[v], N[v])]]
  BY Zenon DEF Grown
<1> DEFINE d == Grown(g)
           V == [v \in Vertices |-> MovedTo(g.vertices_[v], N[v])]
           E == Copied(g, N)
           r == recount_segment_total(d, 0, leaf_count)
<1>2. d = [g EXCEPT !.elem_capacity = 2 * @, !.edges_ = E, !.vertices_ = V]
  BY <1>1
<1>3. resize_V1(g) = release_log(r, 0, leaf_count)
  BY DEF resize_V1
<1>4. DOMAIN E = 0 .. 2 * g.elem_capacity - 1
  BY CopiedCells
<1> HIDE DEF d, V, E, r
<1>5. GraphShape(d) /\ d.edges_ = E /\ d.elem_capacity = 2 * g.elem_capacity
  BY <1>2 DEF GraphShape
<1>6. GraphShape(r) /\ r.edges_ = E /\ r.elem_capacity = 2 * g.elem_capacity
  BY <1>5 DEF r, recount_segment_total, GraphShape
<1>7. h.edges_ = E /\ h.elem_capacity = 2 * g.elem_capacity
  BY <1>3, <1>6 DEF release_log, GraphShape
<1> QED
  BY <1>4, <1>7

\* No step of an ingestion but a resize changes the cells the array has.
LEMMA IngestCells == ASSUME GraphShape(graph), Ingest PROVE DOMAIN graph'.edges_ = DOMAIN graph.edges_
<1>1. ASSUME NEW src \in Sources, InsertNow(src) PROVE DOMAIN graph'.edges_ = DOMAIN graph.edges_
  <2>1. graph' = do_insertion(graph, src, FreshDst) /\ ~LogIsFull(graph, src)
    BY <1>1 DEF InsertNow
  <2> DEFINE P == PlaceEdge(graph, src, FreshDst)
  <2>2. GraphShape(P)
    BY PlaceKeeps DEF Keeps
  <2>3. DOMAIN P.edges_ = DOMAIN graph.edges_
    BY DEF PlaceEdge, insert_into_log, GraphShape
  <2>4. graph' = [P EXCEPT !.vertices_[src].degree = @ + 1,
                           !.segment_edges_actual[SegmentOf(src)] = @ + 1, !.num_edges_ = @ + 1]
    BY <2>1 DEF do_insertion
  <2> HIDE DEF P
  <2> QED
    BY <2>2, <2>3, <2>4 DEF GraphShape
<1>2. ASSUME NEW src \in Sources, BeginLeaf(src) \/ BeginWindow(src) PROVE DOMAIN graph'.edges_ = DOMAIN graph.edges_
  BY <1>2 DEF BeginLeaf, BeginWindow, Begin
<1>3. CASE WriteCell
  <2>1. PICK c, value : graph' = [graph EXCEPT !.edges_[c] = value]
    BY <1>3, Zenon DEF WriteCell
  <2> QED
    BY <2>1 DEF GraphShape
<1>4. CASE FinishVertex
  <2>1. PICK v, i : graph' = [graph EXCEPT !.vertices_[v].index = i, !.vertices_[v].offset = -1]
    BY <1>4, Zenon DEF FinishVertex
  <2> QED
    BY <2>1 DEF GraphShape
<1>5. CASE FinishRebalance
  <2>1. PICK left, right : graph' = recount_segment_total(release_log(graph, left, right), left, right)
    BY <1>5, Zenon DEF FinishRebalance
  <2> QED
    BY <2>1 DEF recount_segment_total, release_log, GraphShape
<1> QED
  BY <1>1, <1>2, <1>3, <1>4, <1>5 DEF Ingest, RebalanceStep

\* The array a pool names, if it names one, has as many cells as the graph that was
\* ingested counts.
PoolInv ==
  /\ Ingesting => DOMAIN graph.edges_ = 0 .. graph.elem_capacity - 1
  /\ ~Ingesting =>
       /\ last.pool.elem_capacity \in Nat \ {0}
       /\ DOMAIN last.pool.edges_ = 0 .. last.pool.elem_capacity - 1
       /\ root.edges_oid_ # 0 => root.edges_oid_ = last.pool.elem_capacity

LEMMA PoolInitial == PersistInit => PoolInv
BY BaseIs DEF PersistInit, UndoInit, PoolInv, Ingesting, Typed, Arrays

LEMMA PoolInductive == PersistInv /\ PersistInv' /\ PoolInv /\ [PersistNext]_persistVars => PoolInv'
<1> SUFFICES ASSUME PersistInv, PersistInv', PoolInv, [PersistNext]_persistVars PROVE PoolInv'
  OBVIOUS
<1>0. Ingesting => GraphShape(graph)
  BY DEF PersistInv, Shapes
<1>1. CASE UNCHANGED persistVars
  BY <1>1 DEF persistVars, PoolInv, Ingesting
<1>2. CASE Ingest
  <2>1. phase = "ingesting" /\ phase' = "ingesting" /\ GraphShape(graph)
    BY <1>0, <1>2 DEF Ingest, poolVars, Ingesting
  <2>2. Keeps(graph, graph')
    BY <1>2, <2>1, IngestKeeps
  <2> QED
    BY <1>2, <2>1, <2>2, IngestCells DEF PoolInv, Ingesting, Keeps
<1>3. CASE ResizeFree
  BY <1>3 DEF ResizeFree, rebalanceVars, PoolInv, Ingesting
<1>4. CASE ResizeInstall
  <2>1. phase' = "installed" /\ graph' = [resize_V1(graph) EXCEPT !.log_ = graph.log_] /\ GraphShape(graph)
    BY <1>0, <1>4 DEF ResizeInstall, Ingesting
  <2>2. DOMAIN graph'.edges_ = 0 .. graph'.elem_capacity - 1
    BY <2>1, ResizedCells
  <2> QED
    BY <2>1, <2>2 DEF PoolInv, Ingesting
<1>5. CASE ResizeRecord
  <2>1. phase = "installed" /\ phase' = "ingesting" /\ graph' = release_log(graph, 0, leaf_count) /\ GraphShape(graph)
    BY <1>0, <1>5 DEF ResizeRecord, Ingesting
  <2>2. graph'.edges_ = graph.edges_ /\ graph'.elem_capacity = graph.elem_capacity
    BY <2>1 DEF release_log, GraphShape
  <2> QED
    BY <2>1, <2>2 DEF PoolInv, Ingesting
<1>6. CASE phase \in {"ingesting", "freed", "installed"} /\ (Close \/ Kill)
  <2>1. Ingesting /\ last'.pool = graph /\ root' = root /\ ~Ingesting'
    BY <1>6 DEF Close, Kill, Ingesting
  <2> QED
    BY <2>1 DEF PoolInv, PersistInv, Capacities, Ingesting
<1>7. CASE \/ phase \notin {"ingesting", "freed", "installed"} /\ (Close \/ Kill)
           \/ CloseDone \/ ReopenBackup \/ ReopenFails \/ FlushField
  <2>1. ~Ingesting /\ ~Ingesting' /\ last' = last /\ root' = root
    BY <1>7 DEF Close, Kill, CloseDone, ReopenBackup, ReopenFails, FlushField, Ingesting
  <2> QED
    BY <2>1 DEF PoolInv
<1>8. CASE CopyField
  <2>1. ~Ingesting /\ ~Ingesting' /\ last' = last
    BY <1>8 DEF CopyField, Ingesting
  <2>2. root'["edges_oid_"] = root["edges_oid_"]
    <3>1. PICK k \in 1 .. 8 : ClosingAt(k)
      BY <1>8 DEF CopyField, PersistInv, Flags
    <3>2. closing.todo = SubSeq(CloseOrder, k, 7) /\ closing.todo # <<>>
      BY <1>8, <3>1 DEF CopyField, ClosingAt
    <3>3. k < 8 /\ Head(closing.todo) = CloseOrder[k]
      BY <3>2, CloseOrderSuffix
    <3>4. CloseOrder[k] \in VouchedFor \cup {"backed_up_"}
      BY <3>3, CloseOrderFields
    <3>5. Head(closing.todo) # "edges_oid_"
      BY <3>3, <3>4 DEF VouchedFor
    <3>6. PICK f, value : f = Head(closing.todo) /\ root' = [root EXCEPT ![f] = value]
      BY <1>8, Zenon DEF CopyField
    <3>7. "edges_oid_" \in DOMAIN root
      BY DEF PersistInv, RootShape, RootFields
    <3> QED
      BY <3>5, <3>6, <3>7
  <2> QED
    BY <2>1, <2>2 DEF PoolInv
<1>9. CASE ReopenRecovery
  <2>1. ~Ingesting /\ ~Ingesting' /\ last' = last
    BY <1>9 DEF ReopenRecovery, Ingesting
  <2>2. PICK value : Store("num_edges_", value)
    BY <1>9, Zenon DEF ReopenRecovery
  <2>3. root'["edges_oid_"] = root["edges_oid_"]
    BY <2>2 DEF Store, PersistInv, RootShape, RootFields
  <2> QED
    BY <2>1, <2>3 DEF PoolInv
<1> QED
  BY <1>1, <1>2, <1>3, <1>4, <1>5, <1>6, <1>7, <1>8, <1>9 DEF PersistNext

\* Wherever the process dies, and at whatever step of resize_V1: if the array has an
\* empty cell at which the scan of vertex 0 can end, recovery() looks at no cell past
\* the array the root object names.
THEOREM ScanStaysInside == PersistSpec => []ScanInside
<1>1. PersistInv /\ PoolInv => ScanInside
  <2> DEFINE cells == last.pool.edges_
             oid == root.edges_oid_
             cap == root.elem_capacity
  <2> SUFFICES ASSUME PersistInv, PoolInv, phase = "off", oid # 0, EmptyAfter0(cells) # {}, NEW over \in Beyond
               PROVE  /\ EndOfVertex0(cells, over) \in 0 .. oid - 1
                      /\ EndOfVertex0(cells, over) .. cap - 1 \subseteq 0 .. oid - 1
    BY DEF ScanInside
  <2>1. DOMAIN cells = 0 .. oid - 1 /\ oid \in Nat /\ cap \in Nat /\ cap <= oid
    BY DEF PoolInv, Ingesting, PersistInv, Capacities
  <2> DEFINE S == EmptyAfter0(cells)
  <2>2. S \in SUBSET Nat /\ S # {} /\ S \subseteq 0 .. oid - 1
    BY <2>1 DEF EmptyAfter0
  <2>3. EndOfVertex0(cells, over) = Min(S)
    BY DEF EndOfVertex0
  <2> HIDE DEF S, oid, cap, cells
  <2>4. Min(S) \in 0 .. oid - 1
    BY <2>2, LeastIs
  <2> QED
    BY <2>1, <2>3, <2>4
<1>2. PersistSpec => []PoolInv
  <2>1. PersistInv /\ PersistInv' /\ PoolInv /\ [PersistNext]_persistVars => PoolInv'
    BY PoolInductive
  <2> QED
    BY <2>1, PoolInitial, PersistInvariant, PTL DEF PersistSpec
<1> QED
  BY <1>1, <1>2, PersistInvariant, PTL

\* If a power failure may leave the flag backed_up_ set, every backup ~CSRGraph
\* has flushed before it is complete, in the second shutdown as in the first.
THEOREM FlagVouches == PersistSpec => []FlagMeansComplete
<1>1. PersistInv => FlagMeansComplete
  <2> SUFFICES ASSUME PersistInv, TRUE \in rootMedia["backed_up_"],
                      NEW f \in DOMAIN root \ {"backed_up_", "edges_oid_"}
               PROVE  rootMedia[f] = {Backup(graph, f)}
    BY DEF FlagMeansComplete
  <2>1. f \in VouchedFor
    BY DEF PersistInv, RootShape, RootFields
  <2> QED
    BY <2>1 DEF PersistInv, Flags, Complete
<1>2. QED
  BY <1>1, PersistInvariant, PTL

\* A graph the constructor opens from its backups is the graph that was shut
\* down, whatever number of shutdowns and deaths in a shutdown lie between.
THEOREM ReopenIsClean == PersistSpec => CleanReopen
<1>1. PersistInv /\ [PersistNext]_persistVars => [ReopenBackup => graph' = graph]_persistVars
  <2> SUFFICES ASSUME PersistInv, ReopenBackup PROVE graph' = graph
    OBVIOUS
  <2> QED
    BY RestoredIsGraph DEF ReopenBackup
<1>2. QED
  BY <1>1, PersistInvariant, PTL DEF PersistSpec, CleanReopen

-----------------------------------------------------------------------------
(***************************************************************************)
(* The loop of rebalance_data_V1.                                           *)
(***************************************************************************)
\* The writes that move vertex v of graph g to index to.
Writes(g, v, to) ==
  ShiftWrites(g.vertices_[v].index, to, onseg_edges(g, v)) \o MergeWrites(g, v, to)

\* How many of them shift cells that are in place: none if the vertex stays.
Shifts(g, v, to) == IF to = g.vertices_[v].index THEN 0 ELSE onseg_edges(g, v)

\* The place in the vertex that the j-th write fills.
Place(g, v, to, j) ==
  IF j > Shifts(g, v, to) THEN g.vertices_[v].degree - (j - Shifts(g, v, to))
  ELSE IF to < g.vertices_[v].index THEN j - 1
  ELSE onseg_edges(g, v) - j

\* The j-th write takes a cell of v, or an edge of its log.
WriteIs(g, v, to, j, w) ==
  /\ w.to = to + Place(g, v, to, j)
  /\ j <= Shifts(g, v, to) =>
       "value" \notin DOMAIN w /\ w.from = g.vertices_[v].index + Place(g, v, to, j)
  /\ j > Shifts(g, v, to) =>
       "value" \in DOMAIN w /\ w.value = log_chain(g, v)[j - Shifts(g, v, to)]

\* A write that does not go to the left is of a vertex that goes to the right, or past
\* its cells.
Directed(g, v, to, w) ==
  \/ w.left = TRUE
  \/ /\ w.left = FALSE
     /\ (g.vertices_[v].index < to /\ to <= w.to) \/ to + onseg_edges(g, v) <= w.to

\* The writes of a vertex.
LEMMA WritesAre ==
  ASSUME NEW g, LogsTyped(g), NEW v \in Vertices, g.vertices_[v].index \in Int,
         Splits(g, v, onseg_edges(g, v), g.vertices_[v].degree),
         onseg_edges(g, v) \in Nat \ {0}, g.vertices_[v].degree \in Nat, NEW to \in Int
  PROVE  LET W == Writes(g, v, to)
             s == Shifts(g, v, to)
         IN /\ Len(W) = s + (g.vertices_[v].degree - onseg_edges(g, v))
            /\ \A j \in 1 .. Len(W) : WriteIs(g, v, to, j, W[j]) /\ Directed(g, v, to, W[j])
<1> DEFINE ix == g.vertices_[v].index
           on == onseg_edges(g, v)
           deg == g.vertices_[v].degree
           s == Shifts(g, v, to)
           chain == log_chain(g, v)
           S == ShiftWrites(ix, to, on)
           M == MergeWrites(g, v, to)
           Left(i) == [left |-> TRUE, from |-> ix + i - 1, to |-> to + i - 1]
           Right(i) == [left |-> FALSE, from |-> ix + on - i, to |-> to + on - i]
           Merge(i) == [left |-> FALSE, value |-> chain[i], to |-> to + deg - i]
<1>1. chain \in Seq(LogValues(g.log_[SegmentOf(v)])) /\ Len(chain) = deg - on /\ Len(chain) \in Nat
  BY ChainOfVertex DEF Splits
<1>2. DOMAIN chain = 1 .. deg - on
  BY <1>1
<1>3. M = [i \in 1 .. deg - on |-> Merge(i)]
  BY <1>2, Zenon DEF MergeWrites
<1>4. s = (IF to = ix THEN 0 ELSE on) /\ s \in Nat
  BY DEF Shifts
<1>5. S = [i \in 1 .. s |-> IF to < ix THEN Left(i) ELSE Right(i)]
  <2>1. CASE to < ix
    <3>1. S = [i \in 1 .. on |-> Left(i)] /\ s = on
      BY <2>1, <1>4 DEF ShiftWrites
    <3> QED
      BY <3>1, <2>1
  <2>2. CASE to > ix
    <3>1. S = [i \in 1 .. on |-> Right(i)] /\ s = on /\ ~(to < ix)
      BY <2>2, <1>4 DEF ShiftWrites
    <3> QED
      BY <3>1
  <2>3. CASE to = ix
    <3>1. S = <<>> /\ s = 0
      BY <2>3, <1>4 DEF ShiftWrites
    <3> HIDE DEF S, s
    <3>2. <<>> = [i \in 1 .. 0 |-> IF to < ix THEN Left(i) ELSE Right(i)]
      OBVIOUS
    <3> QED
      BY <3>1, <3>2
  <2>4. QED
    BY <2>1, <2>2, <2>3
<1>6. Writes(g, v, to) = S \o M
  BY DEF Writes
<1> DEFINE W == Writes(g, v, to)
           n == deg - on
<1>7. n \in Nat
  BY <1>1
<1>8. Len(W) = s + n /\ \A j \in 1 .. s + n : W[j] = IF j <= s THEN S[j] ELSE M[j - s]
  <2>1. Len(S) = s /\ Len(M) = n
    <3> HIDE DEF S, M, Left, Right, Merge, s, n
    <3> QED
      BY <1>3, <1>5, <1>4, <1>7 DEF n
  <2> DEFINE A == {S[i] : i \in 1 .. s} \cup {M[i] : i \in 1 .. n}
  <2>2. S \in Seq(A) /\ M \in Seq(A)
    <3> HIDE DEF Left, Right, Merge, s, n, S, M
    <3>1. S \in [1 .. s -> A] /\ M \in [1 .. n -> A]
      BY <1>3, <1>5 DEF n
    <3> HIDE DEF A
    <3> QED
      BY <3>1, <1>4, <1>7
  <2> HIDE DEF S, M, s, n, A, W
  <2>3. /\ Len(S \o M) = Len(S) + Len(M)
        /\ \A j \in 1 .. Len(S) + Len(M) : (S \o M)[j] = IF j <= Len(S) THEN S[j] ELSE M[j - Len(S)]
    BY <2>2, ConcatProperties
  <2> QED
    BY <1>6, <2>1, <2>3, Zenon DEF W
<1>9. Len(W) = s + n
  BY <1>8
<1>10. ASSUME NEW j \in 1 .. s + n, j <= s
       PROVE  WriteIs(g, v, to, j, W[j]) /\ Directed(g, v, to, W[j])
  <2>1. W[j] = IF to < ix THEN Left(j) ELSE Right(j)
    <3>1. W[j] = S[j]
      BY <1>8, <1>10
    <3>2. j \in 1 .. s
      BY <1>10, <1>4
    <3> HIDE DEF Left, Right, S, W, s
    <3> QED
      BY <3>1, <3>2, <1>5
  <2>2. Place(g, v, to, j) = IF to < ix THEN j - 1 ELSE on - j
    BY <1>10, <1>4, <1>7 DEF Place
  <2>3. s \in Nat /\ j \in Int /\ ix \in Int /\ on \in Nat \ {0} /\ 1 <= j
    BY <1>4, <1>7
  <2>4. ~(j > s) /\ (s > 0 => s = on /\ to # ix)
    BY <1>4, <2>3, <1>10
  <2> HIDE DEF W, n, on, s
  <2>5. CASE to < ix
    <3>1. W[j] = Left(j) /\ Place(g, v, to, j) = j - 1
      BY <2>1, <2>2, <2>5
    <3>2. "value" \notin DOMAIN W[j] /\ W[j].to = to + j - 1 /\ W[j].from = ix + j - 1 /\ W[j].left = TRUE
      BY <3>1
    <3> HIDE DEF Left, ix
    <3>3. W[j].to = to + Place(g, v, to, j) /\ W[j].from = ix + Place(g, v, to, j)
      BY <2>3, <3>1, <3>2
    <3> QED
      BY <2>4, <3>2, <3>3 DEF WriteIs, Directed, s, ix
  <2>6. CASE ~(to < ix)
    <3>1. W[j] = Right(j) /\ Place(g, v, to, j) = on - j
      BY <2>1, <2>2, <2>6
    <3>2. "value" \notin DOMAIN W[j] /\ W[j].to = to + on - j /\ W[j].from = ix + on - j /\ W[j].left = FALSE
      BY <3>1
    <3> HIDE DEF Right, ix
    <3>3. W[j].to = to + Place(g, v, to, j) /\ W[j].from = ix + Place(g, v, to, j)
      BY <2>3, <3>1, <3>2
    <3>4. ix < to /\ to <= W[j].to
      BY <2>3, <2>4, <2>6, <3>2, <1>10
    <3> QED
      BY <2>4, <3>2, <3>3, <3>4 DEF WriteIs, Directed, s, ix
  <2> QED
    BY <2>5, <2>6
<1>11. ASSUME NEW j \in 1 .. s + n, j > s
       PROVE  WriteIs(g, v, to, j, W[j]) /\ Directed(g, v, to, W[j])
  <2>1. W[j] = Merge(j - s)
    <3>1. W[j] = M[j - s]
      BY <1>8, <1>11, <1>4, <1>7
    <3>2. j - s \in 1 .. n
      BY <1>11, <1>4, <1>7
    <3> HIDE DEF Merge, M, W, s
    <3> QED
      BY <3>1, <3>2, <1>3
  <2>2. Place(g, v, to, j) = deg - (j - s)
    BY <1>11 DEF Place
  <2>3. /\ W[j].to = to + deg - (j - s) /\ W[j].left = FALSE
        /\ "value" \in DOMAIN W[j] /\ W[j].value = chain[j - s]
    BY <2>1
  <2>4. s \in Nat /\ j \in Int /\ deg \in Int /\ n \in Int /\ n < deg /\ j <= s + n
    BY <1>4, <1>7
  <2>5. on \in Int /\ n = deg - on
    OBVIOUS
  <2> HIDE DEF W, s, n, chain, deg, on
  <2>6. W[j].to = to + Place(g, v, to, j) /\ to + on <= W[j].to /\ ~(j <= s)
    BY <2>2, <2>3, <2>4, <2>5, <1>11
  <2> QED
    BY <1>11, <2>3, <2>6 DEF WriteIs, Directed, s, chain, on
<1>12. QED
  <2>1. s \in Nat
    BY <1>4
  <2>2. \A j \in 1 .. s + n : j <= s \/ j > s
    <3> HIDE DEF s, n
    <3> QED
      BY <2>1, <1>7
  <2> HIDE DEF W
  <2> QED
    BY <1>9, <1>10, <1>11, <2>2 DEF W

\* The vertex g has at v, with its cells and its edges in the log, is one that
\* can be moved to index to.
Movable(g, v, to) ==
  /\ LogsTyped(g) /\ v \in Vertices /\ to \in Int
  /\ g.vertices_[v].index \in Int /\ g.vertices_[v].degree \in Nat /\ onseg_edges(g, v) \in Nat \ {0}
  /\ Splits(g, v, onseg_edges(g, v), g.vertices_[v].degree)

\* The number of writes.
Size(g, v, to) == Shifts(g, v, to) + (g.vertices_[v].degree - onseg_edges(g, v))

\* Each place is filled once, and no cell is read after it has been written.
LEMMA PlacesApart ==
  ASSUME NEW g, NEW v, NEW to, Movable(g, v, to)
  PROVE  LET on == onseg_edges(g, v)
             deg == g.vertices_[v].degree
             ix == g.vertices_[v].index
         IN /\ Size(g, v, to) \in Nat
            /\ \A i \in 1 .. Size(g, v, to) :
                 /\ Place(g, v, to, i) \in 0 .. deg - 1
                 /\ i <= Shifts(g, v, to) <=> Place(g, v, to, i) < on
            /\ \A i, j \in 1 .. Size(g, v, to) : i # j => Place(g, v, to, i) # Place(g, v, to, j)
            /\ \A i, j \in 1 .. Size(g, v, to) :
                 i < j /\ j <= Shifts(g, v, to) => to + Place(g, v, to, i) # ix + Place(g, v, to, j)
            /\ \A d \in 0 .. deg - 1 :
                 d >= on \/ to # ix => \E i \in 1 .. Size(g, v, to) : Place(g, v, to, i) = d
<1> DEFINE on == onseg_edges(g, v)
           deg == g.vertices_[v].degree
           ix == g.vertices_[v].index
           s == Shifts(g, v, to)
           n == Size(g, v, to)
<1>1. ix \in Int /\ deg \in Nat /\ on \in Nat /\ on <= deg /\ to \in Int
  BY DEF Movable, Splits
<1>2. s = (IF to = ix THEN 0 ELSE on) /\ n = s + (deg - on)
  BY DEF Shifts, Size
<1>3. \A i : Place(g, v, to, i) = IF i > s THEN deg - (i - s) ELSE IF to < ix THEN i - 1 ELSE on - i
  BY DEF Place
<1> HIDE DEF on, deg, ix, s, n
<1>4. s \in Nat /\ n \in Nat
  BY <1>1, <1>2
<1> DEFINE P(i) == Place(g, v, to, i)
<1>5. \A i \in 1 .. n : P(i) \in 0 .. deg - 1 /\ (i <= s <=> P(i) < on)
  BY <1>1, <1>2, <1>3, <1>4
<1>6. \A i, j \in 1 .. n : i # j => P(i) # P(j)
  BY <1>1, <1>2, <1>3, <1>4
<1>7. \A i, j \in 1 .. n : i < j /\ j <= s => to + P(i) # ix + P(j)
  BY <1>1, <1>2, <1>3, <1>4
<1>8. \A d \in 0 .. deg - 1 : d >= on \/ to # ix => \E i \in 1 .. n : P(i) = d
  <2> SUFFICES ASSUME NEW d \in 0 .. deg - 1, d >= on \/ to # ix
               PROVE  \E i \in 1 .. n : P(i) = d
    OBVIOUS
  <2>1. CASE d >= on
    <3>1. deg - d + s \in 1 .. n /\ P(deg - d + s) = d
      BY <2>1, <1>1, <1>2, <1>3, <1>4
    <3> QED
      BY <3>1
  <2>2. CASE d < on /\ to < ix
    <3>1. d + 1 \in 1 .. n /\ P(d + 1) = d
      BY <2>2, <1>1, <1>2, <1>3, <1>4
    <3> QED
      BY <3>1
  <2>3. CASE d < on /\ to > ix
    <3>1. on - d \in 1 .. n /\ P(on - d) = d
      BY <2>3, <1>1, <1>2, <1>3, <1>4
    <3> QED
      BY <3>1
  <2> QED
    BY <2>1, <2>2, <2>3, <1>1
<1>9. QED
  BY <1>4, <1>5, <1>6, <1>7, <1>8 DEF on, deg, ix, s, n

\* What belongs in place d of vertex v, when its cells are those of E.
Belongs(g, v, E, d) ==
  IF d < onseg_edges(g, v) THEN E[g.vertices_[v].index + d]
  ELSE log_chain(g, v)[g.vertices_[v].degree - d]

\* R is what the first i writes of vertex v make of E.
HalfMoved(g, v, to, i, E, R) ==
  /\ \A c \in 0 .. g.elem_capacity - 1 :
       (\A j \in 1 .. i : c # to + Place(g, v, to, j)) => R[c] = E[c]
  /\ \A j \in 1 .. i : R[to + Place(g, v, to, j)] = Belongs(g, v, E, Place(g, v, to, j))

\* The new cells of v lie in the array, and so do the old ones.
RoomFor(g, v, to) ==
  /\ 0 <= to /\ to + g.vertices_[v].degree <= g.elem_capacity
  /\ 0 <= g.vertices_[v].index
  /\ g.vertices_[v].index + onseg_edges(g, v) <= g.elem_capacity
  /\ g.elem_capacity \in Nat

ValueIn(E, w) == IF "value" \in DOMAIN w THEN w.value ELSE E[w.from]

\* w is the write after the i-th.
NextWrite(g, v, to, i, w) ==
  i \in Nat /\ i < Len(Writes(g, v, to)) /\ w = Writes(g, v, to)[i + 1]

\* One more write.
LEMMA HalfStep ==
  ASSUME NEW g, NEW v, NEW to, Movable(g, v, to), RoomFor(g, v, to),
         NEW V, NEW E, NEW R \in Arrays(g.elem_capacity, V),
         NEW i \in Nat, HalfMoved(g, v, to, i, E, R), NEW w, NextWrite(g, v, to, i, w)
  PROVE  /\ w.to \in 0 .. g.elem_capacity - 1 /\ (w.left = TRUE \/ (w.left = FALSE /\ w.to > 0))
         /\ ValueIn(R, w) = Belongs(g, v, E, w.to - to)
         /\ HalfMoved(g, v, to, i + 1, E, [R EXCEPT ![w.to] = ValueIn(R, w)])
<1> DEFINE on == onseg_edges(g, v)
           deg == g.vertices_[v].degree
           ix == g.vertices_[v].index
           cap == g.elem_capacity
           s == Shifts(g, v, to)
           n == Size(g, v, to)
           d == Place(g, v, to, i + 1)
           W == Writes(g, v, to)
           P(j) == Place(g, v, to, j)
<1>1. ix \in Int /\ deg \in Nat /\ on \in Nat \ {0} /\ on <= deg /\ to \in Int /\ cap \in Nat
  BY DEF Movable, Splits, RoomFor
<1>2. /\ n \in Nat
      /\ \A j \in 1 .. n : P(j) \in 0 .. deg - 1 /\ (j <= s <=> P(j) < on)
      /\ \A j, k \in 1 .. n : j # k => P(j) # P(k)
      /\ \A j, k \in 1 .. n : j < k /\ k <= s => to + P(j) # ix + P(k)
  BY PlacesApart
<1>3. i \in Nat /\ i + 1 \in 1 .. n /\ w = W[i + 1]
  <2>1. Len(W) = n
    BY WritesAre DEF Movable, Size
  <2>2. i \in Nat /\ i < Len(W) /\ w = W[i + 1]
    BY DEF NextWrite
  <2> HIDE DEF W, n
  <2> QED
    BY <1>2, <2>1, <2>2
<1>4. Len(W) = n /\ WriteIs(g, v, to, i + 1, w) /\ Directed(g, v, to, w)
  <2>1. Len(W) = n /\ \A j \in 1 .. n : WriteIs(g, v, to, j, W[j]) /\ Directed(g, v, to, W[j])
    BY WritesAre DEF Movable, Size
  <2> HIDE DEF W, n
  <2> QED
    BY <1>3, <2>1, Zenon DEF W
<1>41. w.to = to + d
  BY <1>4 DEF WriteIs
<1>5. /\ 0 <= to /\ to + deg <= cap /\ 0 <= ix /\ ix + on <= cap
  BY DEF RoomFor
<1>6. s \in Nat /\ (s = IF to = ix THEN 0 ELSE on) /\ (i + 1 > s => d = deg - ((i + 1) - s))
  BY <1>1 DEF Shifts, Place
<1>7. d \in 0 .. deg - 1 /\ (i + 1 <= s <=> d < on)
  BY <1>2, <1>3
<1> DEFINE value == ValueIn(R, w)
<1>8. value = Belongs(g, v, E, d)
  <2>1. CASE i + 1 > s
    <3>1. ~(d < on) /\ deg - d = (i + 1) - s
      BY <2>1, <1>6, <1>7, <1>1
    <3>2. value = log_chain(g, v)[(i + 1) - s]
      <4>1. "value" \in DOMAIN w /\ w.value = log_chain(g, v)[(i + 1) - s]
        BY <2>1, <1>4 DEF WriteIs
      <4> QED
        BY <4>1 DEF ValueIn
    <3> QED
      BY <3>1, <3>2, Zenon DEF Belongs
  <2>2. CASE i + 1 <= s
    <3>1. value = R[ix + d]
      BY <2>2, <1>4 DEF ValueIn, WriteIs
    <3>2. ix + d \in 0 .. cap - 1
      BY <2>2, <1>7, <1>1, <1>5
    <3>3. \A j \in 1 .. i : ix + d # to + P(j)
      BY <2>2, <1>2, <1>3
    <3>4. R[ix + d] = E[ix + d]
      BY <3>2, <3>3 DEF HalfMoved
    <3> QED
      BY <2>2, <3>1, <3>4, <1>7 DEF Belongs
  <2> QED
    BY <2>1, <2>2, <1>6
<1> DEFINE X == [R EXCEPT ![w.to] = value]
<1>9. w.to \in 0 .. cap - 1 /\ (w.left = TRUE \/ (w.left = FALSE /\ w.to > 0))
  <2>1. Directed(g, v, to, w)
    BY <1>4
  <2>2. w.left = TRUE \/ (w.left = FALSE /\ ((ix < to /\ to <= w.to) \/ to + on <= w.to))
    BY <2>1 DEF Directed
  <2> HIDE DEF value, n, s, W, d, cap, on, deg, ix
  <2>3. w.to \in 0 .. cap - 1
    BY <1>1, <1>41, <1>5, <1>7
  <2>4. (ix < to /\ to <= w.to) \/ to + on <= w.to => w.to > 0
    BY <2>3, <1>1, <1>5
  <2> QED
    BY <2>2, <2>3, <2>4
<1>10. \A c \in 0 .. cap - 1 : X[c] = IF c = to + d THEN value ELSE R[c]
  BY <1>41, <1>9 DEF Arrays
<1> HIDE DEF X, value, n, s, W, d, cap, on, deg, ix
<1>11. \A c \in 0 .. cap - 1 : (\A j \in 1 .. i + 1 : c # to + P(j)) => X[c] = E[c]
  <2> SUFFICES ASSUME NEW c \in 0 .. cap - 1, \A j \in 1 .. i + 1 : c # to + P(j)
               PROVE  X[c] = E[c]
    OBVIOUS
  <2>1. c # to + d
    BY DEF d
  <2>2. R[c] = E[c]
    BY DEF HalfMoved, cap
  <2> QED
    BY <2>1, <2>2, <1>10
<1>12. \A j \in 1 .. i + 1 : X[to + P(j)] = Belongs(g, v, E, P(j))
  <2> SUFFICES ASSUME NEW j \in 1 .. i + 1 PROVE X[to + P(j)] = Belongs(g, v, E, P(j))
    OBVIOUS
  <2>1. j \in 1 .. n /\ P(j) \in 0 .. deg - 1 /\ to + P(j) \in 0 .. cap - 1
    BY <1>1, <1>2, <1>3, <1>5
  <2>2. CASE j = i + 1
    BY <2>1, <2>2, <1>8, <1>10 DEF d
  <2>3. CASE j # i + 1
    <3>1. j \in 1 .. i
      BY <2>3
    <3>2. P(j) # d
      BY <2>1, <2>3, <1>2, <1>3 DEF d
    <3>3. X[to + P(j)] = R[to + P(j)]
      <4>1. to + P(j) # to + d
        BY <2>1, <3>2, <1>1, <1>7
      <4> QED
        BY <2>1, <4>1, <1>10
    <3>4. R[to + P(j)] = Belongs(g, v, E, P(j))
      BY <3>1 DEF HalfMoved
    <3> QED
      BY <3>3, <3>4
  <2> QED
    BY <2>2, <2>3
<1>13. w.to - to = d
  BY <1>1, <1>41, <1>7
<1>14. HalfMoved(g, v, to, i + 1, E, X)
  BY <1>11, <1>12 DEF HalfMoved, cap
<1>15. QED
  BY <1>4, <1>41, <1>8, <1>9, <1>13, <1>14 DEF X, value, n, W, cap, d

\* All its writes done, a vertex has moved.
LEMMA HalfDone ==
  ASSUME NEW g, NEW v, NEW to, Movable(g, v, to), RoomFor(g, v, to),
         NEW V, NEW E \in Arrays(g.elem_capacity, V), NEW R \in Arrays(g.elem_capacity, V),
         Garbage \in V, LogValues(g.log_[SegmentOf(v)]) \subseteq V,
         HalfMoved(g, v, to, Size(g, v, to), E, R)
  PROVE  R = MoveVertex(g, v, E, to, onseg_edges(g, v))
<1> DEFINE on == onseg_edges(g, v)
           deg == g.vertices_[v].degree
           ix == g.vertices_[v].index
           C == 0 .. g.elem_capacity - 1
           n == Size(g, v, to)
           M == MoveVertex(g, v, E, to, on)
           P(j) == Place(g, v, to, j)
<1>1. ix \in Int /\ deg \in Nat /\ on \in Nat \ {0} /\ on <= deg /\ to \in Int /\ g.elem_capacity \in Nat
  BY DEF Movable, Splits, RoomFor
<1>2. /\ n \in Nat
      /\ \A j \in 1 .. n : P(j) \in 0 .. deg - 1
      /\ \A d \in 0 .. deg - 1 : d >= on \/ to # ix => \E i \in 1 .. n : P(i) = d
  BY PlacesApart
<1>3. 0 <= to /\ to + deg <= g.elem_capacity /\ 0 <= ix /\ ix + on <= g.elem_capacity
  BY DEF RoomFor
<1>4. E \in [C -> V] /\ R \in [C -> V]
  BY DEF Arrays
<1>5. M \in [C -> V]
  BY <1>4, MoveTyped DEF Movable, MoveVertex
<1>6. VertexAt(g, v, on, deg, C, C, E, E, ix, to, on, M)
  <2>1. Splits(g, v, on, deg) /\ LogsTyped(g) /\ v \in Vertices
    BY DEF Movable
  <2>3. C \in SUBSET Int /\ on <= on /\ on \in Nat /\ on \in Int
    BY <1>1
  <2> HIDE DEF on, deg, ix, M, C
  <2>2. VertexAt(g, v, on, deg, C, C, E, E, ix, to, on,
                 MergeLog(g, v, CopyCells(E, E, ix, to, on), to))
    BY <1>1, <1>4, <2>1, <2>3, VertexArrives
  <2> QED
    BY <2>2 DEF MoveVertex, M, ix
<1>7. \A c \in C : c < to \/ to + deg <= c => M[c] = E[c]
  BY <1>6 DEF VertexAt
<1>8. \A d \in 0 .. deg - 1 : M[to + d] = Belongs(g, v, E, d)
  <2> SUFFICES ASSUME NEW d \in 0 .. deg - 1 PROVE M[to + d] = Belongs(g, v, E, d)
    OBVIOUS
  <2>1. to + d \in C /\ (d < on => ix + d \in C)
    BY <1>1, <1>3
  <2>2. M[to + d] = IF d < on THEN E[ix + d] ELSE log_chain(g, v)[deg - d]
    <3> HIDE DEF M, C
    <3> QED
      BY <2>1, <1>6 DEF VertexAt
  <2> QED
    BY <2>2, Zenon DEF Belongs
<1> SUFFICES ASSUME NEW c \in C PROVE R[c] = M[c]
  <2> HIDE DEF C, M
  <2> QED
    BY <1>4, <1>5 DEF M
<1> HIDE DEF M, n, on, deg, ix
<1>9. CASE c < to \/ to + deg <= c
  <2>1. \A j \in 1 .. n : c # to + P(j)
    BY <1>1, <1>2, <1>9
  <2>2. R[c] = E[c]
    BY <2>1 DEF HalfMoved, n
  <2> QED
    BY <2>2, <1>7, <1>9
<1>10. CASE ~(c < to \/ to + deg <= c)
  <2>1. c - to \in 0 .. deg - 1 /\ to + (c - to) = c
    BY <1>1, <1>10
  <2>2. CASE \E i \in 1 .. n : P(i) = c - to
    <3>1. PICK i \in 1 .. n : P(i) = c - to
      BY <2>2
    <3>2. R[to + P(i)] = Belongs(g, v, E, P(i))
      BY DEF HalfMoved, n
    <3>3. M[to + (c - to)] = Belongs(g, v, E, c - to)
      BY <2>1, <1>8
    <3> QED
      BY <3>1, <3>2, <3>3, <2>1
  <2>3. CASE ~(\E i \in 1 .. n : P(i) = c - to)
    <3>1. c - to < on /\ to = ix
      BY <2>1, <2>3, <1>1, <1>2
    <3>2. \A j \in 1 .. n : c # to + P(j)
      BY <2>3, <1>1, <1>2
    <3>3. R[c] = E[c]
      BY <3>2 DEF HalfMoved, n
    <3>4. M[to + (c - to)] = Belongs(g, v, E, c - to)
      BY <2>1, <1>8
    <3>5. Belongs(g, v, E, c - to) = E[ix + (c - to)]
      BY <3>1 DEF Belongs, on, ix
    <3> QED
      BY <3>1, <3>3, <3>4, <3>5, <2>1
  <2> QED
    BY <2>2, <2>3
<1>11. QED
  BY <1>9, <1>10

-----------------------------------------------------------------------------
\* How many cells each vertex of g has in the array.
OnSegment(g) == [v \in Vertices |-> onseg_edges(g, v)]

\* The vertices a .. b - 1 of graph g, as it was before a rebalance, have room at
\* the positions N.
LoopPlan(g, a, b, N) ==
  /\ Typed(g) /\ Sound(g)
  /\ a \in Nat /\ b \in Nat /\ a < b /\ b <= num_vertices
  /\ Fits(g, a, b, N, NextIndex(g, b - 1))

\* Such a plan can be carried out, vertex after vertex.
LEMMA PlanIs ==
  ASSUME NEW g, NEW a, NEW b, NEW N, LoopPlan(g, a, b, N)
  PROVE  LET order == MoveOrder(g, a, b, N)
         IN /\ b - a \in Nat \ {0} /\ a .. b - 1 \subseteq Vertices
            /\ order \in [1 .. b - a -> a .. b - 1]
            /\ \A i, j \in 1 .. b - a : i # j => order[i] # order[j]
            /\ SafeOrder(b - a, order, a .. b - 1, 0 .. g.elem_capacity - 1, Indices(g), OnSegment(g), N, Degrees(g))
            /\ \A v \in a .. b - 1 : Movable(g, v, N[v]) /\ RoomFor(g, v, N[v])
<1> DEFINE order == MoveOrder(g, a, b, N)
           end == NextIndex(g, b - 1)
<1>1. /\ a \in Nat /\ b \in Nat /\ a < b /\ b <= num_vertices /\ Typed(g) /\ Sound(g)
      /\ Fits(g, a, b, N, end)
  BY DEF LoopPlan
<1>2. b - a \in Nat \ {0} /\ a .. b - 1 \subseteq Vertices /\ b - 1 \in Vertices /\ a \in a .. b - 1
  BY <1>1, TreeShape DEF Vertices
<1>3. SafeOrder(b - a, order, a .. b - 1, 0 .. g.elem_capacity - 1, Indices(g), OnSegment(g), N, Degrees(g))
  BY <1>1, MoveOrderSafe DEF OnSegment
<1>4. /\ order \in [1 .. b - a -> a .. b - 1]
      /\ \A i, j \in 1 .. b - a : i # j => order[i] # order[j]
  BY <1>3 DEF SafeOrder
<1>5. \A v \in Vertices :
        /\ g.vertices_[v].index \in 0 .. g.elem_capacity - 1
        /\ g.vertices_[v].degree \in Nat \ {0}
        /\ onseg_edges(g, v) \in Nat \ {0} /\ onseg_edges(g, v) <= g.vertices_[v].degree
        /\ g.vertices_[v].index + onseg_edges(g, v) <= NextIndex(g, v)
        /\ NextIndex(g, v) \in Int /\ NextIndex(g, v) <= g.elem_capacity
  BY <1>1, SoundIs
<1>6. g.vertices_ \in [Vertices -> Entry] /\ LogsTyped(g) /\ g.elem_capacity \in Nat
  BY <1>1 DEF Typed
<1>7. end \in Int /\ end <= g.elem_capacity
  BY <1>2, <1>5
<1> HIDE DEF order, end
<1>8. /\ \A v \in a .. b - 1 : N[v] \in Int /\ N[a] <= N[v] /\ N[v] + g.vertices_[v].degree <= end
      /\ N[a] = g.vertices_[a].index
  BY <1>1, <1>6, <1>7, FitsIs DEF Fits
<1>9. ASSUME NEW v \in a .. b - 1 PROVE Movable(g, v, N[v]) /\ RoomFor(g, v, N[v])
  <2>1. v \in Vertices /\ a \in Vertices
    BY <1>2
  <2>2. Splits(g, v, onseg_edges(g, v), g.vertices_[v].degree)
    BY <1>1, <1>5, <2>1 DEF Splits, Sound, InPlace
  <2>3. Movable(g, v, N[v])
    BY <1>5, <1>6, <1>8, <2>1, <2>2 DEF Movable
  <2>4. /\ N[v] \in Int /\ N[a] <= N[v] /\ N[v] + g.vertices_[v].degree <= end /\ N[a] \in Nat
    BY <1>5, <1>8, <2>1
  <2>5. /\ g.vertices_[v].index \in Nat /\ onseg_edges(g, v) \in Nat /\ g.vertices_[v].degree \in Nat
        /\ g.vertices_[v].index + onseg_edges(g, v) <= NextIndex(g, v)
        /\ NextIndex(g, v) \in Int /\ NextIndex(g, v) <= g.elem_capacity
    BY <1>5, <2>1
  <2>6. RoomFor(g, v, N[v])
    BY <1>6, <1>7, <2>4, <2>5 DEF RoomFor
  <2> QED
    BY <2>3, <2>6
<1>10. QED
  BY <1>2, <1>3, <1>4, <1>9 DEF order

\* The vertex table when the first k vertices of order have arrived.
Arrived(g, order, N, k) ==
  [v \in Vertices |-> IF \E j \in 1 .. k : order[j] = v THEN MovedTo(g.vertices_[v], N[v])
                      ELSE g.vertices_[v]]

\* A[k] is the edge array of rebalance_data_V1 after k vertices.
ArraysOf(g, a, b, N, A) ==
  /\ A \in [0 .. b - a -> Arrays(g.elem_capacity, CellValues(g))]
  /\ MoveSteps(g, MoveOrder(g, a, b, N), N, OnSegment(g), b - a, A)

\* The loop has moved k vertices and made some of the writes of the next; todo are
\* the vertices left.
LoopAt(g, a, b, N, A, k, todo, written, h) ==
  LET order == MoveOrder(g, a, b, N)
      v == order[k + 1]
  IN /\ k \in 0 .. b - a
     /\ todo = SubSeq(order, k + 1, b - a)
     /\ h.vertices_ = Arrived(g, order, N, k)
     /\ h.edges_ \in Arrays(g.elem_capacity, CellValues(g))
     /\ h = [g EXCEPT !.edges_ = h.edges_, !.vertices_ = h.vertices_]
     /\ k < b - a => /\ written \in 0 .. Size(g, v, N[v])
                     /\ HalfMoved(g, v, N[v], written, A[k], h.edges_)
     /\ k = b - a => written = 0 /\ h.edges_ = A[k]

\* The n vertices of the order less the first k.
Remains(order, n, k, todo) ==
  n \in Nat /\ order = [i \in 1 .. n |-> order[i]] /\ k \in 0 .. n /\ todo = SubSeq(order, k + 1, n)

Members(order, n) == {order[i] : i \in 1 .. n}

Rest(order, n, k) == [i \in 1 .. n - k |-> order[k + i]]

\* They are a sequence.
LEMMA RemainsIs ==
  ASSUME NEW n, NEW order, NEW k, NEW todo, Remains(order, n, k, todo)
  PROVE  /\ n \in Nat /\ k \in 0 .. n /\ order \in Seq(Members(order, n)) /\ Len(order) = n
         /\ todo = Rest(order, n, k) /\ Len(todo) = n - k /\ todo \in Seq(Members(order, n))
<1> DEFINE S == Members(order, n)
<1>0. n \in Nat /\ order \in [1 .. n -> S] /\ k \in 0 .. n /\ todo = SubSeq(order, k + 1, n)
  BY DEF Remains, Members
<1> HIDE DEF S
<1>1. order \in Seq(S) /\ Len(order) = n
  BY <1>0
<1>2. todo = Rest(order, n, k) /\ Len(todo) = n - k
  BY <1>0, <1>1 DEF Rest
<1>3. todo \in Seq(S)
  BY <1>0, <1>1
<1> QED
  BY <1>0, <1>1, <1>2, <1>3 DEF S

\* A sequence is the list of its elements.
LEMMA Listed == ASSUME NEW S, NEW q \in Seq(S) PROVE q = [i \in 1 .. Len(q) |-> q[i]]
OBVIOUS

\* The loop has something left unless it has dealt with all of them.
LEMMA SomeRemain ==
  ASSUME NEW n, NEW order, NEW k, NEW todo, Remains(order, n, k, todo)
  PROVE  todo # <<>> <=> k < n
<1>1. n \in Nat /\ k \in 0 .. n /\ Len(todo) = n - k /\ todo \in Seq(Members(order, n))
  BY RemainsIs
<1> QED
  BY <1>1

\* At first it has everything left.
LEMMA AllRemain ==
  ASSUME NEW n, NEW order, NEW todo, Remains(order, n, 0, todo)
  PROVE  todo = order
<1>1. n \in Nat /\ todo = Rest(order, n, 0)
  BY RemainsIs
<1>2. order = [i \in 1 .. n |-> order[i]]
  BY DEF Remains
<1> QED
  BY <1>1, <1>2 DEF Rest

\* The next vertex and the rest.
LEMMA NextRemains ==
  ASSUME NEW n, NEW order, NEW k, NEW todo, Remains(order, n, k, todo), k < n
  PROVE  Head(todo) = order[k + 1] /\ Remains(order, n, k + 1, Tail(todo))
<1>1. /\ n \in Nat /\ k \in 0 .. n /\ order \in Seq(Members(order, n)) /\ Len(order) = n
      /\ todo = Rest(order, n, k) /\ Len(todo) = n - k /\ todo \in Seq(Members(order, n))
  BY RemainsIs
<1>2. Head(todo) = order[k + 1]
  BY <1>1 DEF Rest
<1>3. Tail(todo) = Rest(order, n, k + 1)
  <2>0. todo # <<>>
    BY SomeRemain
  <2>1. Tail(todo) = [i \in 1 .. Len(todo) - 1 |-> todo[i + 1]]
    <3> DEFINE S == Members(order, n)
    <3>1. todo \in Seq(S) /\ todo # <<>>
      BY <1>1, <2>0
    <3> HIDE DEF S
    <3>2. Tail(todo) \in Seq(S) /\ Len(Tail(todo)) = Len(todo) - 1
          /\ \A i \in 1 .. Len(Tail(todo)) : Tail(todo)[i] = todo[i + 1]
      BY <3>1, HeadTailProperties
    <3>3. Tail(todo) = [i \in 1 .. Len(Tail(todo)) |-> Tail(todo)[i]]
      BY <3>2, Listed
    <3> QED
      BY <3>2, <3>3
  <2>2. \A i \in 1 .. n - (k + 1) : todo[i + 1] = order[(k + 1) + i]
    BY <1>1 DEF Rest
  <2>3. Len(todo) - 1 = n - (k + 1)
    BY <1>1
  <2> QED
    BY <2>1, <2>2, <2>3 DEF Rest
<1>4. SubSeq(order, (k + 1) + 1, n) = Rest(order, n, k + 1)
  BY <1>1 DEF Rest
<1>5. k + 1 \in 0 .. n
  BY <1>1
<1>6. order = [i \in 1 .. n |-> order[i]]
  BY DEF Remains
<1> QED
  BY <1>1, <1>2, <1>3, <1>4, <1>5, <1>6 DEF Remains

\* The loop begins with the graph as it is.
LEMMA LoopBegins ==
  ASSUME NEW g, NEW a, NEW b, NEW N, LoopPlan(g, a, b, N)
  PROVE  \E A : ArraysOf(g, a, b, N, A) /\ LoopAt(g, a, b, N, A, 0, MoveOrder(g, a, b, N), 0, g)
<1> DEFINE order == MoveOrder(g, a, b, N)
           All == Arrays(g.elem_capacity, CellValues(g))
           n == b - a
<1>1. /\ n \in Nat \ {0} /\ a .. b - 1 \subseteq Vertices /\ order \in [1 .. n -> a .. b - 1]
      /\ \A v \in a .. b - 1 : Movable(g, v, N[v])
  BY PlanIs
<1>2. Typed(g)
  BY DEF LoopPlan
<1>3. GraphShape(g) /\ g.vertices_ \in [Vertices -> Entry] /\ g.edges_ \in All
  BY <1>2, ContentsHold DEF Typed
<1>4. DOMAIN order = 1 .. n /\ \A i \in 1 .. n : order[i] \in Vertices
  BY <1>1
<1> HIDE DEF order, n
<1>5. MovesWithin(g, order, N, OnSegment(g), n, All)
  BY <1>2, <1>4, MovesTyped
<1> HIDE DEF All
<1>6. PICK A \in [0 .. n -> All] : MoveSteps(g, order, N, OnSegment(g), n, A)
  BY <1>1, <1>3, <1>4, <1>5, MovedIs
<1>7. ArraysOf(g, a, b, N, A)
  BY <1>6 DEF ArraysOf, All, n, order
<1>8. A[0] = g.edges_
  BY <1>6 DEF MoveSteps
<1>9. order = SubSeq(order, 1, n)
  <2> DEFINE todo == SubSeq(order, 0 + 1, n)
  <2>1. todo = order
    <3>1. 0 \in 0 .. n /\ n \in Nat
      BY <1>1
    <3> HIDE DEF todo
    <3>2. todo = SubSeq(order, 0 + 1, n)
      BY DEF todo
    <3>3. Remains(order, n, 0, todo)
      BY <1>1, <3>1, <3>2 DEF Remains
    <3> QED
      BY <3>3, AllRemain
  <2> QED
    BY <2>1
<1>10. g.vertices_ = Arrived(g, order, N, 0)
  <2>1. \A v \in Vertices : ~(\E j \in 1 .. 0 : order[j] = v)
    OBVIOUS
  <2>2. g.vertices_ = [v \in Vertices |-> g.vertices_[v]]
    BY <1>3
  <2> QED
    BY <2>1, <2>2 DEF Arrived
<1>11. g = [g EXCEPT !.edges_ = g.edges_, !.vertices_ = g.vertices_]
  BY <1>3 DEF GraphShape
<1>12. 0 \in 0 .. Size(g, order[1], N[order[1]])
  <2>1. order[1] \in a .. b - 1
    BY <1>1
  <2>2. Size(g, order[1], N[order[1]]) \in Nat
    BY <1>1, <2>1, PlacesApart
  <2> QED
    BY <2>2
<1>13. HalfMoved(g, order[1], N[order[1]], 0, A[0], g.edges_)
  BY <1>8 DEF HalfMoved
<1>14. LoopAt(g, a, b, N, A, 0, order, 0, g)
  BY <1>1, <1>3, <1>9, <1>10, <1>11, <1>12, <1>13 DEF LoopAt, order, n, All
<1>15. QED
  BY <1>7, <1>14 DEF order

\* v is the vertex the loop moves after k others.
OnItsWay(g, a, b, N, k, v) == k < b - a /\ v = MoveOrder(g, a, b, N)[k + 1]

\* The vertex on its way is where it was, with the log it had.
LEMMA NextIs ==
  ASSUME NEW g, NEW a, NEW b, NEW N, LoopPlan(g, a, b, N), NEW A, NEW k, NEW todo, NEW written, NEW h,
         LoopAt(g, a, b, N, A, k, todo, written, h),
         NEW v, OnItsWay(g, a, b, N, k, v)
  PROVE  /\ k \in Nat /\ k + 1 \in 1 .. b - a /\ written \in Nat /\ v \in a .. b - 1 /\ v \in Vertices
         /\ todo # <<>> /\ Head(todo) = v
         /\ h.vertices_[v] = g.vertices_[v]
         /\ Writes(g, v, N[v]) =
              ShiftWrites(h.vertices_[v].index, N[v], onseg_edges(g, v)) \o MergeWrites(h, v, N[v])
<1> DEFINE order == MoveOrder(g, a, b, N)
           n == b - a
<1>1. /\ n \in Nat \ {0} /\ a .. b - 1 \subseteq Vertices
      /\ order \in [1 .. n -> a .. b - 1]
      /\ \A i, j \in 1 .. n : i # j => order[i] # order[j]
  BY PlanIs
<1>2. /\ k \in 0 .. n /\ todo = SubSeq(order, k + 1, n) /\ h.vertices_ = Arrived(g, order, N, k)
      /\ h = [g EXCEPT !.edges_ = h.edges_, !.vertices_ = h.vertices_]
  BY DEF LoopAt
<1>3. Typed(g)
  BY DEF LoopPlan
<1>4. k < n /\ v = order[k + 1]
  BY DEF OnItsWay
<1> HIDE DEF order, n
<1>5. k \in Nat /\ k + 1 \in 1 .. n
  BY <1>1, <1>2, <1>4
<1>6. v \in a .. b - 1 /\ v \in Vertices
  BY <1>1, <1>4, <1>5
<1>7. todo # <<>> /\ Head(todo) = v
  <2>1. Remains(order, n, k, todo)
    BY <1>1, <1>2 DEF Remains
  <2> QED
    BY <1>4, <2>1, SomeRemain, NextRemains
<1>8. ~(\E j \in 1 .. k : order[j] = v)
  BY <1>1, <1>4, <1>5
<1>9. h.vertices_[v] = g.vertices_[v]
  BY <1>2, <1>6, <1>8 DEF Arrived
<1>10. h.log_ = g.log_
  BY <1>2, <1>3 DEF Typed, GraphShape
<1>11. log_chain(h, v) = log_chain(g, v)
  BY <1>9, <1>10, LogChainIs
<1>12. MergeWrites(h, v, N[v]) = MergeWrites(g, v, N[v])
  BY <1>9, <1>11 DEF MergeWrites
<1>13. written \in Nat
  <2>1. Size(g, v, N[v]) \in Nat
    BY <1>6, PlanIs, PlacesApart
  <2>2. written \in 0 .. Size(g, v, N[v])
    BY <1>4 DEF LoopAt, n, order
  <2> QED
    BY <2>1, <2>2
<1> QED
  BY <1>5, <1>6, <1>7, <1>9, <1>12, <1>13 DEF Writes, n

\* A write.
LEMMA LoopWrites ==
  ASSUME NEW g, NEW a, NEW b, NEW N, LoopPlan(g, a, b, N), NEW A, ArraysOf(g, a, b, N, A),
         NEW k, NEW todo, NEW written, NEW h,
         LoopAt(g, a, b, N, A, k, todo, written, h),
         NEW v, OnItsWay(g, a, b, N, k, v),
         NEW w, NextWrite(g, v, N[v], written, w)
  PROVE  /\ w.to \in 0 .. g.elem_capacity - 1 /\ (w.left = TRUE \/ (w.left = FALSE /\ w.to > 0))
         /\ LoopAt(g, a, b, N, A, k, todo, written + 1, [h EXCEPT !.edges_[w.to] = ValueIn(h.edges_, w)])
<1> DEFINE order == MoveOrder(g, a, b, N)
           n == b - a
           to == N[v]
           cap == g.elem_capacity
           V == CellValues(g)
           E == A[k]
           R == h.edges_
           X == [R EXCEPT ![w.to] = ValueIn(R, w)]
           h2 == [h EXCEPT !.edges_[w.to] = ValueIn(h.edges_, w)]
<1>1. k \in Nat /\ k + 1 \in 1 .. n /\ v \in a .. b - 1 /\ v \in Vertices
  BY NextIs
<1>2. Movable(g, v, to) /\ RoomFor(g, v, to)
  BY <1>1, PlanIs
<1>3. Typed(g) /\ GraphShape(g)
  BY DEF LoopPlan, Typed
<1>4. /\ k \in 0 .. n /\ todo = SubSeq(order, k + 1, n) /\ h.vertices_ = Arrived(g, order, N, k)
      /\ R \in Arrays(cap, V)
      /\ h = [g EXCEPT !.edges_ = h.edges_, !.vertices_ = h.vertices_]
      /\ written \in 0 .. Size(g, v, to)
      /\ HalfMoved(g, v, to, written, E, R)
  BY DEF LoopAt, OnItsWay
<1>5. Size(g, v, to) = Len(Writes(g, v, to)) /\ Size(g, v, to) \in Nat
  BY <1>2, PlacesApart, WritesAre DEF Movable, Size
<1>6. written \in Nat /\ written < Size(g, v, to) /\ w = Writes(g, v, to)[written + 1]
  BY <1>5 DEF NextWrite
<1>7. /\ w.to \in 0 .. cap - 1 /\ (w.left = TRUE \/ (w.left = FALSE /\ w.to > 0))
      /\ ValueIn(R, w) = Belongs(g, v, E, w.to - to)
      /\ HalfMoved(g, v, to, written + 1, E, X)
  <2>1. NextWrite(g, v, to, written, w)
    OBVIOUS
  <2>2. R \in Arrays(g.elem_capacity, V)
    BY <1>4
  <2>3. HalfMoved(g, v, to, written, E, R)
    BY <1>4
  <2>4. Movable(g, v, to) /\ RoomFor(g, v, to) /\ written \in Nat
    BY <1>2, <1>6
  <2> HIDE DEF R, E, V, to, order, n, h2
  <2>5. /\ w.to \in 0 .. g.elem_capacity - 1 /\ (w.left = TRUE \/ (w.left = FALSE /\ w.to > 0))
        /\ ValueIn(R, w) = Belongs(g, v, E, w.to - to)
        /\ HalfMoved(g, v, to, written + 1, E, [R EXCEPT ![w.to] = ValueIn(R, w)])
    BY <2>1, <2>2, <2>3, <2>4, HalfStep, Zenon
  <2> QED
    BY <2>5
<1>8. X \in Arrays(cap, V)
  <2> DEFINE d == w.to - to
             on == onseg_edges(g, v)
             deg == g.vertices_[v].degree
             ix == g.vertices_[v].index
             chain == log_chain(g, v)
  <2>1. d \in 0 .. deg - 1
    <3>1. \A j \in 1 .. Len(Writes(g, v, to)) : WriteIs(g, v, to, j, Writes(g, v, to)[j])
      BY <1>2, WritesAre DEF Movable, Size
    <3>2. written + 1 \in 1 .. Len(Writes(g, v, to)) /\ written + 1 \in 1 .. Size(g, v, to)
      BY <1>5, <1>6
    <3>3. w.to = to + Place(g, v, to, written + 1)
      BY <3>1, <3>2, <1>6, Zenon DEF WriteIs
    <3>4. Place(g, v, to, written + 1) \in 0 .. deg - 1
      BY <1>2, <3>2, PlacesApart
    <3>5. to \in Int /\ deg \in Int
      BY <1>2 DEF Movable
    <3> HIDE DEF to, deg
    <3> QED
      BY <3>3, <3>4, <3>5
  <2>2. Belongs(g, v, E, d) \in V
    <3>1. /\ ix \in Int /\ 0 <= ix /\ ix + on <= cap /\ on \in Nat /\ deg \in Nat /\ cap \in Nat
          /\ Splits(g, v, on, deg) /\ LogsTyped(g)
      BY <1>2 DEF Movable, RoomFor
    <3>2. E \in [0 .. cap - 1 -> V]
      BY <1>4 DEF ArraysOf, Arrays
    <3>3. chain \in Seq(LogValues(g.log_[SegmentOf(v)])) /\ Len(chain) = deg - on
      BY <1>1, <3>1, ChainOfVertex DEF Splits
    <3>4. LogValues(g.log_[SegmentOf(v)]) \subseteq V
      BY <1>1, <1>3, ContentsHold
    <3> HIDE DEF E, V, cap, on, deg, ix, chain, d
    <3>5. CASE d < on
      <4>1. ix + d \in 0 .. cap - 1
        BY <2>1, <3>1, <3>5
      <4>2. E[ix + d] \in V
        BY <4>1, <3>2
      <4> QED
        BY <4>2, <3>5 DEF Belongs, on, ix
    <3>6. CASE ~(d < on)
      <4>1. deg - d \in 1 .. Len(chain)
        BY <2>1, <3>1, <3>3, <3>6
      <4>2. chain[deg - d] \in V
        BY <4>1, <3>3, <3>4
      <4> QED
        BY <4>2, <3>6 DEF Belongs, on, deg, chain
    <3> QED
      BY <3>5, <3>6
  <2>3. ValueIn(R, w) \in V
    BY <1>7, <2>2
  <2>4. R \in [0 .. cap - 1 -> V]
    BY <1>4 DEF Arrays
  <2> HIDE DEF R, V, cap, d, on, deg, ix, chain, to
  <2> QED
    BY <1>7, <2>3, <2>4 DEF Arrays, X
<1>9. h2.vertices_ = h.vertices_ /\ h2.edges_ = X /\ h2 = [g EXCEPT !.edges_ = X, !.vertices_ = h.vertices_]
  <2> HIDE DEF R, X
  <2>1. h2 = [h EXCEPT !.edges_ = X]
    BY DEF X, R
  <2> QED
    BY <1>3, <1>4, <2>1 DEF GraphShape
<1>10. written + 1 \in 0 .. Size(g, v, to)
  BY <1>5, <1>6
<1> HIDE DEF X, h2, n, order
<1>11. LoopAt(g, a, b, N, A, k, todo, written + 1, h2)
  BY <1>4, <1>7, <1>8, <1>9, <1>10, <1>1 DEF LoopAt, OnItsWay, order, n
<1> QED
  BY <1>7, <1>11 DEF h2

\* The entry of a vertex that has arrived.
LEMMA EntryMoved ==
  ASSUME NEW f, NEW S, f = [x \in S |-> f[x]], NEW v \in S, f[v] \in Entry, NEW n \in Int
  PROVE  [f EXCEPT ![v].index = n, ![v].offset = -1] = [f EXCEPT ![v] = MovedTo(f[v], n)]
<1> DEFINE e == f[v]
<1>1. e = [index |-> e.index, degree |-> e.degree, offset |-> e.offset]
  <2>1. e \in Entry
    OBVIOUS
  <2> HIDE DEF e
  <2> QED
    BY <2>1 DEF Entry
<1>2. [[e EXCEPT !.index = n] EXCEPT !.offset = -1] = MovedTo(e, n)
  <2> DEFINE d == [e EXCEPT !.index = n]
  <2>1. e \in Entry
    OBVIOUS
  <2> HIDE DEF e
  <2>2. d = [index |-> n, degree |-> e.degree, offset |-> e.offset] /\ d \in Entry
    BY <2>1 DEF Entry
  <2> HIDE DEF d
  <2>3. [d EXCEPT !.offset = -1] = [index |-> d.index, degree |-> d.degree, offset |-> -1]
    BY <2>2, EntryLinked
  <2> QED
    BY <2>2, <2>3 DEF MovedTo, d
<1>3. [f EXCEPT ![v].index = n, ![v].offset = -1] = [f EXCEPT ![v] = [[e EXCEPT !.index = n] EXCEPT !.offset = -1]]
  OBVIOUS
<1> QED
  BY <1>2, <1>3

\* The vertex has arrived.
LEMMA NextVertex ==
  ASSUME NEW g, NEW a, NEW b, NEW N, LoopPlan(g, a, b, N), NEW A, ArraysOf(g, a, b, N, A),
         NEW k, NEW todo, NEW written, NEW h,
         LoopAt(g, a, b, N, A, k, todo, written, h),
         NEW v, OnItsWay(g, a, b, N, k, v), written = Len(Writes(g, v, N[v]))
  PROVE  LoopAt(g, a, b, N, A, k + 1, Tail(todo), 0,
                [h EXCEPT !.vertices_[v].index = N[v], !.vertices_[v].offset = -1])
<1> DEFINE order == MoveOrder(g, a, b, N)
           n == b - a
           to == N[v]
           cap == g.elem_capacity
           V == CellValues(g)
           h2 == [h EXCEPT !.vertices_[v].index = N[v], !.vertices_[v].offset = -1]
<1>1. k \in Nat /\ k + 1 \in 1 .. n /\ v \in a .. b - 1 /\ v \in Vertices /\ h.vertices_[v] = g.vertices_[v]
  BY NextIs
<1>2. /\ n \in Nat \ {0} /\ a .. b - 1 \subseteq Vertices
      /\ order \in [1 .. n -> a .. b - 1]
      /\ \A i, j \in 1 .. n : i # j => order[i] # order[j]
      /\ Movable(g, v, to) /\ RoomFor(g, v, to)
  BY <1>1, PlanIs
<1>3. Typed(g) /\ GraphShape(g) /\ g.vertices_ \in [Vertices -> Entry]
  BY DEF LoopPlan, Typed
<1>4. /\ k \in 0 .. n /\ todo = SubSeq(order, k + 1, n) /\ h.vertices_ = Arrived(g, order, N, k)
      /\ h.edges_ \in Arrays(cap, V)
      /\ h = [g EXCEPT !.edges_ = h.edges_, !.vertices_ = h.vertices_]
      /\ HalfMoved(g, v, to, written, A[k], h.edges_)
  BY DEF LoopAt, OnItsWay
<1>5. written = Size(g, v, to)
  BY <1>2, WritesAre DEF Movable, Size
<1>6. h.edges_ = MoveVertex(g, v, A[k], to, onseg_edges(g, v))
  <2>1. A[k] \in Arrays(cap, V)
    BY <1>4 DEF ArraysOf
  <2>2. Garbage \in V /\ LogValues(g.log_[SegmentOf(v)]) \subseteq V
    BY <1>1, <1>3, ContentsHold
  <2>3. HalfMoved(g, v, to, Size(g, v, to), A[k], h.edges_)
    BY <1>4, <1>5
  <2> HIDE DEF to, V
  <2> QED
    BY <1>2, <1>4, <2>1, <2>2, <2>3, HalfDone
<1>7. A[k + 1] = h.edges_
  <2>1. k \in 0 .. n - 1
    BY <1>1, <1>2
  <2>2. A[k + 1] = MoveVertex(g, v, A[k], to, OnSegment(g)[v])
    BY <2>1 DEF ArraysOf, MoveSteps, OnItsWay
  <2> QED
    BY <2>2, <1>1, <1>6 DEF OnSegment
<1>8. /\ h2.edges_ = h.edges_ /\ h2 = [g EXCEPT !.edges_ = h.edges_, !.vertices_ = h2.vertices_]
      /\ h2.vertices_ = [h.vertices_ EXCEPT ![v].index = N[v], ![v].offset = -1]
  <2> DEFINE F == [h.vertices_ EXCEPT ![v].index = N[v], ![v].offset = -1]
  <2>1. GraphShape(h) /\ h = [g EXCEPT !.edges_ = h.edges_, !.vertices_ = h.vertices_]
    BY <1>3, <1>4 DEF GraphShape
  <2>2. h2 = [h EXCEPT !.vertices_ = F]
    <3> DEFINE F1 == [h.vertices_ EXCEPT ![v].index = N[v]]
               F2 == [F1 EXCEPT ![v].offset = -1]
               h1 == [h EXCEPT !.vertices_[v].index = N[v]]
    <3>1. h2 = [h1 EXCEPT !.vertices_[v].offset = -1] /\ F = F2
      OBVIOUS
    <3>2. h1 = [h EXCEPT !.vertices_ = F1]
      OBVIOUS
    <3> HIDE DEF F1, h1
    <3>3. h1.vertices_ = F1
      BY <2>1, <3>2 DEF GraphShape
    <3>4. [h1 EXCEPT !.vertices_[v].offset = -1] = [h1 EXCEPT !.vertices_ = F2]
      BY <3>3
    <3> HIDE DEF F2, F, h2
    <3>5. [h1 EXCEPT !.vertices_ = F2] = [h EXCEPT !.vertices_ = F2]
      BY <2>1, <3>2 DEF GraphShape
    <3> QED
      BY <3>1, <3>4, <3>5
  <2> HIDE DEF F, h2
  <2>3. h2.vertices_ = F /\ h2.edges_ = h.edges_
    BY <2>1, <2>2 DEF GraphShape
  <2>4. h2 = [g EXCEPT !.edges_ = h.edges_, !.vertices_ = F]
    BY <1>3, <2>1, <2>2 DEF GraphShape
  <2> QED
    BY <2>3, <2>4 DEF F
<1>9. h2.vertices_ = [h.vertices_ EXCEPT ![v] = MovedTo(g.vertices_[v], to)]
  <2> DEFINE F == h.vertices_
             G == [F EXCEPT ![v].index = to, ![v].offset = -1]
  <2>1. F = [x \in Vertices |-> F[x]] /\ F[v] \in Entry /\ to \in Int
    BY <1>1, <1>2, <1>3, <1>4 DEF Arrived, Movable
  <2>2. h2.vertices_ = G
    BY <1>8
  <2>3. G = [F EXCEPT ![v] = MovedTo(F[v], to)]
    <3> HIDE DEF F, to
    <3> QED
      BY <2>1, <1>1, EntryMoved
  <2> QED
    BY <2>2, <2>3, <1>1
<1>10. h2.vertices_ = Arrived(g, order, N, k + 1)
  <2> SUFFICES ASSUME NEW w \in Vertices
               PROVE  h2.vertices_[w] = Arrived(g, order, N, k + 1)[w]
    BY <1>4, <1>9 DEF Arrived
  <2> HIDE DEF h2, order, n
  <2>1. order[k + 1] = v
    BY DEF order, OnItsWay
  <2>2. (\E j \in 1 .. k + 1 : order[j] = w) <=> (w = v \/ \E j \in 1 .. k : order[j] = w)
    BY <1>1, <2>1
  <2>3. CASE w = v
    BY <1>4, <1>9, <2>2, <2>3 DEF Arrived
  <2>4. CASE w # v
    BY <1>4, <1>9, <2>2, <2>4 DEF Arrived
  <2> QED
    BY <2>3, <2>4
<1>11. k + 1 \in 0 .. n /\ Tail(todo) = SubSeq(order, (k + 1) + 1, n)
  <2> HIDE DEF order, n
  <2>1. Remains(order, n, k, todo)
    BY <1>2, <1>4 DEF Remains
  <2>2. k < n
    BY DEF OnItsWay, n
  <2>3. Remains(order, n, k + 1, Tail(todo))
    BY <2>1, <2>2, NextRemains
  <2> QED
    BY <2>3 DEF Remains
<1>12. ASSUME k + 1 < n
       PROVE  LET w == order[(k + 1) + 1] IN
              0 \in 0 .. Size(g, w, N[w]) /\ HalfMoved(g, w, N[w], 0, A[k + 1], h.edges_)
  <2> DEFINE w == order[(k + 1) + 1]
  <2>1. w \in a .. b - 1
    <3> HIDE DEF order, n
    <3>1. (k + 1) + 1 \in 1 .. n
      BY <1>1, <1>12, <1>2
    <3> QED
      BY <1>2, <3>1
  <2>2. Movable(g, w, N[w])
    BY <2>1, PlanIs
  <2> HIDE DEF w
  <2>3. Size(g, w, N[w]) \in Nat
    BY <2>2, PlacesApart
  <2>4. 0 \in 0 .. Size(g, w, N[w]) /\ HalfMoved(g, w, N[w], 0, A[k + 1], h.edges_)
    BY <2>3, <1>7 DEF HalfMoved
  <2> QED
    BY <2>4 DEF w
<1> HIDE DEF h2
<1>13. LoopAt(g, a, b, N, A, k + 1, Tail(todo), 0, h2)
  BY <1>4, <1>7, <1>8, <1>10, <1>11, <1>12 DEF LoopAt
<1> QED
  BY <1>13 DEF h2

\* The order has all vertices of the plan.
LEMMA PlanReaches ==
  ASSUME NEW g, NEW a, NEW b, NEW N, LoopPlan(g, a, b, N)
  PROVE  \A v \in a .. b - 1 : \E j \in 1 .. b - a : MoveOrder(g, a, b, N)[j] = v
<1> DEFINE order == MoveOrder(g, a, b, N)
           n == b - a
<1>1. a \in Int /\ b \in Int
  BY DEF LoopPlan
<1>2. /\ n \in Nat /\ order \in [1 .. n -> a .. b - 1]
      /\ \A i, j \in 1 .. n : i # j => order[i] # order[j]
  BY PlanIs
<1>3. b - a = n
  OBVIOUS
<1> HIDE DEF order, n
<1>4. OnceEach(order, n, a, b)
  BY <1>2 DEF OnceEach
<1>5. \A v \in a .. b - 1 : \E j \in 1 .. n : order[j] = v
  BY <1>1, <1>2, <1>3, <1>4, ReachesAll
<1> QED
  BY <1>5 DEF order, n

\* The loop has the effect of rebalance_weighted.
LEMMA LoopDone ==
  ASSUME NEW g, NEW left \in Leaves, NEW right \in 1 .. leaf_count, left < right,
         NEW used, NEW total,
         NEW N, N = calculate_positions(g, first(left), first(right), total - used, used),
         LoopPlan(g, first(left), first(right), N), NEW A, ArraysOf(g, first(left), first(right), N, A),
         NEW k, NEW written, NEW h,
         LoopAt(g, first(left), first(right), N, A, k, <<>>, written, h)
  PROVE  /\ k = first(right) - first(left)
         /\ recount_segment_total(release_log(h, left, right), left, right) =
              rebalance_weighted(g, left * segment_size, right * segment_size, used, total)
<1> DEFINE a == first(left)
           b == first(right)
           n == b - a
           order == MoveOrder(g, a, b, N)
           W == [v \in Vertices |-> IF a <= v /\ v < b THEN MovedTo(g.vertices_[v], N[v]) ELSE g.vertices_[v]]
<1>1. a \in Vertices /\ b \in 0 .. num_vertices /\ a < b /\ SegmentOf(a) = left /\ b \div segment_size = right
  BY WindowOfLeaves
<1>2. /\ n \in Nat \ {0} /\ a .. b - 1 \subseteq Vertices
      /\ order \in [1 .. n -> a .. b - 1]
      /\ \A i, j \in 1 .. n : i # j => order[i] # order[j]
  BY PlanIs
<1>3. Typed(g) /\ GraphShape(g) /\ g.vertices_ \in [Vertices -> Entry]
  BY DEF LoopPlan, Typed
<1>4. /\ k \in 0 .. n /\ <<>> = SubSeq(order, k + 1, n) /\ h.vertices_ = Arrived(g, order, N, k)
      /\ h = [g EXCEPT !.edges_ = h.edges_, !.vertices_ = h.vertices_]
      /\ k = n => h.edges_ = A[n]
  BY DEF LoopAt
<1>5. k = n
  <2> HIDE DEF order, n
  <2>1. ~(k < n)
    <3>1. Remains(order, n, k, <<>>)
      BY <1>2, <1>4 DEF Remains
    <3> QED
      BY <3>1, SomeRemain
  <2> QED
    BY <1>2, <1>4, <2>1
<1>6. h.edges_ = Moved(g, order, N, OnSegment(g))
  BY <1>4, <1>5 DEF ArraysOf, MoveSteps
<1>7. h.vertices_ = W
  <2>1. \A v \in Vertices : (\E j \in 1 .. n : order[j] = v) <=> a <= v /\ v < b
    <3>1. a \in Int /\ b \in Int /\ \A v \in Vertices : v \in Int
      BY <1>1, TreeShape DEF Vertices
    <3>2. n \in Nat /\ b - a = n
      BY <1>2
    <3>3. \A v \in a .. b - 1 : \E j \in 1 .. n : order[j] = v
      BY PlanReaches
    <3> HIDE DEF a, b, order, n
    <3> QED
      BY <1>2, <3>1, <3>3
  <2> HIDE DEF n, order, a, b
  <2> QED
    BY <1>4, <1>5, <2>1 DEF Arrived
<1>8. h = [g EXCEPT !.edges_ = Moved(g, order, N, OnSegment(g)), !.vertices_ = W]
  BY <1>4, <1>6, <1>7
<1>9. [g EXCEPT !.edges_ = Moved(g, order, N, OnSegment(g)),
               !.vertices_ = [v \in Vertices |-> IF a <= v /\ v < b THEN MovedTo(@[v], N[v]) ELSE @[v]]] = h
  <2> HIDE DEF a, b
  <2> QED
    BY <1>3, <1>8 DEF GraphShape
<1>10. rebalance_data_V1(g, a, b, N) = release_log(h, left, right)
  <2> HIDE DEF a, b, n
  <2> QED
    BY <1>1, <1>9 DEF rebalance_data_V1, OnSegment, order
<1>11. QED
  <2>1. left * segment_size = a /\ right * segment_size = b
    BY DEF first
  <2> HIDE DEF a, b, n, order, W
  <2>2. rebalance_weighted(g, left * segment_size, right * segment_size, used, total) =
          recount_segment_total(release_log(h, left, right), left, right)
    BY <1>1, <1>10, <2>1 DEF rebalance_weighted, a, b
  <2> QED
    BY <1>5, <2>2 DEF n, a, b

-----------------------------------------------------------------------------
(***************************************************************************)
(* The rebalance in progress.                                               *)
(***************************************************************************)
\* The graph is typed, its counts are exact and its vertices are in place.
Good(g) == Typed(g) /\ CountsOf(g) /\ Sound(g)

TaskShape ==
  /\ task.active \in BOOLEAN
  /\ task.next \subseteq Sources
  /\ ~task.active => task = [active |-> FALSE, next |-> task.next, due |-> task.due] /\ task.due \subseteq Sources
  /\ task.active =>
       task = [active |-> TRUE, before |-> task.before, window |-> task.window, new_index |-> task.new_index,
               order |-> task.order, written |-> task.written, unflushed |-> task.unflushed,
               next |-> task.next, durable |-> task.durable]

\* The leaves left .. right - 1 of graph g move to the positions N.
Moves(g, left, right, N) ==
  /\ left \in Leaves /\ right \in 1 .. leaf_count /\ left < right
  /\ N = calculate_positions(g, first(left), first(right),
                             Total(g, left .. right - 1) - Used(g, left .. right - 1),
                             Used(g, left .. right - 1))
  /\ LoopPlan(g, first(left), first(right), N)

\* The loop has got somewhere between two writes.
LoopSomewhere(g, left, right, N, todo, written, h) ==
  \E A, k : /\ ArraysOf(g, first(left), first(right), N, A)
            /\ LoopAt(g, first(left), first(right), N, A, k, todo, written, h)

TaskRuns ==
  \E left, right :
    /\ task.window = left .. right - 1
    /\ Moves(task.before, left, right, task.new_index)
    /\ LoopSomewhere(task.before, left, right, task.new_index, task.order, task.written, graph)

\* The graph an insertion has left last.
Settled == IF task.active THEN task.before ELSE graph

LoopInv ==
  /\ TaskShape
  /\ task.active => phase = "ingesting" /\ TaskRuns
  /\ Ingesting => Good(Settled)
  /\ phase = "freed" => \E src \in Sources : NoRoomFor(src)
  /\ phase = "installed" => \A v \in Vertices : graph.vertices_[v].offset = -1

\* A source is a vertex.
LEMMA SourcesAreVertices == Sources \subseteq Vertices
<1>1. n_vertices \in Nat \ {0} /\ n_vertices <= num_vertices /\ num_vertices \in Nat
  BY EnoughVertices
<1>2. Sources \subseteq 0 .. n_vertices - 1
  BY UndoLogAssumption
<1> QED
  BY <1>1, <1>2 DEF Vertices

\* The least and the greatest leaf of a window.
LEMMA WindowEnds ==
  ASSUME NEW left \in Leaves, NEW right \in 1 .. leaf_count, left < right
  PROVE  Min(left .. right - 1) = left /\ Max(left .. right - 1) + 1 = right
<1> DEFINE W == left .. right - 1
<1>1. leaf_count \in Nat
  BY TreeShape
<1>2. left \in Nat /\ right \in Nat
  BY <1>1 DEF Leaves
<1>3. W \in SUBSET Nat /\ left \in W /\ right - 1 \in W /\ right - 1 \in Nat
      /\ \A x \in W : left <= x /\ x <= right - 1
  BY <1>2
<1> HIDE DEF W
<1>4. Min(W) \in W /\ Min(W) <= left
  BY <1>3, LeastIs
<1>5. Max(W) \in W /\ right - 1 <= Max(W)
  BY <1>3, GreatestIs
<1>6. Min(W) = left /\ Max(W) = right - 1
  <2>1. /\ Min(W) \in Nat /\ left <= Min(W) /\ Min(W) <= left
        /\ Max(W) \in Nat /\ Max(W) <= right - 1 /\ right - 1 <= Max(W)
    BY <1>3, <1>4, <1>5
  <2> QED
    BY <1>2, <1>3, <2>1
<1> QED
  BY <1>2, <1>6 DEF W

\* A window insert() looks at is a range of leaves.
LEMMA WindowAtIs ==
  ASSUME NEW src \in Vertices, NEW h \in 1 .. tree_height
  PROVE  \E left \in Leaves, right \in 1 .. leaf_count : left < right /\ WindowAt(src, h) = left .. right - 1
<1> DEFINE size == 2 ^ h
           s == SegmentOf(src)
           left == (s \div size) * size
           right == Min({left + size, leaf_count})
<1>1. leaf_count \in Nat \ {0} /\ s \in 0 .. leaf_count - 1
  BY TreeShape, LeafOfVertex DEF Leaves
<1>2. h \in 0 .. 30
  <2>1. last_bit_set(leaf_count) \in 0 .. 31
    BY <1>1, LastBitSet
  <2> QED
    BY <2>1 DEF tree_height, floor_log2
<1>3. size \in Nat \ {0}
  BY <1>2, PowerPositive
<1> HIDE DEF size, s
<1>4. s \div size \in Nat /\ left <= s /\ s < left + size
  BY <1>1, <1>3, Quotient
<1>5. left \in Nat
  <2>1. s \div size \in Nat /\ size \in Nat
    BY <1>3, <1>4
  <2> QED
    BY <2>1, Multiples
<1> DEFINE S == {left + size, leaf_count}
<1> HIDE DEF left
<1>6. S \in SUBSET Nat /\ S # {} /\ \A y \in S : left < y /\ y \in Nat
  BY <1>1, <1>3, <1>4, <1>5
<1> HIDE DEF S
<1>7. Min(S) \in S /\ \A y \in S : Min(S) <= y
  BY <1>6, LeastIs
<1>8. leaf_count \in S
  BY DEF S
<1>9. left \in Leaves /\ right \in 1 .. leaf_count /\ left < right
  <2>1. right \in Nat /\ left < right /\ right <= leaf_count
    BY <1>6, <1>7, <1>8 DEF S
  <2> HIDE DEF right
  <2> QED
    BY <1>1, <1>5, <2>1 DEF Leaves
<1>10. WindowAt(src, h) = left .. right - 1
  BY DEF WindowAt, left, right, size, s
<1> QED
  BY <1>9, <1>10

\* A rebalance begins.
LEMMA LoopStarts ==
  ASSUME NEW g, Good(g), NEW left \in Leaves, NEW right \in 1 .. leaf_count, left < right,
         NEW N, N = calculate_positions(g, first(left), first(right),
                                        Total(g, left .. right - 1) - Used(g, left .. right - 1),
                                        Used(g, left .. right - 1)),
         RebalanceAsserted(g, left * segment_size, right * segment_size,
                           Used(g, left .. right - 1), Total(g, left .. right - 1))
  PROVE  /\ Moves(g, left, right, N)
         /\ LoopSomewhere(g, left, right, N, MoveOrder(g, first(left), first(right), N), 0, g)
<1> DEFINE used == Used(g, left .. right - 1)
           total == Total(g, left .. right - 1)
<1>1. /\ used = SumOver(g.segment_edges_actual, left .. right - 1)
      /\ total = SumOver(g.segment_edges_total, left .. right - 1)
  BY DEF Used, Total
<1>2. PositionStep(first(left), first(right), total - used, used) > 0
  BY DEF RebalanceAsserted, PositionsAsserted, first
<1> HIDE DEF used, total
<1>3. Fits(g, first(left), first(right), N, NextIndex(g, first(right) - 1))
  BY <1>1, <1>2, WindowFits DEF used, total, Good
<1>4. first(left) \in Nat /\ first(right) \in Nat /\ first(left) < first(right) /\ first(right) <= num_vertices
  <2>1. first(left) \in Vertices /\ first(right) \in 0 .. num_vertices /\ first(left) < first(right)
    BY WindowOfLeaves
  <2>2. num_vertices \in Nat
    BY TreeShape
  <2> QED
    BY <2>1, <2>2 DEF Vertices
<1>5. LoopPlan(g, first(left), first(right), N)
  BY <1>3, <1>4 DEF LoopPlan, Good
<1>6. PICK A : /\ ArraysOf(g, first(left), first(right), N, A)
               /\ LoopAt(g, first(left), first(right), N, A, 0, MoveOrder(g, first(left), first(right), N), 0, g)
  BY <1>5, LoopBegins
<1>7. LoopSomewhere(g, left, right, N, MoveOrder(g, first(left), first(right), N), 0, g)
  BY <1>6, Zenon DEF LoopSomewhere
<1> QED
  BY <1>5, <1>7 DEF Moves

\* A rebalance of a window begins with a graph that is as the last insertion left it.
LEMMA BeginKeeps ==
  ASSUME LoopInv, phase = "ingesting", phase' = "ingesting", ~task.active, AssertionsHold',
         NEW left \in Leaves, NEW right \in 1 .. leaf_count, left < right,
         NEW next, next \subseteq Sources, Begin(left .. right - 1, next)
  PROVE  LoopInv'
<1> DEFINE W == left .. right - 1
           N == calculate_positions(graph, first(left), first(right), Total(graph, W) - Used(graph, W),
                                    Used(graph, W))
<1>1. Min(W) = left /\ Max(W) + 1 = right
  BY WindowEnds
<1>2. Good(graph)
  BY DEF LoopInv, Ingesting, Settled
<1>3. task' = NewTask(graph, W, next) /\ graph' = graph
  BY DEF Begin
<1> HIDE DEF W
<1>4. /\ task'.active = TRUE /\ task'.before = graph /\ task'.window = W /\ task'.new_index = N
      /\ task'.order = MoveOrder(graph, first(left), first(right), N) /\ task'.written = 0
      /\ task'.next = next
      /\ TaskShape'
  BY <1>1, <1>3 DEF NewTask, first, TaskShape
<1>5. RebalanceAsserted(graph, left * segment_size, right * segment_size, Used(graph, W), Total(graph, W))
  BY <1>1, <1>4 DEF AssertionsHold
<1>6. /\ Moves(graph, left, right, N)
      /\ LoopSomewhere(graph, left, right, N, MoveOrder(graph, first(left), first(right), N), 0, graph)
  <2> DEFINE M == calculate_positions(graph, first(left), first(right),
                                      Total(graph, left .. right - 1) - Used(graph, left .. right - 1),
                                      Used(graph, left .. right - 1))
  <2>1. N = M
    BY DEF W
  <2>2. RebalanceAsserted(graph, left * segment_size, right * segment_size,
                          Used(graph, left .. right - 1), Total(graph, left .. right - 1))
    BY <1>5 DEF W
  <2> QED
    BY <1>2, <2>1, <2>2, LoopStarts
<1> HIDE DEF N
<1>7. TaskRuns'
  BY <1>3, <1>4, <1>6 DEF TaskRuns, W
<1> QED
  BY <1>2, <1>3, <1>4, <1>7 DEF LoopInv, Ingesting, Settled

\* The writes of the vertex on its way are those of the vertex as it was.
LEMMA TaskVertex ==
  ASSUME NEW left, NEW right, task.window = left .. right - 1,
         Moves(task.before, left, right, task.new_index),
         NEW A, ArraysOf(task.before, first(left), first(right), task.new_index, A), NEW k,
         LoopAt(task.before, first(left), first(right), task.new_index, A, k, task.order, task.written, graph),
         task.order # <<>>
  PROVE  LET v == Head(task.order)
         IN /\ OnItsWay(task.before, first(left), first(right), task.new_index, k, v)
            /\ VertexWrites(v) = Writes(task.before, v, task.new_index[v])
<1> DEFINE g == task.before
           N == task.new_index
           a == first(left)
           b == first(right)
           order == MoveOrder(g, a, b, N)
           n == b - a
           v == Head(task.order)
<1>1. LoopPlan(g, a, b, N)
  BY DEF Moves
<1>2. n \in Nat \ {0} /\ order \in [1 .. n -> a .. b - 1]
  BY <1>1, PlanIs
<1>3. k \in 0 .. n /\ task.order = SubSeq(order, k + 1, n)
  BY DEF LoopAt
<1>4. k < n /\ v = order[k + 1]
  <2> HIDE DEF order, n
  <2>1. n \in Nat
    BY <1>2
  <2>2. Remains(order, n, k, task.order)
    BY <1>2, <1>3, <2>1 DEF Remains
  <2>3. task.order # <<>>
    OBVIOUS
  <2> QED
    <3>1. k < n
      BY <2>2, <2>3, SomeRemain
    <3> QED
      BY <2>2, <3>1, NextRemains
<1>5. Writes(g, v, N[v]) = ShiftWrites(graph.vertices_[v].index, N[v], onseg_edges(g, v)) \o MergeWrites(graph, v, N[v])
  <2>1. OnItsWay(g, a, b, N, k, v)
    BY <1>4 DEF OnItsWay
  <2>2. LoopAt(g, a, b, N, A, k, task.order, task.written, graph)
    OBVIOUS
  <2> HIDE DEF v, order, g, N, a, b, n
  <2> QED
    BY <1>1, <2>1, <2>2, NextIs
<1> QED
  BY <1>4, <1>5 DEF VertexWrites, OnItsWay

\* The write w of vertex v, the next of the loop after k vertices.
Writing(left, right, A, k, v, w) ==
  LET g == task.before
      a == first(left)
      b == first(right)
      N == task.new_index
  IN /\ task.window = left .. right - 1
     /\ Moves(g, left, right, N)
     /\ ArraysOf(g, a, b, N, A)
     /\ LoopAt(g, a, b, N, A, k, task.order, task.written, graph)
     /\ LoopAt(g, a, b, N, A, k, task.order, task.written + 1, graph')
     /\ OnItsWay(g, a, b, N, k, v)
     /\ NextWrite(g, v, N[v], task.written, w)
     /\ w.to \in 0 .. graph.elem_capacity - 1 /\ (w.left = TRUE \/ (w.left = FALSE /\ w.to > 0))
     /\ ulog' = (IF InRange(w) THEN ulog ELSE RangeFor(w))
     /\ graph'.edges_ = [graph.edges_ EXCEPT ![w.to] = ValueIn(graph.edges_, w)]
     /\ media' = [IF InRange(w) THEN media ELSE FlushRange(graph.edges_) EXCEPT
                    ![w.to] = @ \cup {ValueIn(graph.edges_, w)}]

\* The next cell.
LEMMA TaskWriting ==
  ASSUME LoopInv, WriteCell
  PROVE  /\ phase = "ingesting" /\ task.active /\ task' = [task EXCEPT !.written = @ + 1]
         /\ graph'.elem_capacity = graph.elem_capacity /\ graph'.log_ = graph.log_
         /\ graph.edges_ = [c \in 0 .. graph.elem_capacity - 1 |-> graph.edges_[c]]
         /\ \E left, right, A, k, v, w : Writing(left, right, A, k, v, w)
<1>1. task.active /\ task.order # <<>>
  BY DEF WriteCell
<1>2. PICK left, right :
        /\ task.window = left .. right - 1
        /\ Moves(task.before, left, right, task.new_index)
        /\ LoopSomewhere(task.before, left, right, task.new_index, task.order, task.written, graph)
  BY <1>1 DEF LoopInv, TaskRuns
<1> DEFINE g == task.before
           N == task.new_index
           a == first(left)
           b == first(right)
           v == Head(task.order)
<1>3. PICK A, k : ArraysOf(g, a, b, N, A) /\ LoopAt(g, a, b, N, A, k, task.order, task.written, graph)
  BY <1>2 DEF LoopSomewhere
<1>4. /\ OnItsWay(g, a, b, N, k, v)
      /\ VertexWrites(v) = Writes(g, v, N[v])
  BY <1>1, <1>2, <1>3, TaskVertex
<1> DEFINE w == VertexWrites(v)[task.written + 1]
           value == WrittenValue(graph, w)
<1>5. /\ task.written < Len(VertexWrites(v))
      /\ ulog' = IF InRange(w) THEN ulog ELSE RangeFor(w)
      /\ graph' = [graph EXCEPT !.edges_[w.to] = value]
      /\ media' = [IF InRange(w) THEN media ELSE FlushRange(graph.edges_) EXCEPT ![w.to] = @ \cup {value}]
      /\ task' = [task EXCEPT !.written = @ + 1]
  BY Zenon DEF WriteCell
<1>6. LoopPlan(g, a, b, N)
  BY <1>2 DEF Moves
<1>7. NextWrite(g, v, N[v], task.written, w)
  <2> HIDE DEF g, N, a, b, v
  <2>1. task.written \in Nat
    BY <1>3, <1>4, <1>6, NextIs
  <2> QED
    BY <1>4, <1>5, <2>1 DEF NextWrite
<1>8. /\ w.to \in 0 .. g.elem_capacity - 1 /\ (w.left = TRUE \/ (w.left = FALSE /\ w.to > 0))
      /\ LoopAt(g, a, b, N, A, k, task.order, task.written + 1,
                [graph EXCEPT !.edges_[w.to] = ValueIn(graph.edges_, w)])
  <2> HIDE DEF g, N, a, b, v, w
  <2> QED
    BY <1>3, <1>4, <1>6, <1>7, LoopWrites
<1>9. value = ValueIn(graph.edges_, w)
  BY Zenon DEF WrittenValue, ValueIn
<1> HIDE DEF w, value, v
<1>10. /\ graph.elem_capacity = g.elem_capacity /\ GraphShape(graph)
       /\ graph.edges_ \in Arrays(g.elem_capacity, CellValues(g))
  <2>1. GraphShape(g)
    BY <1>6 DEF LoopPlan, Typed
  <2>2. graph = [g EXCEPT !.edges_ = graph.edges_, !.vertices_ = graph.vertices_]
        /\ graph.edges_ \in Arrays(g.elem_capacity, CellValues(g))
    BY <1>3 DEF LoopAt
  <2> HIDE DEF g
  <2> QED
    BY <2>1, <2>2 DEF GraphShape
<1>11. /\ graph'.edges_ = [graph.edges_ EXCEPT ![w.to] = value] /\ graph'.elem_capacity = graph.elem_capacity
       /\ graph'.log_ = graph.log_
  BY <1>5, <1>10 DEF GraphShape
<1>12. graph.edges_ = [c \in 0 .. graph.elem_capacity - 1 |-> graph.edges_[c]]
  BY <1>10 DEF Arrays
<1>13. phase = "ingesting"
  BY <1>1 DEF LoopInv
<1>14. Writing(left, right, A, k, v, w)
  <2>1. LoopAt(g, a, b, N, A, k, task.order, task.written + 1, graph')
    BY <1>5, <1>8, <1>9
  <2>2. w.to \in 0 .. graph.elem_capacity - 1 /\ (w.left = TRUE \/ (w.left = FALSE /\ w.to > 0))
    BY <1>8, <1>10
  <2>3. graph'.edges_ = [graph.edges_ EXCEPT ![w.to] = ValueIn(graph.edges_, w)]
    BY <1>9, <1>11
  <2>4. media' = [IF InRange(w) THEN media ELSE FlushRange(graph.edges_) EXCEPT
                    ![w.to] = @ \cup {ValueIn(graph.edges_, w)}]
    BY <1>5, <1>9
  <2>5. /\ ulog' = (IF InRange(w) THEN ulog ELSE RangeFor(w))
        /\ OnItsWay(g, a, b, N, k, v) /\ NextWrite(g, v, N[v], task.written, w)
    BY <1>4, <1>5, <1>7
  <2>6. ArraysOf(g, a, b, N, A) /\ LoopAt(g, a, b, N, A, k, task.order, task.written, graph)
    BY <1>3
  <2>7. task.window = left .. right - 1 /\ Moves(g, left, right, N)
    BY <1>2
  <2> QED
    BY <2>1, <2>2, <2>3, <2>4, <2>5, <2>6, <2>7, Zenon DEF Writing
<1> QED
  BY <1>1, <1>5, <1>11, <1>12, <1>13, <1>14

\* The next cell.
LEMMA TaskWrite ==
  ASSUME LoopInv, WriteCell
  PROVE  /\ TaskRuns' /\ phase = "ingesting"
         /\ task' = [task EXCEPT !.written = @ + 1]
         /\ graph'.elem_capacity = graph.elem_capacity
         /\ graph.edges_ = [c \in 0 .. graph.elem_capacity - 1 |-> graph.edges_[c]]
         /\ \E w, value :
              /\ w.to \in 0 .. graph.elem_capacity - 1 /\ (w.left = TRUE \/ (w.left = FALSE /\ w.to > 0))
              /\ ulog' = IF InRange(w) THEN ulog ELSE RangeFor(w)
              /\ graph'.edges_ = [graph.edges_ EXCEPT ![w.to] = value]
              /\ media' = [IF InRange(w) THEN media ELSE FlushRange(graph.edges_) EXCEPT ![w.to] = @ \cup {value}]
<1>1. /\ phase = "ingesting" /\ task.active /\ task' = [task EXCEPT !.written = @ + 1]
      /\ graph'.elem_capacity = graph.elem_capacity
      /\ graph.edges_ = [c \in 0 .. graph.elem_capacity - 1 |-> graph.edges_[c]]
  BY TaskWriting
<1>2. PICK left, right, A, k, v, w : Writing(left, right, A, k, v, w)
  BY TaskWriting
<1> DEFINE g == task.before
           N == task.new_index
           a == first(left)
           b == first(right)
           todo == task.order
           i == task.written + 1
<1>3. /\ task.window = left .. right - 1 /\ Moves(g, left, right, N)
      /\ ArraysOf(g, a, b, N, A) /\ LoopAt(g, a, b, N, A, k, todo, i, graph')
  BY <1>2 DEF Writing
<1>4. /\ task'.window = task.window /\ task'.before = g /\ task'.new_index = N /\ task'.order = todo
      /\ task'.written = i
  <2>1. TaskShape
    BY DEF LoopInv
  <2> QED
    BY <1>1, <2>1 DEF TaskShape
<1>5. TaskRuns'
  <2>1. LoopSomewhere(g, left, right, N, todo, i, graph')
    BY <1>3 DEF LoopSomewhere
  <2> HIDE DEF g, N, todo, i
  <2> QED
    BY <1>3, <1>4, <2>1 DEF TaskRuns
<1>6. /\ w.to \in 0 .. graph.elem_capacity - 1 /\ (w.left = TRUE \/ (w.left = FALSE /\ w.to > 0))
      /\ ulog' = (IF InRange(w) THEN ulog ELSE RangeFor(w))
      /\ graph'.edges_ = [graph.edges_ EXCEPT ![w.to] = ValueIn(graph.edges_, w)]
      /\ media' = [IF InRange(w) THEN media ELSE FlushRange(graph.edges_) EXCEPT
                     ![w.to] = @ \cup {ValueIn(graph.edges_, w)}]
  BY <1>2 DEF Writing
<1> QED
  BY <1>1, <1>5, <1>6

\* The vertex has arrived.
LEMMA TaskArrives ==
  ASSUME LoopInv, FinishVertex
  PROVE  /\ TaskRuns' /\ phase = "ingesting"
         /\ task' = [task EXCEPT !.order = Tail(@), !.written = 0]
         /\ graph'.edges_ = graph.edges_ /\ graph'.elem_capacity = graph.elem_capacity
         /\ graph'.log_ = graph.log_
<1>1. task.active /\ task.order # <<>>
  BY DEF FinishVertex
<1>2. PICK left, right :
        /\ task.window = left .. right - 1
        /\ Moves(task.before, left, right, task.new_index)
        /\ LoopSomewhere(task.before, left, right, task.new_index, task.order, task.written, graph)
  BY <1>1 DEF LoopInv, TaskRuns
<1> DEFINE g == task.before
           N == task.new_index
           a == first(left)
           b == first(right)
           v == Head(task.order)
<1>3. PICK A, k : ArraysOf(g, a, b, N, A) /\ LoopAt(g, a, b, N, A, k, task.order, task.written, graph)
  BY <1>2 DEF LoopSomewhere
<1>4. /\ OnItsWay(g, a, b, N, k, v)
      /\ VertexWrites(v) = Writes(g, v, N[v])
  BY <1>1, <1>2, <1>3, TaskVertex
<1>5. /\ task.written = Len(VertexWrites(v))
      /\ graph' = [graph EXCEPT !.vertices_[v].index = N[v], !.vertices_[v].offset = -1]
      /\ task' = [task EXCEPT !.order = Tail(@), !.written = 0]
  BY Zenon DEF FinishVertex
<1>6. LoopPlan(g, a, b, N)
  BY <1>2 DEF Moves
<1>7. LoopAt(g, a, b, N, A, k + 1, Tail(task.order), 0, graph')
  <2> HIDE DEF g, N, a, b, v
  <2>1. task.written = Len(Writes(g, v, N[v]))
    BY <1>4, <1>5
  <2>2. LoopAt(g, a, b, N, A, k + 1, Tail(task.order), 0,
               [graph EXCEPT !.vertices_[v].index = N[v], !.vertices_[v].offset = -1])
    BY <1>3, <1>4, <1>6, <2>1, NextVertex
  <2> QED
    BY <1>5, <2>2
<1>9. /\ task'.window = task.window /\ task'.before = g /\ task'.new_index = N /\ task'.order = Tail(task.order)
      /\ task'.written = 0
  <2>1. TaskShape
    BY DEF LoopInv
  <2> QED
    BY <1>1, <1>5, <2>1 DEF TaskShape
<1>10. TaskRuns'
  <2>2. LoopSomewhere(g, left, right, N, Tail(task.order), 0, graph')
    BY <1>3, <1>7 DEF LoopSomewhere
  <2> HIDE DEF g, N
  <2>3. task'.window = left .. right - 1 /\ Moves(g, left, right, N)
    BY <1>2, <1>9 DEF g, N
  <2> QED
    BY <1>9, <2>2, <2>3 DEF TaskRuns
<1>11. GraphShape(graph)
  <2>1. GraphShape(g)
    BY <1>6 DEF LoopPlan, Typed
  <2>2. graph = [g EXCEPT !.edges_ = graph.edges_, !.vertices_ = graph.vertices_]
    BY <1>3 DEF LoopAt
  <2> HIDE DEF g
  <2> QED
    BY <2>1, <2>2 DEF GraphShape
<1>12. graph'.edges_ = graph.edges_ /\ graph'.elem_capacity = graph.elem_capacity /\ graph'.log_ = graph.log_
  BY <1>5, <1>11 DEF GraphShape
<1>13. phase = "ingesting"
  BY <1>1 DEF LoopInv
<1> QED
  BY <1>5, <1>10, <1>12, <1>13

\* The loop ends with the graph rebalance_weighted makes.
LEMMA TaskEnds ==
  ASSUME LoopInv, FinishRebalance
  PROVE  /\ phase = "ingesting" /\ task' = IdleFor(task.next)
         /\ \E left, right :
              /\ task.window = left .. right - 1 /\ left = Min(task.window) /\ right = Max(task.window) + 1
              /\ Moves(task.before, left, right, task.new_index)
              /\ graph' = rebalance_weighted(task.before, left * segment_size, right * segment_size,
                                             Used(task.before, task.window), Total(task.before, task.window))
<1>1. task.active /\ task.order = <<>>
  BY DEF FinishRebalance
<1>2. PICK left, right :
        /\ task.window = left .. right - 1
        /\ Moves(task.before, left, right, task.new_index)
        /\ LoopSomewhere(task.before, left, right, task.new_index, task.order, task.written, graph)
  BY <1>1 DEF LoopInv, TaskRuns
<1> DEFINE g == task.before
           N == task.new_index
           used == Used(g, left .. right - 1)
           total == Total(g, left .. right - 1)
<1>3. PICK A, k : /\ ArraysOf(g, first(left), first(right), N, A)
                  /\ LoopAt(g, first(left), first(right), N, A, k, <<>>, task.written, graph)
  BY <1>1, <1>2 DEF LoopSomewhere
<1>4. /\ left \in Leaves /\ right \in 1 .. leaf_count /\ left < right
      /\ N = calculate_positions(g, first(left), first(right), total - used, used)
      /\ LoopPlan(g, first(left), first(right), N)
  BY <1>2 DEF Moves
<1>5. left = Min(task.window) /\ right = Max(task.window) + 1
  BY <1>2, <1>4, WindowEnds
<1>6. graph' = recount_segment_total(release_log(graph, left, right), left, right) /\ task' = IdleFor(task.next)
  BY <1>5 DEF FinishRebalance
<1>7. recount_segment_total(release_log(graph, left, right), left, right) =
        rebalance_weighted(g, left * segment_size, right * segment_size, used, total)
  <2> HIDE DEF g, N, used, total
  <2> QED
    BY <1>3, <1>4, LoopDone
<1>8. phase = "ingesting"
  BY <1>1 DEF LoopInv
<1> QED
  BY <1>2, <1>5, <1>6, <1>7, <1>8

-----------------------------------------------------------------------------
(***************************************************************************)
(* What an insertion and a resize leave is good again.                      *)
(***************************************************************************)
\* A rebalance for which there is room.
LEMMA RebalanceGood ==
  ASSUME NEW g, Good(g), NEW left, NEW right, NEW N, Moves(g, left, right, N),
         NEW h, h = rebalance_weighted(g, left * segment_size, right * segment_size,
                                       Used(g, left .. right - 1), Total(g, left .. right - 1))
  PROVE  Good(h) /\ SameEdges(g, h) /\ Rebalanced(g, left, right, N, h)
<1> DEFINE used == Used(g, left .. right - 1)
           total == Total(g, left .. right - 1)
<1>1. /\ left \in Leaves /\ right \in 1 .. leaf_count /\ left < right
      /\ N = calculate_positions(g, first(left), first(right), total - used, used)
      /\ LoopPlan(g, first(left), first(right), N)
  BY DEF Moves
<1>2. Typed(g) /\ CountsOf(g) /\ Sound(g)
  BY DEF Good
<1>3. used \in Nat /\ total \in Int
  <2>1. /\ used = SumOver(g.segment_edges_actual, left .. right - 1)
        /\ total = SumOver(g.segment_edges_total, left .. right - 1)
    BY DEF Used, Total
  <2> HIDE DEF used, total
  <2>2. used \in Nat /\ total = FirstIndex(g, right) - FirstIndex(g, left)
        /\ FirstIndex(g, right) \in Int /\ FirstIndex(g, left) \in Int
    BY <1>1, <1>2, <2>1, WindowUse
  <2> QED
    BY <2>2
<1> HIDE DEF used, total
<1>4. h = rebalance_weighted(g, left * segment_size, right * segment_size, used, total)
  BY DEF used, total
<1>5. Rebalanced(g, left, right, N, h)
  BY <1>1, <1>2, <1>3, <1>4, RebalanceIs
<1>6. CountsOf(h)
  BY <1>1, <1>2, <1>3, <1>4, RebalanceCounts
<1>7. Fits(g, first(left), first(right), N, NextIndex(g, first(right) - 1))
  BY <1>1 DEF LoopPlan
<1>8. Sound(h) /\ SameEdges(g, h)
  BY <1>1, <1>2, <1>5, <1>7, RebalanceSound
<1>9. Typed(h)
  BY <1>5 DEF Rebalanced
<1> QED
  BY <1>5, <1>6, <1>8, <1>9 DEF Good

\* An insertion with room.
LEMMA InsertGood ==
  ASSUME NEW g, Good(g), NEW src \in Vertices, ~LogIsFull(g, src), NEW dst,
         NEW h, h = do_insertion(g, src, dst)
  PROVE  Good(h) /\ Inserted(g, src, dst, h) /\ OneEdgeMore(g, src, dst, h)
<1>1. Typed(g) /\ CountsOf(g) /\ Sound(g)
  BY DEF Good
<1>2. Ready(g, src) = g
  BY DEF Ready
<1>3. Inserted(g, src, dst, h)
  BY <1>1, <1>2, InsertionIs
<1>4. CountsOf(h)
  BY <1>1, <1>3, InsertedCounts
<1>5. Sound(h) /\ OneEdgeMore(g, src, dst, h)
  BY <1>1, <1>3, InsertSound
<1>6. Typed(h)
  BY <1>3 DEF Inserted
<1> QED
  BY <1>3, <1>4, <1>5, <1>6 DEF Good

\* Edges of a graph all of whose edges are in cells do not depend on its logs.
LEMMA LogsReplaced ==
  ASSUME NEW g, Good(g), \A v \in Vertices : g.vertices_[v].offset = -1,
         NEW L, L = [s \in Leaves |-> L[s]], \A s \in Leaves : Linked(L[s]) /\ Len(L[s]) <= MAX_LOG_ENTRIES,
         \A s \in Leaves : Len(L[s]) \in Nat,
         NEW h, h = [g EXCEPT !.log_ = L]
  PROVE  Good(h) /\ SameEdges(g, h)
<1>1. Typed(g) /\ CountsOf(g) /\ Sound(g) /\ GraphShape(g)
  BY DEF Good, Typed
<1>2. /\ h.vertices_ = g.vertices_ /\ h.edges_ = g.edges_ /\ h.log_ = L /\ h.elem_capacity = g.elem_capacity
      /\ h.num_edges_ = g.num_edges_ /\ h.segment_edges_actual = g.segment_edges_actual
      /\ h.segment_edges_total = g.segment_edges_total /\ GraphShape(h)
  BY <1>1 DEF GraphShape
<1>3. LogsTyped(h)
  <2> SUFFICES ASSUME NEW v \in Vertices PROVE -1 \in -1 .. Len(L[SegmentOf(v)]) - 1
    BY <1>2 DEF LogsTyped
  <2>1. SegmentOf(v) \in Leaves
    BY LeafOfVertex
  <2>2. Len(L[SegmentOf(v)]) \in Nat
    BY <2>1
  <2> QED
    BY <2>2
<1>4. Typed(h)
  BY <1>1, <1>2, <1>3 DEF Typed
<1>5. \A r : FirstIndex(h, r) = FirstIndex(g, r)
  BY <1>2 DEF FirstIndex
<1>6. Degrees(h) = Degrees(g)
  BY <1>2 DEF Degrees
<1>7. CountsOf(h)
  BY <1>1, <1>2, <1>5, <1>6 DEF CountsOf
<1>8. \A v \in Vertices : /\ onseg_edges(g, v) = g.vertices_[v].degree /\ Len(log_chain(g, v)) = 0
                          /\ onseg_edges(h, v) = g.vertices_[v].degree /\ Len(log_chain(h, v)) = 0
  <2> TAKE v \in Vertices
  <2>1. LogsTyped(g)
    BY <1>1 DEF Typed
  <2> QED
    BY <1>2, <1>3, <2>1, AllInCells
<1>9. \A v \in Vertices : NextIndex(h, v) = NextIndex(g, v)
  BY <1>2 DEF NextIndex
<1>10. Sound(h)
  BY <1>1, <1>2, <1>8, <1>9 DEF Sound, InPlace
<1>11. SameEdges(g, h)
  <2> SUFFICES ASSUME NEW v \in Vertices, NEW j \in 0 .. g.vertices_[v].degree - 1
               PROVE  EdgeAt(h, v, j) = EdgeAt(g, v, j)
    BY <1>2 DEF SameEdges
  <2>1. g.vertices_[v].degree \in Nat
    BY <1>1 DEF Typed, Entry
  <2>2. j < onseg_edges(g, v) /\ j < onseg_edges(h, v)
    <3>1. onseg_edges(g, v) = g.vertices_[v].degree /\ onseg_edges(h, v) = g.vertices_[v].degree
      BY <1>8
    <3>2. j < g.vertices_[v].degree
      BY <2>1
    <3> QED
      BY <3>1, <3>2
  <2> QED
    BY <1>2, <2>2 DEF EdgeAt
<1> QED
  BY <1>4, <1>7, <1>10, <1>11 DEF Good

\* The new array is installed while the logs are still full.
LEMMA ResizeGood ==
  ASSUME NEW g, Good(g),
         PositionsAsserted([g EXCEPT !.elem_capacity = 2 * @], 0, num_vertices,
                           2 * g.elem_capacity - g.num_edges_, g.num_edges_),
         NEW h, h = [resize_V1(g) EXCEPT !.log_ = g.log_]
  PROVE  /\ Good(h) /\ SameEdges(g, h) /\ \A v \in Vertices : h.vertices_[v].offset = -1
         /\ h.edges_ = resize_V1(g).edges_
<1>1. Typed(g) /\ CountsOf(g) /\ Sound(g) /\ LogsTyped(g) /\ GraphShape(g)
  BY DEF Good, Typed
<1> DEFINE r == resize_V1(g)
<1>2. Resized(g, ResizePositions(g), r) /\ CountsOf(r)
  BY <1>1, ResizeIs
<1>3. Sound(r) /\ SameEdges(g, r)
  BY <1>1, AssertedResize
<1> HIDE DEF r
<1>4. Good(r)
  BY <1>2, <1>3 DEF Good, Resized
<1>5. r.vertices_ = [v \in Vertices |-> MovedTo(g.vertices_[v], ResizePositions(g)[v])] /\ GraphShape(r)
  BY <1>2 DEF Resized, Typed
<1>6. \A v \in Vertices : r.vertices_[v].offset = -1
  BY <1>5 DEF MovedTo
<1>7. \A s \in Leaves : Linked(g.log_[s]) /\ Len(g.log_[s]) <= MAX_LOG_ENTRIES /\ Len(g.log_[s]) \in Nat
  <2> TAKE s \in Leaves
  <2>1. Linked(g.log_[s]) /\ Len(g.log_[s]) <= MAX_LOG_ENTRIES
    BY <1>1 DEF LogsTyped
  <2>2. PICK S : g.log_[s] \in Seq(S)
    BY <2>1 DEF Linked, IsSequence
  <2> QED
    BY <2>1, <2>2
<1>8. g.log_ = [s \in Leaves |-> g.log_[s]]
  BY <1>1 DEF GraphShape
<1>9. h = [r EXCEPT !.log_ = g.log_]
  BY DEF r
<1>10. Good(h) /\ SameEdges(r, h)
  BY <1>4, <1>6, <1>7, <1>8, <1>9, LogsReplaced
<1>11. SameEdges(g, h)
  BY <1>3, <1>10 DEF SameEdges
<1> QED
  BY <1>5, <1>6, <1>9, <1>10, <1>11 DEF GraphShape, r

\* Then the logs are released.
LEMMA ReleaseGood ==
  ASSUME NEW g, Good(g), \A v \in Vertices : g.vertices_[v].offset = -1,
         NEW h, h = release_log(g, 0, leaf_count)
  PROVE  Good(h) /\ SameEdges(g, h)
<1> DEFINE L == [s \in Leaves |-> <<>>]
<1>1. GraphShape(g)
  BY DEF Good, Typed
<1>2. h = [g EXCEPT !.log_ = L]
  <2>1. \A s \in Leaves : 0 <= s /\ s < leaf_count
    BY TreeShape DEF Leaves
  <2> QED
    BY <1>1, <2>1 DEF release_log, GraphShape
<1>3. \A s \in Leaves : Linked(L[s]) /\ Len(L[s]) <= MAX_LOG_ENTRIES /\ Len(L[s]) \in Nat
  <2>1. Linked(<<>>) /\ Len(<<>>) = 0 /\ MAX_LOG_ENTRIES \in Nat
    BY EmptyLinked, PmaAssumption
  <2> QED
    BY <2>1
<1>4. L = [s \in Leaves |-> L[s]]
  OBVIOUS
<1> HIDE DEF L
<1> QED
  BY <1>2, <1>3, <1>4, LogsReplaced

-----------------------------------------------------------------------------
(***************************************************************************)
(* The invariant of the loop is inductive.                                  *)
(***************************************************************************)
LEMMA LoopInitial == PersistInit => LoopInv
<1> SUFFICES ASSUME PersistInit PROVE LoopInv
  OBVIOUS
<1> USE DEF PersistInit, UndoInit
<1>1. TaskShape /\ ~task.active
  BY DEF TaskShape, Idle, IdleFor
<1>2. Good(graph)
  BY BaseIs, BaseSound DEF Good
<1> QED
  BY <1>1, <1>2 DEF LoopInv, Settled, Ingesting

\* The three operations of an ingestion outside a rebalance.
LEMMA InsertKeepsLoop ==
  ASSUME LoopInv, phase = "ingesting", phase' = "ingesting", NEW src \in Sources, InsertNow(src)
  PROVE  LoopInv'
<1>1. ~task.active /\ ~LogIsFull(graph, src) /\ graph' = do_insertion(graph, src, FreshDst)
  BY DEF InsertNow, Free
<1>2. Good(graph)
  BY <1>1 DEF LoopInv, Settled, Ingesting
<1>3. Good(graph')
  BY <1>1, <1>2, InsertGood, SourcesAreVertices
<1>4. TaskShape' /\ ~task'.active
  <2>1. PICK d : d \subseteq Sources /\ task' = [Idle EXCEPT !.due = d]
    BY DEF InsertNow
  <2> QED
    BY <2>1 DEF TaskShape, Idle, IdleFor
<1> QED
  BY <1>3, <1>4 DEF LoopInv, Settled, Ingesting

\* A rebalance of a leaf whose log is full.
LEMMA BeginLeafKeepsLoop ==
  ASSUME LoopInv, phase = "ingesting", phase' = "ingesting", AssertionsHold', NEW src \in Sources, BeginLeaf(src)
  PROVE  LoopInv'
<1> DEFINE s == SegmentOf(src)
<1>1. ~task.active /\ Begin({s}, {src})
  BY DEF BeginLeaf, Free
<1>2. s \in Leaves /\ leaf_count \in Nat
  BY SourcesAreVertices, LeafOfVertex, TreeShape
<1> HIDE DEF s
<1>3. s + 1 \in 1 .. leaf_count /\ s < s + 1 /\ s .. (s + 1) - 1 = {s}
  BY <1>2 DEF Leaves
<1>4. Begin(s .. (s + 1) - 1, {src})
  BY <1>1, <1>3
<1> QED
  BY <1>1, <1>2, <1>3, <1>4, BeginKeeps

\* A rebalance of a window around a full leaf.
LEMMA BeginWindowKeepsLoop ==
  ASSUME LoopInv, phase = "ingesting", phase' = "ingesting", AssertionsHold', NEW src \in Sources, BeginWindow(src)
  PROVE  LoopInv'
<1> DEFINE H == GoodHeights(graph, src)
<1>1. ~task.active /\ H # {} /\ Begin(WindowAt(src, Min(H)), Sources)
  BY DEF BeginWindow
<1>2. H \subseteq 1 .. tree_height
  BY DEF GoodHeights
<1> HIDE DEF H
<1>3. Min(H) \in 1 .. tree_height
  <2>1. H \in SUBSET Nat
    BY <1>2
  <2> QED
    BY <1>1, <1>2, <2>1, LeastIs
<1>4. PICK left \in Leaves, right \in 1 .. leaf_count :
        left < right /\ WindowAt(src, Min(H)) = left .. right - 1
  BY <1>3, SourcesAreVertices, WindowAtIs
<1>5. Begin(left .. right - 1, Sources)
  BY <1>1, <1>4
<1> QED
  BY <1>1, <1>4, <1>5, BeginKeeps

\* A rebalance.
LEMMA StepKeepsLoop ==
  ASSUME LoopInv, phase = "ingesting", phase' = "ingesting", RebalanceStep
  PROVE  LoopInv'
<1>1. task.active /\ TaskShape /\ Good(task.before)
  BY DEF LoopInv, RebalanceStep, WriteCell, FinishVertex, FinishRebalance, Settled, Ingesting
<1>2. CASE WriteCell
  <2>1. TaskRuns' /\ task' = [task EXCEPT !.written = @ + 1]
    BY <1>2, TaskWrite
  <2>2. TaskShape' /\ task'.before = task.before /\ task'.active
    BY <1>1, <2>1 DEF TaskShape
  <2> QED
    BY <1>1, <2>1, <2>2 DEF LoopInv, Settled, Ingesting
<1>3. CASE FinishVertex
  <2>1. TaskRuns' /\ task' = [task EXCEPT !.order = Tail(@), !.written = 0]
    BY <1>3, TaskArrives
  <2>2. TaskShape' /\ task'.before = task.before /\ task'.active
    BY <1>1, <2>1 DEF TaskShape
  <2> QED
    BY <1>1, <2>1, <2>2 DEF LoopInv, Settled, Ingesting
<1>4. CASE FinishRebalance
  <2>1. PICK left, right :
          /\ task' = IdleFor(task.next) /\ task.window = left .. right - 1
          /\ Moves(task.before, left, right, task.new_index)
          /\ graph' = rebalance_weighted(task.before, left * segment_size, right * segment_size,
                                         Used(task.before, task.window), Total(task.before, task.window))
    BY <1>4, TaskEnds
  <2>2. Good(graph')
    BY <1>1, <2>1, RebalanceGood
  <2>3. TaskShape' /\ ~task'.active
    BY <1>1, <2>1 DEF TaskShape, IdleFor
  <2> QED
    BY <2>2, <2>3 DEF LoopInv, Settled, Ingesting
<1> QED
  BY <1>2, <1>3, <1>4 DEF RebalanceStep

\* A resize.
LEMMA ResizeKeepsLoop ==
  ASSUME LoopInv, AssertionsHold, ResizeFree \/ ResizeInstall \/ ResizeRecord
  PROVE  LoopInv'
<1>1. CASE ResizeFree
  BY <1>1 DEF ResizeFree, rebalanceVars, LoopInv, TaskShape, Settled, Ingesting, NoRoomFor
<1>2. CASE ResizeInstall
  <2>1. PICK src \in Sources : NoRoomFor(src)
    BY <1>2 DEF ResizeInstall, LoopInv
  <2>2. ~task.active /\ Good(graph) /\ TaskShape
    BY <1>2, <2>1 DEF ResizeInstall, LoopInv, NoRoomFor, Settled, Ingesting
  <2>3. PositionsAsserted([graph EXCEPT !.elem_capacity = 2 * @], 0, num_vertices,
                          2 * graph.elem_capacity - graph.num_edges_, graph.num_edges_)
    BY <1>2, <2>1 DEF AssertionsHold, ResizeInstall
  <2>4. graph' = [resize_V1(graph) EXCEPT !.log_ = graph.log_] /\ task' = task /\ phase' = "installed"
    BY <1>2 DEF ResizeInstall
  <2>5. Good(graph') /\ \A v \in Vertices : graph'.vertices_[v].offset = -1
    BY <2>2, <2>3, <2>4, ResizeGood
  <2> QED
    BY <2>2, <2>4, <2>5 DEF LoopInv, Settled, Ingesting, TaskShape
<1>3. CASE ResizeRecord
  <2>1. /\ graph' = release_log(graph, 0, leaf_count) /\ task' = Idle /\ phase = "installed"
        /\ phase' = "ingesting"
    BY <1>3 DEF ResizeRecord
  <2>2. Good(graph) /\ \A v \in Vertices : graph.vertices_[v].offset = -1
    BY <2>1 DEF LoopInv, Settled, Ingesting
  <2>3. Good(graph')
    BY <2>1, <2>2, ReleaseGood
  <2>4. TaskShape' /\ ~task'.active
    BY <2>1 DEF TaskShape, Idle, IdleFor
  <2> QED
    BY <2>1, <2>3, <2>4 DEF LoopInv, Settled, Ingesting
<1> QED
  BY <1>1, <1>2, <1>3

\* Shutdown, death and reopening.
LEMMA RestKeepsLoop ==
  ASSUME LoopInv, Close \/ CopyField \/ FlushField \/ CloseDone \/ Kill \/ ReopenBackup \/ ReopenRecovery \/ ReopenFails
  PROVE  LoopInv'
<1>1. CASE Kill
  <2>1. phase' = "off" /\ task' = Idle
    BY <1>1 DEF Kill
  <2> QED
    BY <2>1 DEF LoopInv, Settled, Ingesting, TaskShape, Idle, IdleFor
<1>2. CASE ~Kill
  <2>1. phase' \in {"closing", "off", "open", "failed"} /\ task' = task /\ ~task.active
    BY <1>2 DEF LoopInv, Close, CopyField, FlushField, CloseDone, ReopenBackup, ReopenRecovery, ReopenFails,
                rebalanceVars, Free
  <2> QED
    BY <2>1 DEF LoopInv, Settled, Ingesting, TaskShape
<1> QED
  BY <1>1, <1>2

\* Every step, as long as no assert() fails.
LEMMA LoopInductive ==
  LoopInv /\ AssertionsHold /\ AssertionsHold' /\ [PersistNext]_persistVars => LoopInv'
<1> SUFFICES ASSUME LoopInv, AssertionsHold, AssertionsHold', [PersistNext]_persistVars PROVE LoopInv'
  OBVIOUS
<1>1. CASE UNCHANGED persistVars
  BY <1>1 DEF persistVars, LoopInv, TaskShape, TaskRuns, Settled, Ingesting, NoRoomFor
<1>2. CASE Ingest
  <2>1. phase = "ingesting" /\ phase' = "ingesting"
    BY <1>2 DEF Ingest, poolVars
  <2> QED
    BY <1>2, <2>1, InsertKeepsLoop, BeginLeafKeepsLoop, BeginWindowKeepsLoop, StepKeepsLoop DEF Ingest
<1> QED
  BY <1>1, <1>2, ResizeKeepsLoop, RestKeepsLoop DEF PersistNext

\* The loop is always somewhere between two writes.
LEMMA LoopInvariant == PersistSpec /\ []AssertionsHold => []LoopInv
BY LoopInitial, LoopInductive, PTL DEF PersistSpec

\* rebalance_data_V1 has the effect Pma gives it as one step: the cells
\* it writes one by one, the vertices that arrive one by one and the logs it
\* releases last leave the graph of rebalance_weighted.
THEOREM LoopHasOneEffect == PersistSpec /\ []AssertionsHold => LoopIsOneStep
<1>1. LoopInv /\ FinishRebalance =>
        graph' = rebalance_weighted(task.before, Min(task.window) * segment_size,
                                    (Max(task.window) + 1) * segment_size,
                                    Used(task.before, task.window),
                                    Total(task.before, task.window))
  BY TaskEnds
<1> QED
  BY <1>1, LoopInvariant, PTL DEF LoopIsOneStep

-----------------------------------------------------------------------------
(***************************************************************************)
(* What is not flushed is in the range of the undo log.                     *)
(***************************************************************************)
\* What a rebalance has written and not flushed is in its range, if it has one.
RangeInv ==
  /\ Ingesting => media = [c \in 0 .. graph.elem_capacity - 1 |-> media[c]]
  /\ task.active =>
       /\ ulog.st \in Int /\ ulog.nd \in Int
       /\ Dirty \subseteq task.unflushed \cup ulog.st .. ulog.nd
       /\ ulog.st = ulog.nd => Dirty \subseteq task.unflushed

\* The range load_into_ulog takes to be saved has the cell, and is not empty.
LEMMA RangeHolds ==
  ASSUME NEW w, w.to \in 0 .. graph.elem_capacity - 1, w.left = TRUE \/ (w.left = FALSE /\ w.to > 0),
         graph.elem_capacity \in Nat
  PROVE  /\ RangeFor(w).st \in Int /\ RangeFor(w).nd \in Int /\ RangeFor(w).st # RangeFor(w).nd
         /\ w.to \in RangeFor(w).st .. RangeFor(w).nd
         /\ RangeFor(w).nd - RangeFor(w).st <= MAX_ULOG_ENTRIES
<1>1. MAX_ULOG_ENTRIES \in Nat \ {0} /\ w.to \in Nat /\ w.to < graph.elem_capacity
  BY UndoLogAssumption
<1> DEFINE M == MAX_ULOG_ENTRIES
           S == {M, graph.elem_capacity - w.to}
           T == {w.to - M, 0}
<1>2. CASE w.left = TRUE
  <2>1. RangeFor(w).st = w.to /\ RangeFor(w).nd = w.to + Min(S)
    BY <1>2 DEF RangeFor
  <2>2. S \in SUBSET Nat /\ S # {} /\ \A x \in S : x > 0 /\ x \in Nat
    BY <1>1
  <2> HIDE DEF S
  <2>3. Min(S) \in S
    BY <2>2, LeastIs
  <2>4. Min(S) > 0 /\ Min(S) \in Nat /\ Min(S) <= M
    BY <1>1, <2>2, <2>3, LeastIs DEF S
  <2> QED
    BY <1>1, <2>1, <2>4
<1>3. CASE w.left = FALSE /\ w.to > 0
  <2>1. RangeFor(w).st = Max(T) /\ RangeFor(w).nd = w.to
    BY <1>3 DEF RangeFor
  <2>2. Max(T) \in Int /\ Max(T) < w.to /\ Max(T) >= w.to - M
    <3>1. \E x \in T : \A y \in T : x >= y
      <4>1. CASE w.to - M >= 0
        BY <1>1, <4>1
      <4>2. CASE ~(w.to - M >= 0)
        BY <1>1, <4>2
      <4> QED
        BY <4>1, <4>2
    <3>2. Max(T) \in T /\ \A y \in T : Max(T) >= y
      BY <3>1 DEF Max
    <3> QED
      BY <1>1, <1>3, <3>2
  <2> HIDE DEF T
  <2> QED
    BY <1>1, <2>1, <2>2
<1> QED
  BY <1>2, <1>3

\* Cells flushed and one cell written.
LEMMA CellWritten ==
  ASSUME NEW n, NEW to \in 0 .. n - 1, NEW E, E = [c \in 0 .. n - 1 |-> E[c]],
         NEW M, M = [c \in 0 .. n - 1 |-> M[c]], NEW value, NEW F, F = [E EXCEPT ![to] = value],
         NEW P, P = [M EXCEPT ![to] = @ \cup {value}]
  PROVE  /\ P = [c \in 0 .. n - 1 |-> P[c]]
         /\ {c \in DOMAIN P : P[c] # {F[c]}} \subseteq {c \in DOMAIN M : M[c] # {E[c]}} \cup {to}
<1>1. DOMAIN M = 0 .. n - 1 /\ DOMAIN P = 0 .. n - 1
  OBVIOUS
<1>2. \A c \in 0 .. n - 1 : c # to => P[c] = M[c] /\ F[c] = E[c]
  OBVIOUS
<1>3. P = [c \in 0 .. n - 1 |-> P[c]]
  OBVIOUS
<1> QED
  BY <1>1, <1>2, <1>3

\* load_into_ulog flushes what the range has.
LEMMA RangeFlushed ==
  ASSUME RangeInv, task.active, NEW n, media = [c \in 0 .. n - 1 |-> media[c]]
  PROVE  LET M == FlushRange(graph.edges_)
         IN /\ M = [c \in 0 .. n - 1 |-> M[c]]
            /\ {c \in DOMAIN M : M[c] # {graph.edges_[c]}} \subseteq task.unflushed
<1> DEFINE M == FlushRange(graph.edges_)
<1>1. M = [c \in DOMAIN media |-> IF ulog.st # ulog.nd /\ ulog.st <= c /\ c <= ulog.nd THEN {graph.edges_[c]} ELSE media[c]]
  BY DEF FlushRange
<1>2. DOMAIN media = 0 .. n - 1
  OBVIOUS
<1> HIDE DEF M
<1>3. M = [c \in 0 .. n - 1 |-> M[c]]
  BY <1>1, <1>2
<1>4. ASSUME NEW c \in DOMAIN M, M[c] # {graph.edges_[c]} PROVE c \in task.unflushed
  <2>1. c \in DOMAIN media /\ M[c] = media[c] /\ ~(ulog.st # ulog.nd /\ ulog.st <= c /\ c <= ulog.nd)
    BY <1>1, <1>2, <1>4
  <2>2. c \in Dirty
    BY <1>4, <2>1 DEF Dirty
  <2>3. ulog.st \in Int /\ ulog.nd \in Int /\ Dirty \subseteq task.unflushed \cup ulog.st .. ulog.nd
        /\ (ulog.st = ulog.nd => Dirty \subseteq task.unflushed)
    BY DEF RangeInv
  <2> QED
    BY <2>1, <2>2, <2>3
<1> QED
  BY <1>3, <1>4 DEF M

\* Everything is flushed at first.
LEMMA RangeInitial == PersistInit => RangeInv
<1> SUFFICES ASSUME PersistInit PROVE RangeInv
  OBVIOUS
<1> USE DEF PersistInit, UndoInit
<1>1. ~task.active /\ graph = BaseGraph /\ media = Flushed(BaseGraph.edges_)
  BY DEF Idle, IdleFor
<1>2. Typed(BaseGraph)
  BY BaseIs
<1>3. DOMAIN BaseGraph.edges_ = 0 .. BaseGraph.elem_capacity - 1
  BY <1>2 DEF Typed, Arrays
<1>4. media = [c \in 0 .. graph.elem_capacity - 1 |-> media[c]]
  BY <1>1, <1>3 DEF Flushed
<1> QED
  BY <1>1, <1>4 DEF RangeInv

\* The next cell.
LEMMA WriteKeepsRange ==
  ASSUME LoopInv, RangeInv, WriteCell, UNCHANGED poolVars
  PROVE  RangeInv'
<1>1. /\ phase = "ingesting" /\ task' = [task EXCEPT !.written = @ + 1] /\ task.active
      /\ graph'.elem_capacity = graph.elem_capacity
      /\ graph.edges_ = [c \in 0 .. graph.elem_capacity - 1 |-> graph.edges_[c]]
  BY TaskWrite DEF WriteCell
<1>2. PICK w, value :
        /\ w.to \in 0 .. graph.elem_capacity - 1 /\ (w.left = TRUE \/ (w.left = FALSE /\ w.to > 0))
        /\ ulog' = IF InRange(w) THEN ulog ELSE RangeFor(w)
        /\ graph'.edges_ = [graph.edges_ EXCEPT ![w.to] = value]
        /\ media' = [IF InRange(w) THEN media ELSE FlushRange(graph.edges_) EXCEPT ![w.to] = @ \cup {value}]
  BY TaskWrite
<1>3. task'.active = task.active /\ task'.unflushed = task.unflushed /\ phase' = "ingesting"
  <2>1. TaskShape
    BY DEF LoopInv
  <2> QED
    BY <1>1, <2>1 DEF TaskShape, poolVars
<1> DEFINE n == graph.elem_capacity
           E == graph.edges_
           M == IF InRange(w) THEN media ELSE FlushRange(graph.edges_)
<1>4. media = [c \in 0 .. n - 1 |-> media[c]]
  BY <1>1 DEF RangeInv, Ingesting
<1>5. /\ ulog.st \in Int /\ ulog.nd \in Int
      /\ Dirty \subseteq task.unflushed \cup ulog.st .. ulog.nd
  BY <1>1 DEF RangeInv
<1>6. n \in Nat
  <2>1. PICK left, right :
          /\ Moves(task.before, left, right, task.new_index)
          /\ LoopSomewhere(task.before, left, right, task.new_index, task.order, task.written, graph)
    BY <1>1 DEF LoopInv, TaskRuns
  <2>2. PICK A, k : LoopAt(task.before, first(left), first(right), task.new_index, A, k,
                           task.order, task.written, graph)
    BY <2>1 DEF LoopSomewhere
  <2>3. GraphShape(task.before) /\ task.before.elem_capacity \in Nat
    BY <2>1 DEF Moves, LoopPlan, Typed
  <2>4. graph = [task.before EXCEPT !.edges_ = graph.edges_, !.vertices_ = graph.vertices_]
    BY <2>2 DEF LoopAt
  <2> QED
    BY <2>3, <2>4 DEF GraphShape
<1>7. /\ M = [c \in 0 .. n - 1 |-> M[c]]
      /\ {c \in DOMAIN M : M[c] # {E[c]}} \subseteq
           IF InRange(w) THEN Dirty ELSE task.unflushed
  <2>1. CASE InRange(w)
    BY <1>4, <2>1 DEF Dirty
  <2>2. CASE ~InRange(w)
    <3>1. M = FlushRange(graph.edges_)
      BY <2>2
    <3>2. RangeInv /\ task.active
      BY <1>1
    <3> HIDE DEF n
    <3>3. /\ FlushRange(graph.edges_) = [c \in 0 .. n - 1 |-> FlushRange(graph.edges_)[c]]
          /\ {c \in DOMAIN FlushRange(graph.edges_) : FlushRange(graph.edges_)[c] # {graph.edges_[c]}}
               \subseteq task.unflushed
      BY <1>4, <3>2, RangeFlushed
    <3> QED
      BY <2>2, <3>1, <3>3
  <2> QED
    BY <2>1, <2>2
<1>8. /\ media' = [c \in 0 .. n - 1 |-> media'[c]]
      /\ {c \in DOMAIN media' : media'[c] # {graph'.edges_[c]}} \subseteq {c \in DOMAIN M : M[c] # {E[c]}} \cup {w.to}
  <2>1. media' = [M EXCEPT ![w.to] = @ \cup {value}] /\ graph'.edges_ = [E EXCEPT ![w.to] = value]
    BY <1>2
  <2>2. w.to \in 0 .. n - 1 /\ E = [c \in 0 .. n - 1 |-> E[c]] /\ M = [c \in 0 .. n - 1 |-> M[c]]
    BY <1>1, <1>2, <1>7
  <2> HIDE DEF n, E, M
  <2> QED
    BY <2>1, <2>2, CellWritten
<1>9. Dirty' \subseteq {c \in DOMAIN M : M[c] # {E[c]}} \cup {w.to}
  BY <1>8 DEF Dirty
<1>10. /\ ulog'.st \in Int /\ ulog'.nd \in Int /\ ulog'.st # ulog'.nd
       /\ w.to \in ulog'.st .. ulog'.nd
       /\ Dirty' \subseteq task.unflushed \cup ulog'.st .. ulog'.nd
  <2>1. CASE InRange(w)
    <3>1. ulog' = ulog /\ ulog.st <= w.to /\ w.to < ulog.nd
      BY <1>2, <2>1 DEF InRange
    <3>2. w.to \in Int
      BY <1>2
    <3>3. w.to \in ulog'.st .. ulog'.nd /\ ulog'.st # ulog'.nd
      BY <1>5, <3>1, <3>2
    <3>4. Dirty' \subseteq Dirty \cup {w.to}
      BY <1>7, <1>9, <2>1
    <3> QED
      BY <1>5, <3>1, <3>3, <3>4
  <2>2. CASE ~InRange(w)
    <3>1. ulog' = RangeFor(w)
      BY <1>2, <2>2
    <3>2. /\ RangeFor(w).st \in Int /\ RangeFor(w).nd \in Int /\ RangeFor(w).st # RangeFor(w).nd
          /\ w.to \in RangeFor(w).st .. RangeFor(w).nd
      BY <1>2, <1>6, RangeHolds
    <3>3. Dirty' \subseteq task.unflushed \cup {w.to}
      BY <1>7, <1>9, <2>2
    <3> QED
      BY <3>1, <3>2, <3>3
  <2> QED
    BY <2>1, <2>2
<1>11. media' = [c \in 0 .. graph'.elem_capacity - 1 |-> media'[c]]
  BY <1>1, <1>8
<1> QED
  BY <1>3, <1>10, <1>11 DEF RangeInv

\* A rebalance begins with an empty range.
LEMMA BeginKeepsRange ==
  ASSUME LoopInv, RangeInv, phase = "ingesting", phase' = "ingesting", ~task.active,
         NEW left \in Leaves, NEW right \in 1 .. leaf_count, left < right,
         NEW next, Begin(left .. right - 1, next)
  PROVE  RangeInv'
<1> DEFINE W == left .. right - 1
           v == (Max(W) + 1) * segment_size - 1
<1>1. /\ task' = NewTask(graph, W, next) /\ graph' = graph /\ media' = media
      /\ ulog' = [NoRange EXCEPT !.st = NextIndex(graph, v), !.nd = NextIndex(graph, v)]
  BY DEF Begin
<1>2. Max(W) + 1 = right
  BY WindowEnds
<1>3. Typed(graph)
  BY DEF LoopInv, Ingesting, Settled, Good
<1>4. v \in Vertices
  <2>1. first(left) \in Vertices /\ first(right) \in 0 .. num_vertices /\ first(left) < first(right)
    BY WindowOfLeaves
  <2>2. num_vertices \in Nat
    BY TreeShape
  <2>3. v = first(right) - 1
    BY <1>2 DEF first
  <2> HIDE DEF v
  <2> QED
    BY <2>1, <2>2, <2>3 DEF Vertices
<1> HIDE DEF W, v
<1>5. NextIndex(graph, v) \in Int
  BY <1>3, <1>4, StartsAre
<1>6. ulog'.st = NextIndex(graph, v) /\ ulog'.nd = NextIndex(graph, v)
  BY <1>1 DEF NoRange
<1>7. task'.unflushed = Dirty /\ Dirty' = Dirty
  BY <1>1 DEF NewTask, Dirty
<1>8. media' = [c \in 0 .. graph'.elem_capacity - 1 |-> media'[c]]
  BY <1>1 DEF RangeInv, Ingesting
<1> QED
  BY <1>5, <1>6, <1>7, <1>8 DEF RangeInv

\* The steps of an ingestion.
LEMMA IngestKeepsRange == ASSUME LoopInv, RangeInv, Ingest PROVE RangeInv'
<1>0. phase = "ingesting" /\ phase' = "ingesting" /\ UNCHANGED poolVars
  BY DEF Ingest, poolVars
<1>1. ASSUME NEW src \in Sources, InsertNow(src) PROVE RangeInv'
  <2>1. /\ ~task.active /\ ~LogIsFull(graph, src) /\ graph' = do_insertion(graph, src, FreshDst)
        /\ src \in Vertices
    BY <1>1, SourcesAreVertices DEF InsertNow, Free
  <2>2. Good(graph)
    BY <1>0, <2>1 DEF LoopInv, Settled, Ingesting
  <2>3. Inserted(graph, src, FreshDst, graph')
    BY <2>1, <2>2, InsertGood
  <2>4. graph'.elem_capacity = graph.elem_capacity
    BY <2>3 DEF Inserted
  <2>5. media = [c \in 0 .. graph.elem_capacity - 1 |-> media[c]]
    BY <1>0 DEF RangeInv, Ingesting
  <2>6. \E loc : media' = media \/ media' = [media EXCEPT ![loc] = {FreshDst}]
    BY <1>1 DEF InsertNow
  <2>7. media' = [c \in 0 .. graph.elem_capacity - 1 |-> media'[c]]
    BY <2>5, <2>6
  <2>8. ~task'.active
    BY <1>1 DEF InsertNow, Idle, IdleFor
  <2> QED
    BY <2>4, <2>7, <2>8 DEF RangeInv
<1>2. ASSUME NEW src \in Sources, BeginLeaf(src) PROVE RangeInv'
  <2> DEFINE s == SegmentOf(src)
  <2>1. ~task.active /\ Begin({s}, {src})
    BY <1>2 DEF BeginLeaf, Free
  <2>2. s \in Leaves /\ leaf_count \in Nat
    BY SourcesAreVertices, LeafOfVertex, TreeShape
  <2> HIDE DEF s
  <2>3. s + 1 \in 1 .. leaf_count /\ s < s + 1 /\ s .. (s + 1) - 1 = {s}
    BY <2>2 DEF Leaves
  <2>4. Begin(s .. (s + 1) - 1, {src})
    BY <2>1, <2>3
  <2> QED
    BY <1>0, <2>1, <2>2, <2>3, <2>4, BeginKeepsRange
<1>3. ASSUME NEW src \in Sources, BeginWindow(src) PROVE RangeInv'
  <2> DEFINE H == GoodHeights(graph, src)
  <2>1. ~task.active /\ H # {} /\ Begin(WindowAt(src, Min(H)), Sources)
    BY <1>3 DEF BeginWindow
  <2>2. H \subseteq 1 .. tree_height
    BY DEF GoodHeights
  <2> HIDE DEF H
  <2>3. Min(H) \in 1 .. tree_height
    <3>1. H \in SUBSET Nat
      BY <2>2
    <3> QED
      BY <2>1, <2>2, <3>1, LeastIs
  <2>4. PICK left \in Leaves, right \in 1 .. leaf_count :
          left < right /\ WindowAt(src, Min(H)) = left .. right - 1
    BY <2>3, SourcesAreVertices, WindowAtIs
  <2>5. Begin(left .. right - 1, Sources)
    BY <2>1, <2>4
  <2> QED
    BY <1>0, <2>1, <2>4, <2>5, BeginKeepsRange
<1>4. CASE FinishVertex
  <2>1. /\ task' = [task EXCEPT !.order = Tail(@), !.written = 0] /\ TaskShape /\ task.active
        /\ graph'.edges_ = graph.edges_ /\ graph'.elem_capacity = graph.elem_capacity
        /\ UNCHANGED <<media, ulog>>
    BY <1>4, TaskArrives DEF FinishVertex, LoopInv
  <2>2. task'.active = task.active /\ task'.unflushed = task.unflushed
    BY <2>1 DEF TaskShape
  <2>3. Dirty' = Dirty
    BY <2>1 DEF Dirty
  <2> QED
    BY <1>0, <2>1, <2>2, <2>3 DEF RangeInv, Ingesting
<1>5. CASE FinishRebalance
  <2>1. PICK left, right :
          /\ task' = IdleFor(task.next) /\ task.window = left .. right - 1
          /\ Moves(task.before, left, right, task.new_index)
          /\ graph' = rebalance_weighted(task.before, left * segment_size, right * segment_size,
                                         Used(task.before, task.window), Total(task.before, task.window))
    BY <1>5, TaskEnds
  <2>2. task.active /\ Good(task.before) /\ media' = media
    BY <1>0, <1>5 DEF FinishRebalance, LoopInv, Settled, Ingesting
  <2>3. Rebalanced(task.before, left, right, task.new_index, graph')
    BY <2>1, <2>2, RebalanceGood
  <2>4. graph'.elem_capacity = task.before.elem_capacity
    BY <2>3 DEF Rebalanced
  <2>5. graph.elem_capacity = task.before.elem_capacity
    <3>1. PICK l, r :
            /\ Moves(task.before, l, r, task.new_index)
            /\ LoopSomewhere(task.before, l, r, task.new_index, task.order, task.written, graph)
      BY <2>2 DEF LoopInv, TaskRuns
    <3>2. PICK A, k : LoopAt(task.before, first(l), first(r), task.new_index, A, k,
                             task.order, task.written, graph)
      BY <3>1 DEF LoopSomewhere
    <3>3. GraphShape(task.before)
      BY <3>1 DEF Moves, LoopPlan, Typed
    <3>4. graph = [task.before EXCEPT !.edges_ = graph.edges_, !.vertices_ = graph.vertices_]
      BY <3>2 DEF LoopAt
    <3> QED
      BY <3>3, <3>4 DEF GraphShape
  <2>6. ~task'.active
    BY <2>1 DEF IdleFor
  <2>7. media' = [c \in 0 .. graph'.elem_capacity - 1 |-> media'[c]]
    BY <1>0, <2>2, <2>4, <2>5 DEF RangeInv, Ingesting
  <2> QED
    BY <2>6, <2>7 DEF RangeInv
<1>6. CASE WriteCell
  BY <1>0, <1>6, WriteKeepsRange
<1> QED
  BY <1>1, <1>2, <1>3, <1>4, <1>5, <1>6 DEF Ingest, RebalanceStep

\* A resize.
LEMMA ResizeKeepsRange ==
  ASSUME LoopInv, RangeInv, AssertionsHold, ResizeFree \/ ResizeInstall \/ ResizeRecord
  PROVE  RangeInv'
<1>1. CASE ResizeFree
  BY <1>1 DEF ResizeFree, rebalanceVars, RangeInv, Ingesting, Dirty
<1>2. CASE ResizeInstall
  <2>1. PICK src \in Sources : NoRoomFor(src)
    BY <1>2 DEF ResizeInstall, LoopInv
  <2>2. ~task.active /\ Good(graph)
    BY <1>2, <2>1 DEF ResizeInstall, LoopInv, NoRoomFor, Settled, Ingesting
  <2>3. PositionsAsserted([graph EXCEPT !.elem_capacity = 2 * @], 0, num_vertices,
                          2 * graph.elem_capacity - graph.num_edges_, graph.num_edges_)
    BY <1>2, <2>1 DEF AssertionsHold, ResizeInstall
  <2>4. graph' = [resize_V1(graph) EXCEPT !.log_ = graph.log_] /\ task' = task
        /\ media' = Flushed(resize_V1(graph).edges_)
    BY <1>2 DEF ResizeInstall
  <2>5. Good(graph') /\ graph'.edges_ = resize_V1(graph).edges_
    BY <2>2, <2>3, <2>4, ResizeGood
  <2>6. DOMAIN graph'.edges_ = 0 .. graph'.elem_capacity - 1
    BY <2>5 DEF Good, Typed, Arrays
  <2>7. media' = [c \in 0 .. graph'.elem_capacity - 1 |-> media'[c]]
    BY <2>4, <2>5, <2>6 DEF Flushed
  <2> QED
    BY <2>2, <2>4, <2>7 DEF RangeInv
<1>3. CASE ResizeRecord
  <2>1. /\ graph' = release_log(graph, 0, leaf_count) /\ task' = Idle /\ phase = "installed" /\ media' = media
    BY <1>3 DEF ResizeRecord
  <2>2. GraphShape(graph)
    BY <2>1 DEF LoopInv, Settled, Ingesting, Good, Typed
  <2>3. graph'.elem_capacity = graph.elem_capacity
    BY <2>1, <2>2 DEF release_log, GraphShape
  <2>4. ~task'.active
    BY <2>1 DEF Idle, IdleFor
  <2> QED
    BY <2>1, <2>3, <2>4 DEF RangeInv, Ingesting
<1> QED
  BY <1>1, <1>2, <1>3

\* Shutdown, death and reopening.
LEMMA RestKeepsRange ==
  ASSUME LoopInv, Close \/ CopyField \/ FlushField \/ CloseDone \/ Kill \/ ReopenBackup \/ ReopenRecovery \/ ReopenFails
  PROVE  RangeInv'
<1>1. CASE Kill
  <2>1. phase' = "off" /\ task' = Idle
    BY <1>1 DEF Kill
  <2> QED
    BY <2>1 DEF RangeInv, Ingesting, Idle, IdleFor
<1>2. CASE ~Kill
  <2>1. phase' \in {"closing", "off", "open", "failed"} /\ task' = task /\ ~task.active
    BY <1>2 DEF LoopInv, Close, CopyField, FlushField, CloseDone, ReopenBackup, ReopenRecovery, ReopenFails,
                rebalanceVars, Free
  <2> QED
    BY <2>1 DEF RangeInv, Ingesting
<1> QED
  BY <1>1, <1>2

\* Every step.
LEMMA RangeInductive ==
  RangeInv /\ LoopInv /\ AssertionsHold /\ [PersistNext]_persistVars => RangeInv'
<1> SUFFICES ASSUME RangeInv, LoopInv, AssertionsHold, [PersistNext]_persistVars PROVE RangeInv'
  OBVIOUS
<1>1. CASE UNCHANGED persistVars
  BY <1>1 DEF persistVars, RangeInv, Ingesting, Dirty
<1> QED
  BY <1>1, IngestKeepsRange, ResizeKeepsRange, RestKeepsRange DEF PersistNext

\* Whenever the process stops inside a rebalance, what a power failure may undo
\* was not flushed before, or is in the range load_into_ulog has last saved.
THEOREM EarlierRangesAreFlushed == PersistSpec /\ []AssertionsHold => []EarlierRangesFlushed
<1>1. RangeInv => EarlierRangesFlushed
  BY DEF RangeInv, EarlierRangesFlushed
<1> QED
  BY <1>1, RangeInitial, RangeInductive, LoopInvariant, PTL DEF PersistSpec

-----------------------------------------------------------------------------
(***************************************************************************)
(* Every edge can be found.                                                 *)
(***************************************************************************)
\* The first k vertices have their cells at their new places in E, and the cells
\* of none of those places are as they were.
PrefixThere(g, order, N, k, E) ==
  /\ \A i \in 1 .. k : \A x \in 0 .. onseg_edges(g, order[i]) - 1 :
       E[N[order[i]] + x] = g.edges_[g.vertices_[order[i]].index + x]
  /\ \A c \in 0 .. g.elem_capacity - 1 :
       (\A i \in 1 .. k : c < N[order[i]] \/ N[order[i]] + g.vertices_[order[i]].degree <= c)
         => E[c] = g.edges_[c]

\* The first k vertices have arrived in the k-th array of the loop.
LEMMA PrefixArrives ==
  ASSUME NEW g, NEW a, NEW b, NEW N, LoopPlan(g, a, b, N), NEW A, ArraysOf(g, a, b, N, A), NEW k \in 0 .. b - a
  PROVE  PrefixThere(g, MoveOrder(g, a, b, N), N, k, A[k])
<1> DEFINE order == MoveOrder(g, a, b, N)
           n == b - a
           V == a .. b - 1
           C == 0 .. g.elem_capacity - 1
           old == Indices(g)
           on == OnSegment(g)
           deg == Degrees(g)
           tail == Tails(g)
           part == [i \in 1 .. k |-> order[i]]
<1>1. /\ n \in Nat \ {0} /\ V \subseteq Vertices /\ order \in [1 .. n -> V]
      /\ SafeOrder(n, order, V, C, old, on, N, deg)
      /\ \A v \in V : Movable(g, v, N[v])
  BY PlanIs
<1>2. Typed(g) /\ a \in Nat /\ b \in Nat /\ b <= num_vertices
  BY DEF LoopPlan
<1>3. A \in [0 .. n -> Arrays(g.elem_capacity, CellValues(g))] /\ MoveSteps(g, order, N, on, n, A)
  BY DEF ArraysOf
<1>4. \A v \in Vertices : on[v] = onseg_edges(g, v) /\ old[v] = g.vertices_[v].index /\ deg[v] = g.vertices_[v].degree
  BY DEF OnSegment, Indices, Degrees
<1>5. Shiftable(g, a, b, n, order, N, on)
  <2>1. \A v \in V : Splits(g, v, on[v], g.vertices_[v].degree)
    BY <1>1, <1>4 DEF Movable
  <2> HIDE DEF order, on, old, deg
  <2> QED
    BY <1>1, <1>2, <2>1 DEF Shiftable, old, deg
<1>6. BlockSteps(n, A, C, order, old, on, N, deg, tail)
  <2> HIDE DEF order, on, n
  <2> QED
    BY <1>3, <1>5, StepsAreBlocks
<1>7. A[0] = g.edges_
  BY <1>3 DEF MoveSteps
<1>8. k \in Nat /\ k <= n /\ \A i \in 1 .. k : i \in 1 .. n /\ part[i] = order[i]
  BY <1>1
<1> HIDE DEF order, on, old, deg, tail, n, V, C
<1>9. SafeOrder(k, part, V, C, old, on, N, deg)
  <2>1. part \in [1 .. k -> V]
    BY <1>1, <1>8
  <2>2. \A i, j \in 1 .. k : i # j => part[i] # part[j]
    BY <1>1, <1>8 DEF SafeOrder
  <2>3. \A i, j \in 1 .. k : i < j =>
          \/ old[part[j]] + on[part[j]] <= N[part[i]]
          \/ N[part[i]] + deg[part[i]] <= old[part[j]]
    BY <1>1, <1>8 DEF SafeOrder
  <2> HIDE DEF part
  <2> QED
    BY <1>1, <2>1, <2>2, <2>3 DEF SafeOrder
<1>10. BlockSteps(k, A, C, part, old, on, N, deg, tail)
  <2> SUFFICES ASSUME NEW i \in 0 .. k - 1
               PROVE  BlockMoved(A[i], A[i + 1], C, part[i + 1], old, on, N, deg, tail)
    BY DEF BlockSteps
  <2>1. i \in 0 .. n - 1 /\ i + 1 \in 1 .. k
    BY <1>1, <1>8
  <2>2. part[i + 1] = order[i + 1]
    BY <2>1
  <2> QED
    BY <1>6, <2>1, <2>2 DEF BlockSteps
<1>11. C \in SUBSET Int
  BY <1>2 DEF C, Typed
<1> HIDE DEF part
<1>12. BlocksThere(k, A, C, part, old, on, N, deg, tail)
  BY <1>8, <1>9, <1>10, <1>11, BlocksArrive
<1>13. /\ \A i \in 1 .. k : \A j \in 0 .. deg[order[i]] - 1 :
            A[k][N[order[i]] + j] = BlockCell(A[0], order[i], j, old, on, tail)
       /\ \A c \in C : (\A i \in 1 .. k : c < N[order[i]] \/ N[order[i]] + deg[order[i]] <= c) => A[k][c] = A[0][c]
  BY <1>8, <1>12 DEF BlocksThere
<1>14. \A i \in 1 .. k : order[i] \in V /\ order[i] \in Vertices
  BY <1>1, <1>8
<1>15. ASSUME NEW i \in 1 .. k, NEW x \in 0 .. onseg_edges(g, order[i]) - 1
       PROVE  A[k][N[order[i]] + x] = g.edges_[g.vertices_[order[i]].index + x]
  <2> DEFINE v == order[i]
  <2>1. on[v] \in Nat /\ deg[v] \in Nat /\ on[v] <= deg[v] /\ on[v] = onseg_edges(g, v) /\ old[v] = g.vertices_[v].index
    BY <1>1, <1>4, <1>14 DEF SafeOrder
  <2> HIDE DEF v
  <2>2. x \in 0 .. deg[v] - 1 /\ x < on[v]
    BY <2>1 DEF v
  <2>3. A[k][N[v] + x] = BlockCell(A[0], v, x, old, on, tail)
    BY <1>13, <2>2 DEF v
  <2> QED
    BY <1>7, <2>1, <2>2, <2>3 DEF BlockCell, v
<1>16. ASSUME NEW c \in C,
              \A i \in 1 .. k : c < N[order[i]] \/ N[order[i]] + g.vertices_[order[i]].degree <= c
       PROVE  A[k][c] = g.edges_[c]
  BY <1>4, <1>7, <1>13, <1>14, <1>16
<1> QED
  BY <1>15, <1>16 DEF PrefixThere, order, C

\* A vertex that has not moved is clear of the new place of one that moves before it.
LEMMA WaitsClear ==
  ASSUME NEW g, NEW a, NEW b, NEW N, LoopPlan(g, a, b, N), NEW i \in 1 .. b - a,
         NEW v \in Vertices, \A j \in 1 .. i : MoveOrder(g, a, b, N)[j] # v
  PROVE  LET w == MoveOrder(g, a, b, N)[i]
         IN \/ g.vertices_[v].index + onseg_edges(g, v) <= N[w]
            \/ N[w] + g.vertices_[w].degree <= g.vertices_[v].index
<1> DEFINE order == MoveOrder(g, a, b, N)
           n == b - a
           w == order[i]
           end == NextIndex(g, b - 1)
<1>1. /\ n \in Nat \ {0} /\ a .. b - 1 \subseteq Vertices /\ order \in [1 .. n -> a .. b - 1]
      /\ SafeOrder(n, order, a .. b - 1, 0 .. g.elem_capacity - 1, Indices(g), OnSegment(g), N, Degrees(g))
  BY PlanIs
<1>2. /\ a \in Nat /\ b \in Nat /\ a < b /\ b <= num_vertices /\ Typed(g) /\ Sound(g) /\ Fits(g, a, b, N, end)
  BY DEF LoopPlan
<1>3. w \in a .. b - 1 /\ w \in Vertices
  BY <1>1
<1>4. CASE v \in a .. b - 1
  <2>1. PICK j \in 1 .. n : order[j] = v
    BY <1>4, PlanReaches
  <2>2. i < j /\ j \in 1 .. n /\ i \in 1 .. n
    <3>1. ~(j \in 1 .. i)
      BY <2>1
    <3> QED
      BY <1>1, <3>1
  <2>3. \/ Indices(g)[v] + OnSegment(g)[v] <= N[w]
        \/ N[w] + Degrees(g)[w] <= Indices(g)[v]
    BY <1>1, <2>1, <2>2 DEF SafeOrder
  <2>4. Indices(g)[v] = g.vertices_[v].index /\ OnSegment(g)[v] = onseg_edges(g, v)
        /\ Degrees(g)[w] = g.vertices_[w].degree
    BY <1>3 DEF Indices, OnSegment, Degrees
  <2> QED
    BY <2>3, <2>4
<1>5. CASE v \notin a .. b - 1
  <2>1. /\ \A x \in Vertices : /\ g.vertices_[x].index \in 0 .. g.elem_capacity - 1
                               /\ onseg_edges(g, x) \in Nat \ {0}
                               /\ NextIndex(g, x) \in Int
        /\ \A x, y \in Vertices : x < y =>
             /\ g.vertices_[x].index + onseg_edges(g, x) <= g.vertices_[y].index
             /\ NextIndex(g, x) <= g.vertices_[y].index
    BY <1>2, SoundIs
  <2>2. a \in Vertices /\ b - 1 \in Vertices /\ v \in Int /\ (v < a \/ b - 1 < v) /\ w \in Int /\ a <= w
    BY <1>1, <1>2, <1>3, <1>5, TreeShape DEF Vertices
  <2>3. g.vertices_ \in [Vertices -> Entry] /\ end \in Int
    BY <1>2, <2>1, <2>2 DEF Typed
  <2> HIDE DEF end, w, order, n
  <2>4. N[w] \in Int /\ N[a] <= N[w] /\ N[w] + g.vertices_[w].degree <= end /\ N[a] = g.vertices_[a].index
        /\ g.vertices_[w].degree \in Nat
    BY <1>2, <1>3, <2>3, FitsIs DEF Fits
  <2>5. g.vertices_[v].index \in Int /\ onseg_edges(g, v) \in Int /\ g.vertices_[a].index \in Int
    <3>1. g.vertices_[v].index \in 0 .. g.elem_capacity - 1 /\ g.vertices_[a].index \in 0 .. g.elem_capacity - 1
          /\ onseg_edges(g, v) \in Nat \ {0}
      BY <2>1, <2>2
    <3> QED
      BY <3>1
  <2>6. CASE v < a
    <3>1. g.vertices_[v].index + onseg_edges(g, v) <= g.vertices_[a].index
      BY <2>1, <2>2, <2>6
    <3> QED
      BY <2>4, <2>5, <3>1 DEF w, order
  <2>7. CASE b - 1 < v
    <3>1. end <= g.vertices_[v].index
      BY <2>1, <2>2, <2>7 DEF end
    <3> QED
      BY <2>3, <2>4, <2>5, <3>1 DEF w, order
  <2> QED
    BY <2>2, <2>6, <2>7
<1> QED
  BY <1>4, <1>5

\* A vertex on its way has only cells of its new place changed.
LEMMA HalfElsewhere ==
  ASSUME NEW g, NEW v, NEW to, Movable(g, v, to), NEW i \in 0 .. Size(g, v, to),
         NEW E, NEW R, HalfMoved(g, v, to, i, E, R)
  PROVE  \A c \in 0 .. g.elem_capacity - 1 : c < to \/ to + g.vertices_[v].degree <= c => R[c] = E[c]
<1> SUFFICES ASSUME NEW c \in 0 .. g.elem_capacity - 1, c < to \/ to + g.vertices_[v].degree <= c
             PROVE  R[c] = E[c]
  OBVIOUS
<1>1. to \in Int /\ g.vertices_[v].degree \in Nat
  BY DEF Movable
<1>2. Size(g, v, to) \in Nat /\ \A j \in 1 .. Size(g, v, to) : Place(g, v, to, j) \in 0 .. g.vertices_[v].degree - 1
  BY PlacesApart
<1>3. \A j \in 1 .. i : c # to + Place(g, v, to, j)
  <2> SUFFICES ASSUME NEW j \in 1 .. i PROVE c # to + Place(g, v, to, j)
    OBVIOUS
  <2> DEFINE p == Place(g, v, to, j)
             d == g.vertices_[v].degree
  <2>1. j \in 1 .. Size(g, v, to)
    BY <1>2
  <2>2. p \in 0 .. d - 1
    BY <1>2, <2>1
  <2>3. c \in Int \/ ~(c \in Int)
    OBVIOUS
  <2> HIDE DEF p, d
  <2> QED
    BY <1>1, <2>2 DEF d, p
<1> QED
  BY <1>3 DEF HalfMoved

\* The cells of v in graph g are at p of array E.
HeldAt(g, E, v, p) ==
  /\ p \in 0 .. g.elem_capacity - 1 /\ p + onseg_edges(g, v) <= g.elem_capacity /\ (v = 0 => p = 0)
  /\ \A x \in 0 .. onseg_edges(g, v) - 1 : E[p + x] = g.edges_[g.vertices_[v].index + x]

\* Cells of v that none of the first k vertices has taken.
LEMMA WaitingHeld ==
  ASSUME NEW g, NEW a, NEW b, NEW N, LoopPlan(g, a, b, N), NEW A, ArraysOf(g, a, b, N, A), NEW k \in 0 .. b - a,
         NEW v \in Vertices, \A j \in 1 .. k : MoveOrder(g, a, b, N)[j] # v
  PROVE  HeldAt(g, A[k], v, g.vertices_[v].index)
<1> DEFINE order == MoveOrder(g, a, b, N)
           ix == g.vertices_[v].index
           on == onseg_edges(g, v)
           cap == g.elem_capacity
<1>1. /\ ix \in 0 .. cap - 1 /\ on \in Nat \ {0} /\ ix + on <= NextIndex(g, v)
      /\ NextIndex(g, v) \in Int /\ NextIndex(g, v) <= cap /\ cap \in Nat
      /\ (v = 0 => ix = 0)
  BY SoundIs DEF LoopPlan, Sound, Typed
<1>2. ix + on <= cap
  <2> HIDE DEF ix, on, cap
  <2> QED
    BY <1>1
<1>3. PrefixThere(g, order, N, k, A[k])
  BY PrefixArrives
<1>4. b - a \in Nat
  BY PlanIs
<1>5. \A i \in 1 .. k : LET w == order[i] IN ix + on <= N[w] \/ N[w] + g.vertices_[w].degree <= ix
  <2> SUFFICES ASSUME NEW i \in 1 .. k
               PROVE  LET w == order[i] IN ix + on <= N[w] \/ N[w] + g.vertices_[w].degree <= ix
    OBVIOUS
  <2>1. i \in 1 .. b - a /\ \A j \in 1 .. i : j \in 1 .. k
    BY <1>4
  <2>2. \A j \in 1 .. i : order[j] # v
    BY <2>1
  <2> QED
    BY <2>1, <2>2, WaitsClear
<1>6. \A i \in 1 .. k : N[order[i]] \in Int /\ g.vertices_[order[i]].degree \in Int
  <2>1. order \in [1 .. b - a -> a .. b - 1] /\ \A w \in a .. b - 1 : Movable(g, w, N[w])
    BY PlanIs
  <2> QED
    BY <1>4, <2>1 DEF Movable
<1>7. ASSUME NEW x \in 0 .. on - 1 PROVE A[k][ix + x] = g.edges_[ix + x]
  <2>1. ix + x \in 0 .. cap - 1 /\ ix <= ix + x /\ ix + x < ix + on /\ ix + x \in Int /\ ix \in Int /\ on \in Int
    <3> HIDE DEF ix, on, cap
    <3> QED
      BY <1>1, <1>2
  <2>2. \A i \in 1 .. k : ix + x < N[order[i]] \/ N[order[i]] + g.vertices_[order[i]].degree <= ix + x
    <3> SUFFICES ASSUME NEW i \in 1 .. k
                 PROVE  ix + x < N[order[i]] \/ N[order[i]] + g.vertices_[order[i]].degree <= ix + x
      OBVIOUS
    <3> DEFINE m == N[order[i]]
               d == g.vertices_[order[i]].degree
    <3>1. m \in Int /\ d \in Int /\ (ix + on <= m \/ m + d <= ix)
      BY <1>5, <1>6
    <3> HIDE DEF m, d, ix, on
    <3>2. x \in Int
      BY <1>1
    <3>3. ix + x < m \/ m + d <= ix + x
      BY <2>1, <3>1, <3>2
    <3> QED
      BY <3>3 DEF m, d
  <2> QED
    BY <1>3, <2>1, <2>2 DEF PrefixThere
<1> QED
  BY <1>1, <1>2, <1>7 DEF HeldAt

\* Where the first cell of v is when the first k vertices have arrived.
Stand(g, a, b, N, k, v) ==
  IF \E i \in 1 .. k : MoveOrder(g, a, b, N)[i] = v THEN N[v] ELSE g.vertices_[v].index

\* Apart from the vertex on its way, every vertex has its cells where they were
\* or where they belong.
LEMMA RestHeld ==
  ASSUME NEW g, NEW a, NEW b, NEW N, LoopPlan(g, a, b, N), NEW A, ArraysOf(g, a, b, N, A),
         NEW k, NEW todo, NEW written, NEW h, LoopAt(g, a, b, N, A, k, todo, written, h),
         NEW v \in Vertices, ~OnItsWay(g, a, b, N, k, v)
  PROVE  HeldAt(g, h.edges_, v, Stand(g, a, b, N, k, v))
<1> DEFINE order == MoveOrder(g, a, b, N)
           n == b - a
           ix == g.vertices_[v].index
           on == onseg_edges(g, v)
           deg == g.vertices_[v].degree
           cap == g.elem_capacity
           R == h.edges_
           w == order[k + 1]
           dw == g.vertices_[w].degree
<1>1. /\ n \in Nat \ {0} /\ order \in [1 .. n -> a .. b - 1]
      /\ \A i, j \in 1 .. n : i # j => order[i] # order[j]
      /\ SafeOrder(n, order, a .. b - 1, 0 .. cap - 1, Indices(g), OnSegment(g), N, Degrees(g))
      /\ \A u \in a .. b - 1 : Movable(g, u, N[u]) /\ RoomFor(g, u, N[u])
      /\ a .. b - 1 \subseteq Vertices
  BY PlanIs
<1>2. /\ k \in 0 .. n
      /\ k < n => written \in 0 .. Size(g, w, N[w]) /\ HalfMoved(g, w, N[w], written, A[k], R)
      /\ k = n => R = A[k]
  BY DEF LoopAt
<1>3. k < n => w \in a .. b - 1 /\ w # v /\ k + 1 \in 1 .. n /\ N[w] \in Int /\ dw \in Nat
  <2> SUFFICES ASSUME k < n PROVE w \in a .. b - 1 /\ w # v /\ k + 1 \in 1 .. n /\ N[w] \in Int /\ dw \in Nat
    OBVIOUS
  <2>1. k + 1 \in 1 .. n
    BY <1>1, <1>2
  <2>2. w # v
    BY DEF OnItsWay
  <2>3. w \in a .. b - 1
    BY <1>1, <2>1
  <2> QED
    BY <1>1, <2>1, <2>2, <2>3 DEF Movable
<1>4. k < n => \A c \in 0 .. cap - 1 : c < N[w] \/ N[w] + dw <= c => R[c] = A[k][c]
  BY <1>1, <1>2, <1>3, HalfElsewhere
<1>5. k < n \/ k = n
  BY <1>1, <1>2
<1>6. ASSUME NEW p, HeldAt(g, A[k], v, p), k < n => p + on <= N[w] \/ N[w] + dw <= p
      PROVE  HeldAt(g, R, v, p)
  <2>1. p \in 0 .. cap - 1 /\ p + on <= cap /\ on \in Nat /\ cap \in Nat
    <3>1. on \in Nat /\ cap \in Nat
      BY SoundIs DEF LoopPlan, Typed
    <3> QED
      BY <1>6, <3>1 DEF HeldAt
  <2>2. ASSUME NEW x \in 0 .. on - 1 PROVE R[p + x] = A[k][p + x]
    <3>1. p + x \in 0 .. cap - 1 /\ p \in Int /\ x \in Int /\ p <= p + x /\ p + x < p + on
      <4> HIDE DEF on, cap
      <4> QED
        BY <2>1
    <3>2. CASE k = n
      BY <1>2, <3>2
    <3>3. CASE k < n
      <4>1. p + x < N[w] \/ N[w] + dw <= p + x
        <5> DEFINE m == N[w]
        <5>1. m \in Int /\ dw \in Int /\ (p + on <= m \/ m + dw <= p)
          BY <1>3, <1>6, <3>3
        <5> HIDE DEF m, dw, on
        <5>2. p + x < m \/ m + dw <= p + x
          BY <2>1, <3>1, <5>1
        <5> QED
          BY <5>2 DEF m
      <4> QED
        BY <1>4, <3>1, <3>3, <4>1
    <3> QED
      BY <1>5, <3>2, <3>3
  <2> QED
    BY <1>6, <2>2 DEF HeldAt
<1>7. CASE \E i \in 1 .. k : order[i] = v
  <2>1. PICK i \in 1 .. k : order[i] = v
    BY <1>7
  <2>2. i \in 1 .. n /\ v \in a .. b - 1
    BY <1>1, <1>2, <2>1
  <2>3. PrefixThere(g, order, N, k, A[k])
    BY <1>2, PrefixArrives
  <2>4. /\ N[v] \in Int /\ 0 <= N[v] /\ N[v] + deg <= cap /\ cap \in Nat /\ deg \in Nat /\ on \in Nat \ {0} /\ on <= deg
    BY <1>1, <2>2 DEF Movable, RoomFor, Splits
  <2>5. N[v] \in 0 .. cap - 1 /\ N[v] + on <= cap
    <3> HIDE DEF deg, cap, on
    <3> QED
      BY <2>4
  <2>6. v = 0 => N[v] = 0
    <3> SUFFICES ASSUME v = 0 PROVE N[v] = 0
      OBVIOUS
    <3>1. a \in Nat /\ a <= v
      BY <2>2 DEF LoopPlan
    <3>2. a = 0
      BY <3>1
    <3> QED
      BY <3>2 DEF LoopPlan, Fits, Sound
  <2>7. HeldAt(g, A[k], v, N[v])
    <3>1. \A x \in 0 .. on - 1 : A[k][N[v] + x] = g.edges_[ix + x]
      BY <2>1, <2>3 DEF PrefixThere
    <3> QED
      BY <2>5, <2>6, <3>1 DEF HeldAt
  <2>8. ASSUME k < n PROVE N[v] + on <= N[w] \/ N[w] + dw <= N[v]
    <3>1. w \in a .. b - 1 /\ w # v
      BY <1>3, <2>8
    <3>2. N[v] + Degrees(g)[v] <= N[w] \/ N[w] + Degrees(g)[w] <= N[v]
      BY <1>1, <2>2, <3>1 DEF SafeOrder
    <3>3. Degrees(g)[v] = deg /\ Degrees(g)[w] = dw
      BY <1>1, <2>2, <3>1 DEF Degrees
    <3>4. N[w] \in Int /\ dw \in Nat
      BY <1>3, <2>8
    <3> DEFINE p == N[v]
               m == N[w]
    <3>5. p + deg <= m \/ m + dw <= p
      BY <3>2, <3>3
    <3>6. p \in Int /\ m \in Int /\ deg \in Int /\ on \in Int /\ on <= deg
      BY <2>4, <3>4
    <3> HIDE DEF p, m, deg, dw, on
    <3>7. p + on <= m \/ m + dw <= p
      BY <3>5, <3>6
    <3> QED
      BY <3>7 DEF p, m
  <2> QED
    BY <1>6, <1>7, <2>7, <2>8 DEF Stand
<1>8. CASE ~\E i \in 1 .. k : order[i] = v
  <2>1. HeldAt(g, A[k], v, ix)
    BY <1>2, <1>8, WaitingHeld
  <2>2. ASSUME k < n PROVE ix + on <= N[w] \/ N[w] + dw <= ix
    <3>1. k + 1 \in 1 .. n /\ w # v
      BY <1>3, <2>2
    <3>2. \A j \in 1 .. k + 1 : order[j] # v
      <4> SUFFICES ASSUME NEW j \in 1 .. k + 1 PROVE order[j] # v
        OBVIOUS
      <4>1. j \in 1 .. k \/ j = k + 1
        BY <1>1, <1>2
      <4> QED
        BY <1>8, <3>1, <4>1
    <3> QED
      BY <3>1, <3>2, WaitsClear
  <2> QED
    BY <1>6, <1>8, <2>1, <2>2 DEF Stand
<1> QED
  BY <1>7, <1>8

\* Behind the pivot of v at cell p of array R there is no other up to cell c.
Scanned(R, v, p, c) ==
  /\ p \in Nat /\ c \in Nat /\ p <= c /\ R[p] = -v /\ (v = 0 => p = 0)
  /\ \A d \in p + 1 .. c : R[d] \in Nat

\* A scan takes such a cell for one of v.
LEMMA ScanIs ==
  ASSUME NEW v \in Nat, NEW p, NEW c, Scanned(graph.edges_, v, p, c)
  PROVE  ScanOwner(c) = v
<1> DEFINE R == graph.edges_
           P == {d \in 0 .. c : R[d] < 0}
<1>1. /\ p \in Nat /\ c \in Nat /\ p <= c /\ R[p] = -v /\ (v = 0 => p = 0)
      /\ \A d \in p + 1 .. c : R[d] \in Nat
  BY DEF Scanned
<1> HIDE DEF R
<1>2. CASE v = 0
  <2>1. \A d \in 0 .. c : R[d] \in Nat
    <3> SUFFICES ASSUME NEW d \in 0 .. c PROVE R[d] \in Nat
      OBVIOUS
    <3>1. d = p \/ d \in p + 1 .. c
      BY <1>1, <1>2
    <3> QED
      BY <1>1, <1>2, <3>1
  <2>2. P = {}
    <3> SUFFICES ASSUME NEW d \in 0 .. c PROVE ~(R[d] < 0)
      OBVIOUS
    <3>1. R[d] \in Nat
      BY <2>1
    <3> QED
      BY <3>1
  <2> QED
    BY <1>2, <2>2 DEF ScanOwner, R
<1>3. CASE v # 0
  <2>1. p \in P
    BY <1>1, <1>3
  <2>2. P \in SUBSET Nat /\ \A d \in P : d <= c
    BY <1>1
  <2>3. \A d \in P : d <= p
    <3> SUFFICES ASSUME NEW d \in P, p < d PROVE FALSE
      BY <1>1
    <3>1. d \in p + 1 .. c /\ R[d] < 0
      BY <1>1
    <3>2. R[d] \in Nat
      BY <1>1, <3>1
    <3> QED
      BY <3>1, <3>2
  <2> DEFINE m == Max(P)
  <2> HIDE DEF P
  <2>4. m \in P /\ \A d \in P : d <= m
    BY <1>1, <2>1, <2>2, GreatestIs
  <2>5. m = p
    <3>1. m <= p /\ p <= m /\ m \in Nat
      BY <2>1, <2>2, <2>3, <2>4
    <3> QED
      BY <1>1, <3>1
  <2>6. P # {}
    BY <2>1
  <2>7. ScanOwner(c) = IF P = {} THEN 0 ELSE -R[m]
    BY DEF ScanOwner, P, R, m
  <2> QED
    BY <1>1, <2>5, <2>6, <2>7
<1> QED
  BY <1>2, <1>3

\* D is what a vertex v has in its cells: the pivot and destinations.
IsBlock(D, v, on) ==
  v \in Nat /\ on \in Nat \ {0} /\ D[0] = -v /\ \A x \in 1 .. on - 1 : D[x] \in Nat

\* A scan of the n cells of array R finds each of these edges.
Found(R, D, v, on, n) ==
  \A j \in 1 .. on - 1 : \E p, c \in 0 .. n - 1 : Scanned(R, v, p, c) /\ R[c] = D[j]

\* It does if they are there in one piece.
LEMMA WholeFound ==
  ASSUME NEW R, NEW D, NEW v, NEW on, IsBlock(D, v, on), NEW n \in Nat, NEW p \in Nat, p + on <= n,
         v = 0 => p = 0, \A x \in 0 .. on - 1 : R[p + x] = D[x]
  PROVE  Found(R, D, v, on, n)
<1>1. v \in Nat /\ on \in Nat \ {0} /\ D[0] = -v /\ \A x \in 1 .. on - 1 : D[x] \in Nat
  BY DEF IsBlock
<1> SUFFICES ASSUME NEW j \in 1 .. on - 1
             PROVE  \E q, c \in 0 .. n - 1 : Scanned(R, v, q, c) /\ R[c] = D[j]
  BY DEF Found
<1>2. p \in 0 .. n - 1 /\ p + j \in 0 .. n - 1 /\ p <= p + j /\ p + j \in Nat /\ j \in 0 .. on - 1
  BY <1>1
<1>3. R[p] = -v
  <2>1. 0 \in 0 .. on - 1 /\ p + 0 = p
    BY <1>1
  <2>2. R[p + 0] = D[0]
    BY <2>1
  <2> QED
    BY <1>1, <2>1, <2>2
<1>4. \A d \in p + 1 .. p + j : R[d] \in Nat
  <2> SUFFICES ASSUME NEW d \in p + 1 .. p + j PROVE R[d] \in Nat
    OBVIOUS
  <2>1. d - p \in 1 .. on - 1 /\ d - p \in 0 .. on - 1 /\ p + (d - p) = d
    BY <1>1, <1>2
  <2>2. R[p + (d - p)] = D[d - p] /\ D[d - p] \in Nat
    BY <1>1, <2>1
  <2> QED
    BY <2>1, <2>2
<1>5. Scanned(R, v, p, p + j)
  BY <1>2, <1>3, <1>4 DEF Scanned
<1>6. R[p + j] = D[j]
  BY <1>2
<1> QED
  BY <1>2, <1>5, <1>6

\* Or in two copies that overlap, the lower one whole up to a cell from which the
\* upper one is.
LEMMA SplitFound ==
  ASSUME NEW R, NEW D, NEW v, NEW on, IsBlock(D, v, on), v # 0, NEW n \in Nat,
         NEW l \in Nat, NEW u \in Nat, NEW m \in Nat, l < u, u < l + m, m <= on, u + on <= n,
         \A x \in 0 .. m - 1 : R[l + x] = D[x],
         \A x \in 0 .. on - 1 : l + m <= u + x => R[u + x] = D[x]
  PROVE  Found(R, D, v, on, n)
<1>1. v \in Nat /\ on \in Nat \ {0} /\ D[0] = -v /\ \A x \in 1 .. on - 1 : D[x] \in Nat
  BY DEF IsBlock
<1> SUFFICES ASSUME NEW j \in 1 .. on - 1
             PROVE  \E q, c \in 0 .. n - 1 : Scanned(R, v, q, c) /\ R[c] = D[j]
  BY DEF Found
<1>2. l \in 0 .. n - 1 /\ j \in Nat
  BY <1>1
<1>3. R[l] = -v
  <2>1. 0 \in 0 .. m - 1 /\ l + 0 = l
    OBVIOUS
  <2>2. R[l + 0] = D[0]
    BY <2>1
  <2> QED
    BY <1>1, <2>1, <2>2
<1>4. ASSUME NEW c \in Nat, c <= u + j, l <= c PROVE \A d \in l + 1 .. c : R[d] \in Nat
  <2> SUFFICES ASSUME NEW d \in l + 1 .. c PROVE R[d] \in Nat
    OBVIOUS
  <2>1. CASE d < l + m
    <3>1. d - l \in 1 .. on - 1 /\ d - l \in 0 .. m - 1 /\ l + (d - l) = d
      BY <1>1, <2>1
    <3>2. R[l + (d - l)] = D[d - l] /\ D[d - l] \in Nat
      BY <1>1, <3>1
    <3> QED
      BY <3>1, <3>2
  <2>2. CASE l + m <= d
    <3>1. d - u \in 1 .. on - 1 /\ d - u \in 0 .. on - 1 /\ u + (d - u) = d
      BY <1>1, <1>4, <2>2
    <3>2. R[u + (d - u)] = D[d - u]
      BY <2>2, <3>1
    <3>3. D[d - u] \in Nat
      BY <1>1, <3>1
    <3> QED
      BY <3>1, <3>2, <3>3
  <2> QED
    BY <2>1, <2>2
<1>5. CASE j < m
  <2>1. l + j \in 0 .. n - 1 /\ l + j \in Nat /\ l + j <= u + j /\ l <= l + j /\ j \in 0 .. m - 1
    BY <1>1, <1>5
  <2>2. Scanned(R, v, l, l + j)
    <3>1. \A d \in l + 1 .. l + j : R[d] \in Nat
      BY <1>4, <2>1
    <3> QED
      BY <1>3, <2>1, <3>1 DEF Scanned
  <2>3. R[l + j] = D[j]
    BY <2>1
  <2> QED
    BY <1>2, <2>1, <2>2, <2>3
<1>6. CASE m <= j
  <2>1. u + j \in 0 .. n - 1 /\ u + j \in Nat /\ l <= u + j /\ j \in 0 .. on - 1 /\ l + m <= u + j
    BY <1>1, <1>6
  <2>2. Scanned(R, v, l, u + j)
    <3>1. \A d \in l + 1 .. u + j : R[d] \in Nat
      BY <1>4, <2>1
    <3> QED
      BY <1>3, <2>1, <3>1 DEF Scanned
  <2>3. R[u + j] = D[j]
    BY <2>1
  <2> QED
    BY <1>2, <2>1, <2>2, <2>3
<1> QED
  BY <1>2, <1>5, <1>6

\* The contents of the cells of v.
Block(g, v) == [x \in 0 .. onseg_edges(g, v) - 1 |-> g.edges_[g.vertices_[v].index + x]]

\* Every edge is to a vertex number, and not a pivot.
EdgesNat(g) == \A v \in Vertices : \A j \in 1 .. g.vertices_[v].degree - 1 : EdgeAt(g, v, j) \in Nat

\* Such is the block of every vertex.
LEMMA BlockIs ==
  ASSUME NEW g, Typed(g), Sound(g), EdgesNat(g), NEW v \in Vertices
  PROVE  IsBlock(Block(g, v), v, onseg_edges(g, v))
<1> DEFINE on == onseg_edges(g, v)
           ix == g.vertices_[v].index
           D == Block(g, v)
<1>1. on \in Nat \ {0} /\ on <= g.vertices_[v].degree /\ g.vertices_[v].degree \in Nat /\ ix \in Int
  BY SoundIs
<1>2. g.edges_[ix] = -v
  BY DEF Sound, InPlace
<1>3. v \in Nat
  BY TreeShape DEF Vertices
<1>4. D = [x \in 0 .. on - 1 |-> g.edges_[ix + x]]
  BY DEF Block
<1>5. ASSUME NEW x \in 1 .. on - 1 PROVE D[x] \in Nat
  <2> HIDE DEF D
  <2>1. x \in 1 .. g.vertices_[v].degree - 1 /\ x < on /\ x \in 0 .. on - 1
    <3> HIDE DEF on
    <3> QED
      BY <1>1
  <2>2. EdgeAt(g, v, x) \in Nat
    BY <2>1 DEF EdgesNat
  <2>3. EdgeAt(g, v, x) = g.edges_[ix + x]
    BY <2>1 DEF EdgeAt
  <2> QED
    BY <1>4, <2>1, <2>2, <2>3
<1> HIDE DEF D, on, ix
<1>6. D[0] = -v
  <2>1. 0 \in 0 .. on - 1 /\ ix + 0 = ix
    BY <1>1
  <2> QED
    BY <1>2, <1>4, <2>1
<1> QED
  BY <1>1, <1>3, <1>5, <1>6 DEF IsBlock, D, on

\* A scan of R finds the edges that g has in the cells of v.
Visible(g, R, v) == Found(R, Block(g, v), v, onseg_edges(g, v), g.elem_capacity)

\* It does where they have not been taken apart.
LEMMA HeldVisible ==
  ASSUME NEW g, Typed(g), Sound(g), EdgesNat(g), NEW v \in Vertices, NEW R, NEW p, HeldAt(g, R, v, p)
  PROVE  Visible(g, R, v)
<1> DEFINE on == onseg_edges(g, v)
           D == Block(g, v)
           n == g.elem_capacity
<1>1. IsBlock(D, v, on) /\ n \in Nat
  BY BlockIs DEF Typed
<1>2. p \in Nat /\ p + on <= n /\ (v = 0 => p = 0)
  <2>1. p \in 0 .. n - 1
    BY DEF HeldAt
  <2> QED
    BY <1>1, <2>1 DEF HeldAt
<1>3. \A x \in 0 .. on - 1 : R[p + x] = D[x]
  BY DEF HeldAt, Block
<1> HIDE DEF on, D, n
<1>4. Found(R, D, v, on, n)
  BY <1>1, <1>2, <1>3, WholeFound
<1> QED
  BY <1>4 DEF Visible, on, D, n

\* After the first i writes the shifted cells are those of the block.
LEMMA HalfCells ==
  ASSUME NEW g, NEW v, NEW to, Movable(g, v, to), RoomFor(g, v, to), NEW i \in 0 .. Size(g, v, to),
         NEW E, NEW R, HalfMoved(g, v, to, i, E, R), HeldAt(g, E, v, g.vertices_[v].index)
  PROVE  LET on == onseg_edges(g, v)
             ix == g.vertices_[v].index
             D == Block(g, v)
         IN /\ \A x \in 0 .. on - 1 : (\A j \in 1 .. i : ix + x # to + Place(g, v, to, j)) => R[ix + x] = D[x]
            /\ \A j \in 1 .. i : \A x \in 0 .. on - 1 : Place(g, v, to, j) = x => R[to + x] = D[x]
<1> DEFINE on == onseg_edges(g, v)
           ix == g.vertices_[v].index
           D == Block(g, v)
           n == g.elem_capacity
<1>1. on \in Nat \ {0} /\ ix \in Nat /\ ix + on <= n /\ n \in Nat
  BY DEF Movable, RoomFor
<1>2. D = [x \in 0 .. on - 1 |-> g.edges_[ix + x]]
  BY DEF Block
<1>3. \A x \in 0 .. on - 1 : E[ix + x] = D[x]
  BY <1>2 DEF HeldAt
<1>4. ASSUME NEW x \in 0 .. on - 1, \A j \in 1 .. i : ix + x # to + Place(g, v, to, j)
      PROVE  R[ix + x] = D[x]
  <2>1. ix + x \in 0 .. n - 1
    <3> HIDE DEF ix, on, n
    <3> QED
      BY <1>1
  <2>2. R[ix + x] = E[ix + x]
    BY <1>4, <2>1 DEF HalfMoved
  <2> QED
    BY <1>3, <2>2
<1>5. ASSUME NEW j \in 1 .. i, NEW x \in 0 .. on - 1, Place(g, v, to, j) = x
      PROVE  R[to + x] = D[x]
  <2>1. R[to + x] = Belongs(g, v, E, x)
    BY <1>5 DEF HalfMoved
  <2>2. x < on
    BY <1>1
  <2>3. Belongs(g, v, E, x) = E[ix + x]
    BY <2>2 DEF Belongs
  <2> QED
    BY <1>3, <2>1, <2>3
<1> HIDE DEF on, ix, D
<1> QED
  BY <1>4, <1>5 DEF on, ix, D

\* A scan finds the edges of the vertex on its way, which are in its old cells, in
\* its new ones, or in both from where they overlap.
LEMMA HalfVisible ==
  ASSUME NEW g, Typed(g), Sound(g), EdgesNat(g), NEW v \in Vertices,
         NEW to, Movable(g, v, to), RoomFor(g, v, to), NEW i \in 0 .. Size(g, v, to), v = 0 => to = g.vertices_[v].index,
         NEW E, NEW R, HalfMoved(g, v, to, i, E, R), HeldAt(g, E, v, g.vertices_[v].index)
  PROVE  Visible(g, R, v)
<1> DEFINE on == onseg_edges(g, v)
           ix == g.vertices_[v].index
           deg == g.vertices_[v].degree
           D == Block(g, v)
           n == g.elem_capacity
           s == Shifts(g, v, to)
           P(j) == Place(g, v, to, j)
<1>1. /\ on \in Nat \ {0} /\ ix \in Nat /\ ix + on <= n /\ n \in Nat /\ to \in Nat /\ to + deg <= n
      /\ deg \in Nat /\ on <= deg /\ to + on <= n
  <2>1. /\ on \in Nat \ {0} /\ ix \in Int /\ 0 <= ix /\ ix + on <= n /\ n \in Nat /\ to \in Int /\ 0 <= to
        /\ to + deg <= n /\ deg \in Nat /\ on <= deg
    BY DEF Movable, RoomFor, Splits
  <2> HIDE DEF on, ix, deg, n
  <2> QED
    BY <2>1
<1>2. IsBlock(D, v, on)
  BY BlockIs
<1>3. /\ \A x \in 0 .. on - 1 : (\A j \in 1 .. i : ix + x # to + P(j)) => R[ix + x] = D[x]
      /\ \A j \in 1 .. i : \A x \in 0 .. on - 1 : P(j) = x => R[to + x] = D[x]
  BY HalfCells
<1>4. v = 0 => ix = 0
  BY DEF HeldAt
<1>5. s = (IF to = ix THEN 0 ELSE on) /\ i \in Nat /\ i <= s + (deg - on)
  <2>1. s = (IF to = ix THEN 0 ELSE on)
    BY DEF Shifts
  <2>2. Size(g, v, to) = s + (deg - on)
    BY DEF Size
  <2> HIDE DEF s, deg, on, ix
  <2> QED
    BY <1>1, <2>1, <2>2
<1>6. \A j : P(j) = IF j > s THEN deg - (j - s) ELSE IF to < ix THEN j - 1 ELSE on - j
  BY DEF Place
<1> HIDE DEF on, ix, deg, D, n, s, P
<1>7. CASE to = ix
  <2>1. ASSUME NEW x \in 0 .. on - 1, NEW j \in 1 .. i PROVE ix + x # to + P(j)
    <3>1. P(j) = deg - j /\ j \in Nat /\ j <= deg - on
      BY <1>1, <1>5, <1>6, <1>7
    <3> QED
      BY <1>1, <1>7, <3>1
  <2>2. \A x \in 0 .. on - 1 : R[ix + x] = D[x]
    BY <1>3, <2>1
  <2>3. Found(R, D, v, on, n)
    BY <1>1, <1>2, <1>4, <2>2, WholeFound
  <2> QED
    BY <2>3 DEF Visible, D, on, n
<1>8. CASE to < ix
  <2>1. \A j \in 1 .. i : j <= on => P(j) = j - 1
    BY <1>1, <1>5, <1>6, <1>8
  <2>2. \A x \in 0 .. on - 1 : x < i => R[to + x] = D[x]
    <3> SUFFICES ASSUME NEW x \in 0 .. on - 1, x < i PROVE R[to + x] = D[x]
      OBVIOUS
    <3>1. x + 1 \in 1 .. i /\ x + 1 <= on /\ (x + 1) - 1 = x
      BY <1>1, <1>5
    <3>2. P(x + 1) = x
      BY <2>1, <3>1
    <3> QED
      BY <1>3, <3>1, <3>2
  <2>3. v # 0
    BY <1>1, <1>8 DEF ix
  <2>4. CASE on <= i
    <3>1. \A x \in 0 .. on - 1 : R[to + x] = D[x]
      BY <1>1, <1>5, <2>2, <2>4
    <3>2. Found(R, D, v, on, n)
      BY <1>1, <1>2, <2>3, <3>1, WholeFound
    <3> QED
      BY <3>2 DEF Visible, D, on, n
  <2>5. CASE i < on
    <3>1. \A x \in 0 .. on - 1 : to + i <= ix + x => R[ix + x] = D[x]
      <4> SUFFICES ASSUME NEW x \in 0 .. on - 1, to + i <= ix + x PROVE R[ix + x] = D[x]
        OBVIOUS
      <4>1. ASSUME NEW j \in 1 .. i PROVE ix + x # to + P(j)
        <5>1. P(j) = j - 1 /\ j \in Nat /\ j <= i
          BY <1>1, <1>5, <2>1, <2>5
        <5> QED
          BY <1>1, <1>5, <5>1
      <4> QED
        BY <1>3, <4>1
    <3>2. CASE to + i <= ix
      <4>1. \A x \in 0 .. on - 1 : R[ix + x] = D[x]
        BY <1>1, <1>5, <3>1, <3>2
      <4>2. Found(R, D, v, on, n)
        BY <1>1, <1>2, <1>4, <4>1, WholeFound
      <4> QED
        BY <4>2 DEF Visible, D, on, n
    <3>3. CASE ix < to + i
      <4>1. \A x \in 0 .. i - 1 : R[to + x] = D[x]
        BY <1>1, <1>5, <2>2, <2>5
      <4>2. i \in Nat /\ i <= on
        BY <1>1, <1>5, <2>5
      <4>3. Found(R, D, v, on, n)
        BY <1>1, <1>2, <1>8, <2>3, <3>1, <3>3, <4>1, <4>2, SplitFound
      <4> QED
        BY <4>3 DEF Visible, D, on, n
    <3> QED
      BY <1>1, <1>5, <3>2, <3>3
  <2> QED
    BY <1>1, <1>5, <2>4, <2>5
<1>9. CASE ix < to
  <2>1. \A j \in 1 .. i : j <= on => P(j) = on - j
    BY <1>1, <1>5, <1>6, <1>9
  <2>2. \A x \in 0 .. on - 1 : on - i <= x => R[to + x] = D[x]
    <3> SUFFICES ASSUME NEW x \in 0 .. on - 1, on - i <= x PROVE R[to + x] = D[x]
      OBVIOUS
    <3>1. on - x \in 1 .. i /\ on - x <= on /\ on - (on - x) = x
      BY <1>1, <1>5
    <3>2. P(on - x) = x
      BY <2>1, <3>1
    <3> QED
      BY <1>3, <3>1, <3>2
  <2>3. v # 0
    BY <1>1, <1>9 DEF ix
  <2>4. CASE on <= i
    <3>1. \A x \in 0 .. on - 1 : R[to + x] = D[x]
      BY <1>1, <1>5, <2>2, <2>4
    <3>2. Found(R, D, v, on, n)
      BY <1>1, <1>2, <2>3, <3>1, WholeFound
    <3> QED
      BY <3>2 DEF Visible, D, on, n
  <2>5. CASE i < on
    <3> DEFINE m == (to + on) - (i + ix)
    <3>1. \A x \in 0 .. on - 1 : x < m => R[ix + x] = D[x]
      <4> SUFFICES ASSUME NEW x \in 0 .. on - 1, x < m PROVE R[ix + x] = D[x]
        OBVIOUS
      <4>1. ASSUME NEW j \in 1 .. i PROVE ix + x # to + P(j)
        <5>1. P(j) = on - j /\ j \in Nat /\ j <= i
          BY <1>1, <1>5, <2>1, <2>5
        <5> QED
          BY <1>1, <1>5, <5>1
      <4> QED
        BY <1>3, <4>1
    <3>2. CASE on <= m
      <4>1. \A x \in 0 .. on - 1 : R[ix + x] = D[x]
        BY <1>1, <1>5, <3>1, <3>2
      <4>2. Found(R, D, v, on, n)
        BY <1>1, <1>2, <1>4, <4>1, WholeFound
      <4> QED
        BY <4>2 DEF Visible, D, on, n
    <3>3. CASE m < on
      <4>1. m \in Nat /\ m <= on /\ to < ix + m
        BY <1>1, <1>5, <1>9, <2>5, <3>3
      <4>2. \A x \in 0 .. on - 1 : ix + m <= to + x => R[to + x] = D[x]
        <5> SUFFICES ASSUME NEW x \in 0 .. on - 1, ix + m <= to + x PROVE R[to + x] = D[x]
          OBVIOUS
        <5>1. on - i <= x
          BY <1>1, <1>5
        <5> QED
          BY <2>2, <5>1
      <4>3. \A x \in 0 .. m - 1 : R[ix + x] = D[x]
        BY <1>1, <3>1, <3>3, <4>1
      <4> HIDE DEF m
      <4>4. Found(R, D, v, on, n)
        BY <1>1, <1>2, <1>9, <2>3, <4>1, <4>2, <4>3, SplitFound
      <4> QED
        BY <4>4 DEF Visible, D, on, n
    <3> QED
      BY <1>1, <1>5, <3>2, <3>3
  <2> QED
    BY <1>1, <1>5, <2>4, <2>5
<1> QED
  BY <1>1, <1>7, <1>8, <1>9

\* Between two writes, a scan finds all edges that were in the cells.
LEMMA LoopVisible ==
  ASSUME NEW g, NEW a, NEW b, NEW N, LoopPlan(g, a, b, N), NEW A, ArraysOf(g, a, b, N, A),
         NEW k, NEW todo, NEW written, NEW h, LoopAt(g, a, b, N, A, k, todo, written, h),
         EdgesNat(g), NEW v \in Vertices
  PROVE  Visible(g, h.edges_, v)
<1>1. Typed(g) /\ Sound(g)
  BY DEF LoopPlan
<1>2. CASE ~OnItsWay(g, a, b, N, k, v)
  <2>1. HeldAt(g, h.edges_, v, Stand(g, a, b, N, k, v))
    BY <1>2, RestHeld
  <2> QED
    BY <1>1, <2>1, HeldVisible
<1>3. CASE OnItsWay(g, a, b, N, k, v)
  <2> DEFINE order == MoveOrder(g, a, b, N)
             n == b - a
  <2>1. k < n /\ v = order[k + 1]
    BY <1>3 DEF OnItsWay
  <2>2. k \in 0 .. n /\ written \in 0 .. Size(g, v, N[v]) /\ HalfMoved(g, v, N[v], written, A[k], h.edges_)
    BY <2>1 DEF LoopAt
  <2>3. /\ n \in Nat \ {0} /\ order \in [1 .. n -> a .. b - 1]
        /\ \A i, j \in 1 .. n : i # j => order[i] # order[j]
        /\ \A u \in a .. b - 1 : Movable(g, u, N[u]) /\ RoomFor(g, u, N[u])
    BY PlanIs
  <2> HIDE DEF order, n
  <2>4. k + 1 \in 1 .. n /\ v \in a .. b - 1 /\ \A j \in 1 .. k : j \in 1 .. n /\ j # k + 1
    BY <2>1, <2>2, <2>3
  <2>5. \A j \in 1 .. k : order[j] # v
    BY <2>1, <2>3, <2>4
  <2>6. HeldAt(g, A[k], v, g.vertices_[v].index)
    BY <2>2, <2>5, WaitingHeld DEF order, n
  <2>7. v = 0 => N[v] = g.vertices_[v].index
    <3> SUFFICES ASSUME v = 0 PROVE N[v] = g.vertices_[v].index
      OBVIOUS
    <3>1. a \in Nat /\ a <= v
      BY <2>4 DEF LoopPlan
    <3>2. a = 0
      BY <3>1
    <3> QED
      BY <3>2 DEF LoopPlan, Fits
  <2> QED
    BY <1>1, <2>2, <2>3, <2>4, <2>6, <2>7, HalfVisible
<1> QED
  BY <1>2, <1>3

\* A log has an entry for edge e of vertex v.
InLog(log, v, e) == \E i \in DOMAIN log : log[i].u = v /\ log[i].v = e

\* Every edge in the chain of v is in an entry that names v as its source.
ChainOwned(g, v) ==
  \A x \in 1 .. Len(log_chain(g, v)) : InLog(g.log_[SegmentOf(v)], v, log_chain(g, v)[x])

ChainsOwned(g) == \A v \in Vertices : ChainOwned(g, v)

\* It is where neither the log nor the offset has changed.
LEMMA ChainKept ==
  ASSUME NEW g, NEW h, NEW v, ChainOwned(g, v), h.log_[SegmentOf(v)] = g.log_[SegmentOf(v)],
         h.vertices_[v].offset = g.vertices_[v].offset
  PROVE  ChainOwned(h, v)
<1>1. log_chain(h, v) = log_chain(g, v)
  BY LogChainIs
<1> QED
  BY <1>1 DEF ChainOwned

\* And where there is none.
LEMMA ChainEmpty ==
  ASSUME NEW g, LogsTyped(g), NEW v \in Vertices, g.vertices_[v].offset = -1
  PROVE  ChainOwned(g, v)
<1>1. Len(log_chain(g, v)) = 0
  BY AllInCells
<1> QED
  BY <1>1 DEF ChainOwned

\* An entry stays where it is when one is appended.
LEMMA InLogAppended ==
  ASSUME NEW log, IsSequence(log), NEW e, NEW v, NEW d
  PROVE  /\ InLog(log, v, d) => InLog(Append(log, e), v, d)
         /\ e.u = v /\ e.v = d => InLog(Append(log, e), v, d)
<1> DEFINE n == Len(log)
           more == Append(log, e)
<1>1. /\ n \in Nat /\ DOMAIN log = 1 .. n /\ DOMAIN more = 1 .. n + 1
      /\ more[n + 1] = e /\ \A i \in 1 .. n : more[i] = log[i]
  BY DEF IsSequence
<1> HIDE DEF n, more
<1>2. 1 .. n \subseteq 1 .. n + 1 /\ n + 1 \in 1 .. n + 1
  BY <1>1
<1> QED
  BY <1>1, <1>2 DEF InLog, more

\* An insertion.
LEMMA InsertedOwned ==
  ASSUME NEW g, Typed(g), NEW src \in Vertices, NEW dst, NEW h, Inserted(g, src, dst, h), ChainsOwned(g)
  PROVE  ChainsOwned(h)
<1> DEFINE r == SegmentOf(src)
           e == g.vertices_[src]
           entry == [u |-> src, v |-> dst, prev_offset |-> e.offset]
           old == g.log_[r]
<1>0. r \in Leaves /\ Typed(h)
  BY LeafOfVertex DEF Inserted
<1>a. /\ g.vertices_ \in [Vertices -> Entry] /\ g.log_ = [s \in Leaves |-> g.log_[s]]
      /\ Linked(old) /\ e.offset \in -1 .. Len(old) - 1
  BY <1>0 DEF Typed, GraphShape, LogsTyped
<1> SUFFICES ASSUME NEW v \in Vertices PROVE ChainOwned(h, v)
  BY DEF ChainsOwned
<1>b. ChainOwned(g, v) /\ SegmentOf(v) \in Leaves
  BY LeafOfVertex DEF ChainsOwned
<1>1. CASE /\ h.log_ = g.log_
           /\ h.vertices_ = [g.vertices_ EXCEPT ![src] =
                [index |-> e.index, degree |-> e.degree + 1, offset |-> e.offset]]
  <2>1. h.vertices_[v].offset = g.vertices_[v].offset
    BY <1>a, <1>1
  <2>2. h.log_[SegmentOf(v)] = g.log_[SegmentOf(v)]
    BY <1>1
  <2> QED
    BY <1>b, <2>1, <2>2, ChainKept
<1>2. CASE /\ h.log_ = [g.log_ EXCEPT ![r] = Append(@, entry)]
           /\ h.vertices_ = [g.vertices_ EXCEPT ![src] =
                [index |-> e.index, degree |-> e.degree + 1, offset |-> Len(old)]]
  <2>0. h.log_[r] = Append(old, entry) /\ \A s \in Leaves \ {r} : h.log_[s] = g.log_[s]
    BY <1>0, <1>a, <1>2
  <2>1. h.vertices_[src].offset = Len(old) /\ \A w \in Vertices \ {src} : h.vertices_[w].offset = g.vertices_[w].offset
    BY <1>a, <1>2
  <2>2. /\ \A o \in -1 .. Len(old) - 1 : ChainOf(Append(old, entry), o) = ChainOf(old, o)
        /\ ChainOf(Append(old, entry), Len(old)) = <<dst>> \o ChainOf(old, e.offset)
    BY <1>a, ChainOfAppend
  <2>3. IsSequence(old) /\ entry.u = src /\ entry.v = dst
    BY <1>a DEF Linked
  <2>4. CASE SegmentOf(v) # r
    <3>1. v # src /\ SegmentOf(v) \in Leaves \ {r}
      BY <1>b, <2>4
    <3> QED
      BY <1>b, <2>0, <2>1, <3>1, ChainKept
  <2>5. CASE SegmentOf(v) = r /\ v # src
    <3>1. g.vertices_[v].offset \in -1 .. Len(old) - 1
      BY <1>b, <2>5 DEF Typed, LogsTyped
    <3>2. log_chain(h, v) = log_chain(g, v)
      BY <2>0, <2>1, <2>2, <2>5, <3>1, LogChainIs
    <3>3. ASSUME NEW x \in 1 .. Len(log_chain(h, v)) PROVE InLog(h.log_[r], v, log_chain(h, v)[x])
      <4>1. InLog(old, v, log_chain(h, v)[x])
        BY <1>b, <2>5, <3>2 DEF ChainOwned
      <4> HIDE DEF old, entry
      <4> QED
        BY <2>0, <2>3, <4>1, InLogAppended
    <3> QED
      BY <2>5, <3>3 DEF ChainOwned
  <2>6. CASE v = src
    <3> DEFINE c == log_chain(g, src)
    <3>1. c \in Seq(LogValues(old)) /\ log_chain(h, src) = <<dst>> \o c
      BY <2>0, <2>1, <2>2, LogChainIs, ChainOfVertex DEF Typed
    <3>2. \A x \in 1 .. Len(c) : InLog(old, src, c[x])
      BY <1>b, <2>6 DEF ChainOwned
    <3> HIDE DEF c, old, entry
    <3>3. PICK S : c \in Seq(S)
      BY <3>1
    <3> DEFINE q == <<dst>> \o c
    <3>4. Len(c) \in Nat /\ Len(q) = Len(c) + 1 /\ q[1] = dst /\ \A x \in 2 .. Len(q) : q[x] = c[x - 1]
      <4>1. <<dst>> \in Seq({dst} \cup S) /\ c \in Seq({dst} \cup S)
        BY <3>3
      <4> QED
        BY <4>1
    <3> HIDE DEF q
    <3>5. ASSUME NEW x \in 1 .. Len(q) PROVE InLog(h.log_[r], src, q[x])
      <4>1. CASE x = 1
        <5>1. q[x] = dst
          BY <3>4, <4>1
        <5> QED
          BY <2>0, <2>3, <5>1, InLogAppended
      <4>2. CASE x # 1
        <5>1. x \in 2 .. Len(q) /\ x - 1 \in 1 .. Len(c)
          BY <3>4, <4>2
        <5>2. InLog(old, src, q[x])
          BY <3>2, <3>4, <5>1
        <5> QED
          BY <2>0, <2>3, <5>2, InLogAppended
      <4> QED
        BY <4>1, <4>2
    <3>6. log_chain(h, src) = q
      BY <3>1 DEF q
    <3> QED
      BY <2>6, <3>5, <3>6 DEF ChainOwned
  <2> QED
    BY <2>4, <2>5, <2>6
<1> QED
  BY <1>1, <1>2 DEF Inserted

\* A rebalance.
LEMMA RebalancedOwned ==
  ASSUME NEW g, ChainsOwned(g), NEW left \in Leaves, NEW right \in 1 .. leaf_count, left < right,
         NEW N, NEW h, Rebalanced(g, left, right, N, h)
  PROVE  ChainsOwned(h)
<1> SUFFICES ASSUME NEW v \in Vertices PROVE ChainOwned(h, v)
  BY DEF ChainsOwned
<1>1. LogsTyped(h)
  BY DEF Rebalanced, Typed
<1>2. SegmentOf(v) \in Leaves /\ (first(left) <= v /\ v < first(right) <=> left <= SegmentOf(v) /\ SegmentOf(v) < right)
  BY LeafOfVertex, WindowOfLeaves
<1>3. CASE first(left) <= v /\ v < first(right)
  <2>1. h.vertices_[v].offset = -1
    BY <1>3 DEF Rebalanced, MovedTo
  <2> QED
    BY <1>1, <2>1, ChainEmpty
<1>4. CASE ~(first(left) <= v /\ v < first(right))
  <2>1. h.vertices_[v].offset = g.vertices_[v].offset
    BY <1>4 DEF Rebalanced
  <2>2. h.log_[SegmentOf(v)] = g.log_[SegmentOf(v)]
    BY <1>2, <1>4 DEF Rebalanced
  <2>3. ChainOwned(g, v)
    BY DEF ChainsOwned
  <2> QED
    BY <2>1, <2>2, <2>3, ChainKept
<1> QED
  BY <1>3, <1>4

\* The same edges are to the same vertex numbers.
LEMMA SameNat == ASSUME NEW g, NEW h, SameEdges(g, h), EdgesNat(g) PROVE EdgesNat(h)
<1> SUFFICES ASSUME NEW v \in Vertices, NEW j \in 1 .. h.vertices_[v].degree - 1 PROVE EdgeAt(h, v, j) \in Nat
  BY DEF EdgesNat
<1>1. /\ h.vertices_[v].degree = g.vertices_[v].degree
      /\ \A x \in 0 .. g.vertices_[v].degree - 1 : EdgeAt(h, v, x) = EdgeAt(g, v, x)
  BY DEF SameEdges
<1>2. j \in 1 .. g.vertices_[v].degree - 1
  BY <1>1
<1>3. j \in 0 .. g.vertices_[v].degree - 1
  <2> DEFINE d == g.vertices_[v].degree - 1
  <2>1. j \in 1 .. d
    BY <1>2
  <2> HIDE DEF d
  <2>2. j \in 0 .. d
    BY <2>1
  <2> QED
    BY <2>2 DEF d
<1>4. EdgeAt(g, v, j) \in Nat
  BY <1>2 DEF EdgesNat
<1> QED
  BY <1>1, <1>3, <1>4

\* So are those and one more.
LEMMA MoreNat ==
  ASSUME NEW g, NEW h, NEW src \in Vertices, NEW dst \in Nat, OneEdgeMore(g, src, dst, h), EdgesNat(g), Typed(g)
  PROVE  EdgesNat(h)
<1> SUFFICES ASSUME NEW v \in Vertices, NEW j \in 1 .. h.vertices_[v].degree - 1 PROVE EdgeAt(h, v, j) \in Nat
  BY DEF EdgesNat
<1> DEFINE d == g.vertices_[v].degree
<1>1. /\ h.vertices_[v].degree = IF v = src THEN d + 1 ELSE d
      /\ \A x \in 0 .. d - 1 : EdgeAt(h, v, x) = EdgeAt(g, v, x)
  BY DEF OneEdgeMore
<1>2. d \in Nat \ {0}
  BY DEF Typed, Entry
<1>3. \A x \in 1 .. d - 1 : EdgeAt(g, v, x) \in Nat
  BY DEF EdgesNat
<1>4. v = src => EdgeAt(h, v, d) = dst
  BY DEF OneEdgeMore
<1> HIDE DEF d
<1>5. j \in 1 .. d - 1 \/ (v = src /\ j = d)
  BY <1>1, <1>2
<1>6. CASE j \in 1 .. d - 1
  <2>1. j \in 0 .. d - 1
    BY <1>2, <1>6
  <2> QED
    BY <1>1, <1>3, <1>6, <2>1
<1> QED
  BY <1>4, <1>5, <1>6

\* The destinations of the base graph are vertex numbers.
LEMMA BaseNat == EdgesNat(BaseGraph) /\ ChainsOwned(BaseGraph)
<1>1. EdgesNat(Packed)
  <2> SUFFICES ASSUME NEW v \in Vertices, NEW j \in 1 .. Packed.vertices_[v].degree - 1
               PROVE  EdgeAt(Packed, v, j) \in Nat
    BY DEF EdgesNat
  <2> DEFINE deg == PackedDegree(v)
             mine == Cardinality({i \in DOMAIN edge_list : edge_list[i].u = v})
             before == Cardinality({i \in DOMAIN edge_list : edge_list[i].u < v})
             upto == Cardinality({i \in DOMAIN edge_list : edge_list[i].u < v + 1})
  <2>1. /\ Packed.vertices_[v].index = PackedIndex(v) /\ Packed.vertices_[v].degree = deg
        /\ Packed.vertices_[v].offset = -1 /\ PackedIndex(v) \in Nat /\ deg \in Nat \ {0}
        /\ PackedIndex(v + 1) = PackedIndex(v) + deg
        /\ PackedIndex(v + 1) <= initial_capacity
    BY PackedInOrder
  <2>2. onseg_edges(Packed, v) = deg /\ LogsTyped(Packed)
    BY <2>1, PackedIs, AllInCells DEF Typed
  <2>3. v \in Nat
    BY TreeShape DEF Vertices
  <2>4. before \in Nat /\ mine \in Nat /\ upto = before + mine
    BY <2>3, EdgeCounts
  <2>5. upto <= Len(edge_list) /\ Len(edge_list) \in Nat
    <3>1. Len(edge_list) \in Nat /\ DOMAIN edge_list = 1 .. Len(edge_list)
      BY PmaAssumption
    <3>2. IsFiniteSet(1 .. Len(edge_list)) /\ Cardinality(1 .. Len(edge_list)) = Len(edge_list)
      <4>1. \A m \in Nat : IsFiniteSet(1 .. m) /\ Cardinality(1 .. m) = m
        BY FS_Interval
      <4> QED
        BY <3>1, <4>1
    <3> DEFINE S == {i \in DOMAIN edge_list : edge_list[i].u < v + 1}
    <3>3. S \in SUBSET (1 .. Len(edge_list))
      BY <3>1
    <3> HIDE DEF S
    <3>4. Cardinality(S) <= Cardinality(1 .. Len(edge_list))
      BY <3>2, <3>3, FS_Subset
    <3> QED
      BY <3>1, <3>2, <3>4 DEF S
  <2>6. deg = 1 + mine /\ PackedIndex(v) = v + before
    BY DEF PackedDegree, PackedIndex
  <2> HIDE DEF deg, mine, before, upto
  <2>7. j \in 1 .. deg - 1 /\ j \in 0 .. deg - 1 /\ j # 0 /\ j < deg
    BY <2>1
  <2>8. PackedCell(PackedIndex(v) + j) = edge_list[(PackedIndex(v) + j) - v].v
    BY <2>7, PackedCellIs DEF deg
  <2>9. (PackedIndex(v) + j) - v \in 1 .. Len(edge_list)
    BY <2>3, <2>4, <2>5, <2>6, <2>7
  <2>10. edge_list[(PackedIndex(v) + j) - v].v \in Nat
    <3> DEFINE x == (PackedIndex(v) + j) - v
               K == [u : 0 .. n_vertices - 1, v : 0 .. n_vertices - 1]
    <3>1. edge_list \in Seq(K) /\ n_vertices \in Nat
      BY PmaAssumption
    <3>2. \A y \in K : y.v \in 0 .. n_vertices - 1
      OBVIOUS
    <3>3. x \in 1 .. Len(edge_list)
      BY <2>9
    <3> HIDE DEF x, K
    <3>4. edge_list[x] \in K
      BY <3>1, <3>3
    <3>5. edge_list[x].v \in Nat
      BY <3>1, <3>2, <3>4
    <3> QED
      BY <3>5 DEF x
  <2>11. PackedIndex(v) + j \in 0 .. initial_capacity - 1
    BY <2>1, <2>7, TreeShape
  <2>12. Packed.edges_[PackedIndex(v) + j] = PackedCell(PackedIndex(v) + j)
    BY <2>11 DEF Packed
  <2>13. EdgeAt(Packed, v, j) = Packed.edges_[PackedIndex(v) + j]
    BY <2>1, <2>2, <2>7 DEF EdgeAt
  <2> QED
    BY <2>8, <2>10, <2>12, <2>13
<1>2. EdgesNat(BaseGraph)
  BY <1>1, BaseSound, SameNat
<1>3. ASSUME NEW v \in Vertices PROVE ChainOwned(BaseGraph, v)
  <2>1. LogsTyped(BaseGraph)
    BY BaseIs DEF Typed
  <2>2. BaseGraph.vertices_[v].offset = -1
    BY BaseIs DEF MovedTo
  <2> QED
    BY <2>1, <2>2, ChainEmpty
<1> QED
  BY <1>2, <1>3 DEF ChainsOwned

\* What out_neigh reads is in a cell of v or in its chain.
LEMMA NeighboursAre ==
  ASSUME NEW g, Typed(g), Sound(g), NEW v \in Vertices, NEW i \in DOMAIN out_neigh(g, v)
  PROVE  \/ i \in 1 .. onseg_edges(g, v) - 1 /\ out_neigh(g, v)[i] = Block(g, v)[i]
         \/ \E x \in 1 .. Len(log_chain(g, v)) : out_neigh(g, v)[i] = log_chain(g, v)[x]
<1> DEFINE on == onseg_edges(g, v)
           deg == g.vertices_[v].degree
           ix == g.vertices_[v].index
           c == on - 1
           d == onseg_dsts(g, v)
           chain == log_chain(g, v)
           rest == IF deg > on THEN chain ELSE <<>>
           D == Block(g, v)
           out == out_neigh(g, v)
<1>1. deg \in Nat \ {0} /\ on \in Nat \ {0} /\ on <= deg
  BY SoundIs
<1>2. chain \in Seq(LogValues(g.log_[SegmentOf(v)]))
  BY ChainOfVertex DEF Typed
<1>3. d = [x \in 1 .. c |-> g.edges_[ix + x]] /\ D = [x \in 0 .. on - 1 |-> g.edges_[ix + x]]
  BY DEF onseg_dsts, Block
<1>4. out = IF deg <= 1 THEN <<>> ELSE d \o rest
  BY DEF out_neigh
<1> DEFINE T == {g.edges_[ix + x] : x \in 1 .. c} \cup LogValues(g.log_[SegmentOf(v)])
<1>5. d \in [1 .. c -> T] /\ LogValues(g.log_[SegmentOf(v)]) \subseteq T
  BY <1>3
<1> HIDE DEF on, deg, d, chain, D, out, T
<1>6. c \in Nat
  BY <1>1
<1>7. d \in Seq(T) /\ Len(d) = c /\ chain \in Seq(T)
  <2>1. chain \in Seq(T)
    BY <1>2, <1>5
  <2> HIDE DEF c
  <2> QED
    BY <1>5, <1>6, <2>1
<1>8. rest \in Seq(T) /\ Len(rest) \in Nat /\ (Len(rest) # 0 => rest = chain)
  BY <1>7
<1> HIDE DEF rest, c
<1>9. i \in DOMAIN out
  BY DEF out
<1>10. out = d \o rest
  BY <1>4, <1>9
<1>11. DOMAIN out = 1 .. c + Len(rest) /\ \A x \in 1 .. c + Len(rest) : out[x] = IF x <= c THEN d[x] ELSE rest[x - c]
  <2>1. \A p, q \in Seq(T) : /\ DOMAIN (p \o q) = 1 .. Len(p) + Len(q)
                             /\ \A x \in 1 .. Len(p) + Len(q) : (p \o q)[x] = IF x <= Len(p) THEN p[x] ELSE q[x - Len(p)]
    OBVIOUS
  <2>2. /\ DOMAIN (d \o rest) = 1 .. Len(d) + Len(rest)
        /\ \A x \in 1 .. Len(d) + Len(rest) : (d \o rest)[x] = IF x <= Len(d) THEN d[x] ELSE rest[x - Len(d)]
    BY <1>7, <1>8, <2>1
  <2> QED
    BY <1>7, <1>10, <2>2
<1>12. CASE i <= c
  <2>1. i \in 1 .. c /\ out[i] = d[i]
    BY <1>6, <1>8, <1>9, <1>11, <1>12
  <2>2. i \in 1 .. on - 1 /\ i \in 0 .. on - 1
    BY <1>1, <2>1 DEF c
  <2>3. d[i] = D[i]
    BY <1>3, <2>1, <2>2
  <2> QED
    BY <2>1, <2>2, <2>3 DEF on, out, D
<1>13. CASE ~(i <= c)
  <2>1. i - c \in 1 .. Len(rest) /\ out[i] = rest[i - c]
    BY <1>6, <1>8, <1>9, <1>11, <1>13
  <2>2. rest = chain
    BY <1>8, <2>1
  <2> QED
    BY <2>1, <2>2 DEF out, chain
<1> QED
  BY <1>12, <1>13

\* All edges of v in g are found in the array and the log of the graph as it is.
EdgesFound(g, v) ==
  LET edges == out_neigh(g, v) IN
  \A i \in DOMAIN edges :
    \/ \E c \in DOMAIN graph.edges_ : graph.edges_[c] = edges[i] /\ ScanOwner(c) = v
    \/ \E j \in DOMAIN graph.log_[SegmentOf(v)] :
         /\ graph.log_[SegmentOf(v)][j].u = v
         /\ graph.log_[SegmentOf(v)][j].v = edges[i]

\* They are if the scan finds those in cells, and the log has not been released.
LEMMA AllFound ==
  ASSUME NEW g, Typed(g), Sound(g), ChainsOwned(g), NEW v \in Vertices, Visible(g, graph.edges_, v),
         DOMAIN graph.edges_ = 0 .. g.elem_capacity - 1, graph.log_ = g.log_
  PROVE  EdgesFound(g, v)
<1> DEFINE edges == out_neigh(g, v)
<1> HIDE DEF edges
<1>1. v \in Nat
  BY TreeShape DEF Vertices
<1>2. ASSUME NEW i \in DOMAIN edges
      PROVE  \/ \E c \in DOMAIN graph.edges_ : graph.edges_[c] = edges[i] /\ ScanOwner(c) = v
             \/ \E j \in DOMAIN graph.log_[SegmentOf(v)] :
                  graph.log_[SegmentOf(v)][j].u = v /\ graph.log_[SegmentOf(v)][j].v = edges[i]
  <2>1. \/ i \in 1 .. onseg_edges(g, v) - 1 /\ edges[i] = Block(g, v)[i]
        \/ \E x \in 1 .. Len(log_chain(g, v)) : edges[i] = log_chain(g, v)[x]
    BY NeighboursAre DEF edges
  <2>2. CASE i \in 1 .. onseg_edges(g, v) - 1 /\ edges[i] = Block(g, v)[i]
    <3>1. PICK p, c \in 0 .. g.elem_capacity - 1 :
            Scanned(graph.edges_, v, p, c) /\ graph.edges_[c] = Block(g, v)[i]
      BY <2>2 DEF Visible, Found
    <3>2. ScanOwner(c) = v
      BY <1>1, <3>1, ScanIs
    <3> QED
      BY <2>2, <3>1, <3>2
  <2>3. CASE \E x \in 1 .. Len(log_chain(g, v)) : edges[i] = log_chain(g, v)[x]
    <3>1. PICK x \in 1 .. Len(log_chain(g, v)) : edges[i] = log_chain(g, v)[x]
      BY <2>3
    <3>2. InLog(g.log_[SegmentOf(v)], v, edges[i])
      BY <3>1 DEF ChainsOwned, ChainOwned
    <3> QED
      BY <3>2 DEF InLog
  <2> QED
    BY <2>1, <2>2, <2>3
<1> QED
  BY <1>2 DEF EdgesFound, edges

\* Where the last insertion has left them, destinations are numbers, and chains
\* run through entries of their own vertex.
FoundInv ==
  Ingesting => inserted \in Nat /\ EdgesNat(Settled) /\ ChainsOwned(Settled)

\* The base graph.
LEMMA FoundInitial == PersistInit => FoundInv
<1> SUFFICES ASSUME PersistInit PROVE FoundInv
  OBVIOUS
<1>1. ~task.active /\ graph = BaseGraph /\ inserted = 0
  BY DEF PersistInit, UndoInit, Idle, IdleFor
<1> QED
  BY <1>1, BaseNat DEF FoundInv, Settled

\* Insertions and rebalances.
LEMMA IngestKeepsFound == ASSUME LoopInv, FoundInv, Ingest PROVE FoundInv'
<1>0. phase = "ingesting" /\ phase' = "ingesting"
  BY DEF Ingest, poolVars
<1>a. inserted \in Nat /\ EdgesNat(Settled) /\ ChainsOwned(Settled)
  BY <1>0 DEF FoundInv, Ingesting
<1>1. ASSUME NEW src \in Sources, InsertNow(src) PROVE FoundInv'
  <2>1. /\ ~task.active /\ ~LogIsFull(graph, src) /\ graph' = do_insertion(graph, src, FreshDst)
        /\ src \in Vertices
    BY <1>1, SourcesAreVertices DEF InsertNow, Free
  <2>2. Good(graph) /\ Typed(graph)
    BY <1>0, <2>1 DEF LoopInv, Settled, Ingesting, Good
  <2>3. Inserted(graph, src, FreshDst, graph') /\ OneEdgeMore(graph, src, FreshDst, graph')
    BY <2>1, <2>2, InsertGood
  <2>4. FreshDst \in Nat /\ inserted' \in Nat
    <3>1. num_vertices \in Nat
      BY TreeShape
    <3>2. inserted' = inserted + 1
      BY <1>1 DEF InsertNow
    <3> QED
      BY <1>a, <3>1, <3>2 DEF FreshDst
  <2>5. EdgesNat(graph) /\ ChainsOwned(graph)
    BY <1>a, <2>1 DEF Settled
  <2>6. EdgesNat(graph') /\ ChainsOwned(graph')
    <3> DEFINE h == graph'
               e == FreshDst
    <3> HIDE DEF h, e
    <3>1. Inserted(graph, src, e, h) /\ OneEdgeMore(graph, src, e, h) /\ e \in Nat
      BY <2>3, <2>4 DEF h, e
    <3>2. EdgesNat(h) /\ ChainsOwned(h)
      BY <2>1, <2>2, <2>5, <3>1, MoreNat, InsertedOwned
    <3> QED
      BY <3>2 DEF h
  <2>7. ~task'.active
    BY <1>1 DEF InsertNow, Idle, IdleFor
  <2> QED
    BY <2>4, <2>6, <2>7 DEF FoundInv, Settled
<1>2. ASSUME NEW W, NEW next, ~task.active, Begin(W, next) PROVE FoundInv'
  <2>1. task'.active /\ task'.before = graph /\ inserted' = inserted
    BY <1>2 DEF Begin, NewTask
  <2>2. EdgesNat(graph) /\ ChainsOwned(graph)
    BY <1>a, <1>2 DEF Settled
  <2> QED
    BY <1>a, <2>1, <2>2 DEF FoundInv, Settled
<1>3. CASE WriteCell
  <2>1. task' = [task EXCEPT !.written = @ + 1] /\ task.active /\ inserted' = inserted
    BY <1>3 DEF WriteCell
  <2>2. TaskShape
    BY DEF LoopInv
  <2>3. task'.active /\ task'.before = task.before
    BY <2>1, <2>2 DEF TaskShape
  <2> QED
    BY <1>a, <2>1, <2>3 DEF FoundInv, Settled
<1>4. CASE FinishVertex
  <2>1. task' = [task EXCEPT !.order = Tail(@), !.written = 0] /\ task.active /\ inserted' = inserted
    BY <1>4 DEF FinishVertex
  <2>2. TaskShape
    BY DEF LoopInv
  <2>3. task'.active /\ task'.before = task.before
    BY <2>1, <2>2 DEF TaskShape
  <2> QED
    BY <1>a, <2>1, <2>3 DEF FoundInv, Settled
<1>5. CASE FinishRebalance
  <2>1. task.active /\ inserted' = inserted
    BY <1>5 DEF FinishRebalance
  <2>2. PICK left, right :
          /\ task' = IdleFor(task.next) /\ task.window = left .. right - 1
          /\ Moves(task.before, left, right, task.new_index)
          /\ graph' = rebalance_weighted(task.before, left * segment_size, right * segment_size,
                                         Used(task.before, task.window), Total(task.before, task.window))
    BY <1>5, TaskEnds
  <2>3. Good(task.before)
    BY <1>0, <2>1 DEF LoopInv, Settled, Ingesting
  <2> DEFINE h == graph'
             g == task.before
             N == task.new_index
  <2>4. h = rebalance_weighted(g, left * segment_size, right * segment_size,
                               Used(g, left .. right - 1), Total(g, left .. right - 1))
        /\ Moves(g, left, right, N) /\ Good(g)
    BY <2>2, <2>3
  <2> HIDE DEF h, g, N
  <2>5. SameEdges(g, h) /\ Rebalanced(g, left, right, N, h)
    BY <2>4, RebalanceGood
  <2>6. left \in Leaves /\ right \in 1 .. leaf_count /\ left < right
    BY <2>4 DEF Moves
  <2>7. EdgesNat(g) /\ ChainsOwned(g)
    BY <1>a, <2>1 DEF Settled, g
  <2>8. EdgesNat(h)
    BY <2>5, <2>7, SameNat
  <2>9. ChainsOwned(h)
    BY <2>5, <2>6, <2>7, RebalancedOwned
  <2>10. ~task'.active
    BY <2>2 DEF IdleFor
  <2> QED
    BY <1>a, <2>1, <2>8, <2>9, <2>10 DEF FoundInv, Settled, h
<1> QED
  BY <1>1, <1>2, <1>3, <1>4, <1>5 DEF Ingest, BeginLeaf, BeginWindow, Free, RebalanceStep

\* A resize.
LEMMA ResizeKeepsFound ==
  ASSUME LoopInv, FoundInv, AssertionsHold, ResizeFree \/ ResizeInstall \/ ResizeRecord
  PROVE  FoundInv'
<1>0. Ingesting
  BY DEF ResizeFree, ResizeInstall, ResizeRecord, Ingesting
<1>a. inserted \in Nat /\ EdgesNat(Settled) /\ ChainsOwned(Settled)
  BY <1>0 DEF FoundInv
<1>1. CASE ResizeFree
  BY <1>1, <1>a DEF ResizeFree, rebalanceVars, FoundInv, Settled
<1>b. ASSUME NEW h, LogsTyped(h), \A v \in Vertices : h.vertices_[v].offset = -1 PROVE ChainsOwned(h)
  BY <1>b, ChainEmpty DEF ChainsOwned
<1>2. CASE ResizeInstall
  <2>1. PICK src \in Sources : NoRoomFor(src)
    BY <1>2 DEF ResizeInstall, LoopInv
  <2>2. ~task.active /\ Good(graph)
    BY <1>2, <2>1 DEF ResizeInstall, LoopInv, NoRoomFor, Settled, Ingesting
  <2>3. PositionsAsserted([graph EXCEPT !.elem_capacity = 2 * @], 0, num_vertices,
                          2 * graph.elem_capacity - graph.num_edges_, graph.num_edges_)
    BY <1>2, <2>1 DEF AssertionsHold, ResizeInstall
  <2>4. graph' = [resize_V1(graph) EXCEPT !.log_ = graph.log_] /\ task' = task /\ inserted' = inserted
    BY <1>2 DEF ResizeInstall
  <2>5. Good(graph') /\ SameEdges(graph, graph') /\ \A v \in Vertices : graph'.vertices_[v].offset = -1
    BY <2>2, <2>3, <2>4, ResizeGood
  <2> DEFINE h == graph'
  <2>6. EdgesNat(graph) /\ Good(h) /\ SameEdges(graph, h) /\ \A v \in Vertices : h.vertices_[v].offset = -1
    BY <1>a, <2>2, <2>5 DEF Settled
  <2> HIDE DEF h
  <2>7. LogsTyped(h)
    BY <2>6 DEF Good, Typed
  <2>8. EdgesNat(h) /\ ChainsOwned(h)
    BY <1>b, <2>6, <2>7, SameNat
  <2> QED
    BY <1>a, <2>2, <2>4, <2>8 DEF FoundInv, Settled, h
<1>3. CASE ResizeRecord
  <2>1. /\ graph' = release_log(graph, 0, leaf_count) /\ task' = Idle /\ phase = "installed" /\ inserted' = inserted
    BY <1>3 DEF ResizeRecord
  <2>2. ~task.active /\ Good(graph) /\ \A v \in Vertices : graph.vertices_[v].offset = -1
    BY <2>1 DEF LoopInv, Settled, Ingesting
  <2> DEFINE h == graph'
  <2>3. h = release_log(graph, 0, leaf_count) /\ EdgesNat(graph)
    BY <1>a, <2>1, <2>2 DEF Settled
  <2> HIDE DEF h
  <2>4. Good(h) /\ SameEdges(graph, h)
    BY <2>2, <2>3, ReleaseGood
  <2>5. h.vertices_ = graph.vertices_
    <3>1. GraphShape(graph)
      BY <2>2 DEF Good, Typed
    <3> QED
      BY <2>3, <3>1 DEF release_log, GraphShape
  <2>6. LogsTyped(h)
    BY <2>4 DEF Good, Typed
  <2>7. EdgesNat(h) /\ ChainsOwned(h)
    BY <1>b, <2>2, <2>3, <2>4, <2>5, <2>6, SameNat
  <2>8. ~task'.active
    BY <2>1 DEF Idle, IdleFor
  <2> QED
    BY <1>a, <2>1, <2>7, <2>8 DEF FoundInv, Settled, h
<1> QED
  BY <1>1, <1>2, <1>3

\* Every step.
LEMMA FoundInductive ==
  FoundInv /\ LoopInv /\ AssertionsHold /\ [PersistNext]_persistVars => FoundInv'
<1> SUFFICES ASSUME FoundInv, LoopInv, AssertionsHold, [PersistNext]_persistVars PROVE FoundInv'
  OBVIOUS
<1>1. CASE UNCHANGED persistVars
  BY <1>1 DEF persistVars, FoundInv, Ingesting, Settled
<1>2. CASE Close \/ CopyField \/ FlushField \/ CloseDone \/ Kill \/ ReopenBackup \/ ReopenRecovery \/ ReopenFails
  <2>1. phase' \in {"closing", "off", "open", "failed"}
    BY <1>2 DEF Close, CopyField, FlushField, CloseDone, Kill, ReopenBackup, ReopenRecovery, ReopenFails
  <2> QED
    BY <2>1 DEF FoundInv, Ingesting
<1> QED
  BY <1>1, <1>2, IngestKeepsFound, ResizeKeepsFound DEF PersistNext

\* In every state of an ingestion.
LEMMA FoundInArray ==
  ASSUME LoopInv, FoundInv, Ingesting, NEW v \in Vertices PROVE EdgesFound(Settled, v)
<1>1. Typed(Settled) /\ Sound(Settled) /\ EdgesNat(Settled) /\ ChainsOwned(Settled)
  BY DEF LoopInv, FoundInv, Good
<1>2. CASE task.active
  <2>1. PICK left, right :
          /\ Moves(task.before, left, right, task.new_index)
          /\ LoopSomewhere(task.before, left, right, task.new_index, task.order, task.written, graph)
    BY <1>2 DEF LoopInv, TaskRuns
  <2> DEFINE g == task.before
             a == first(left)
             b == first(right)
             N == task.new_index
  <2>2. PICK A, k : ArraysOf(g, a, b, N, A) /\ LoopAt(g, a, b, N, A, k, task.order, task.written, graph)
    BY <2>1 DEF LoopSomewhere
  <2>3. LoopPlan(g, a, b, N)
    BY <2>1 DEF Moves
  <2>4. Settled = g
    BY <1>2 DEF Settled
  <2> HIDE DEF g, a, b, N
  <2>5. Visible(g, graph.edges_, v)
    BY <1>1, <2>2, <2>3, <2>4, LoopVisible
  <2>6. graph.edges_ \in Arrays(g.elem_capacity, CellValues(g))
        /\ graph = [g EXCEPT !.edges_ = graph.edges_, !.vertices_ = graph.vertices_]
    BY <2>2 DEF LoopAt
  <2>7. DOMAIN graph.edges_ = 0 .. g.elem_capacity - 1
    BY <2>6 DEF Arrays
  <2>8. graph.log_ = g.log_
    <3>1. GraphShape(g)
      BY <1>1, <2>4 DEF Typed
    <3> DEFINE E == graph.edges_
               V == graph.vertices_
    <3>2. graph = [g EXCEPT !.edges_ = E, !.vertices_ = V]
      BY <2>6
    <3> HIDE DEF E, V
    <3> QED
      BY <3>1, <3>2 DEF GraphShape
  <2> QED
    BY <1>1, <2>4, <2>5, <2>7, <2>8, AllFound
<1>3. CASE ~task.active
  <2>1. Settled = graph
    BY <1>3 DEF Settled
  <2>2. /\ graph.vertices_[v].index \in 0 .. graph.elem_capacity - 1
        /\ graph.vertices_[v].index + onseg_edges(graph, v) <= NextIndex(graph, v)
        /\ NextIndex(graph, v) \in Int /\ NextIndex(graph, v) <= graph.elem_capacity
        /\ onseg_edges(graph, v) \in Nat /\ graph.elem_capacity \in Nat
    BY <1>1, <2>1, SoundIs DEF Typed
  <2>3. graph.vertices_[v].index + onseg_edges(graph, v) <= graph.elem_capacity
    BY <2>2
  <2>4. HeldAt(graph, graph.edges_, v, graph.vertices_[v].index)
    BY <1>1, <2>1, <2>2, <2>3 DEF HeldAt, Sound
  <2>5. Visible(graph, graph.edges_, v)
    BY <1>1, <2>1, <2>4, HeldVisible
  <2>6. DOMAIN graph.edges_ = 0 .. graph.elem_capacity - 1
    BY <1>1, <2>1 DEF Typed, Arrays
  <2> QED
    BY <1>1, <2>1, <2>5, <2>6, AllFound
<1> QED
  BY <1>2, <1>3

\* The array has the cells the graph counts, in the middle of a rebalance too.
LEMMA ArrayCells ==
  ASSUME LoopInv, Ingesting PROVE DOMAIN graph.edges_ = 0 .. graph.elem_capacity - 1
<1>1. CASE task.active
  <2>1. PICK left, right :
          /\ Moves(task.before, left, right, task.new_index)
          /\ LoopSomewhere(task.before, left, right, task.new_index, task.order, task.written, graph)
    BY <1>1 DEF LoopInv, TaskRuns
  <2> DEFINE g == task.before
             E == graph.edges_
             V == graph.vertices_
  <2>2. GraphShape(g)
    BY <2>1 DEF Moves, LoopPlan, Typed
  <2>3. E \in Arrays(g.elem_capacity, CellValues(g)) /\ graph = [g EXCEPT !.edges_ = E, !.vertices_ = V]
    BY <2>1 DEF LoopSomewhere, LoopAt
  <2> HIDE DEF g, E, V
  <2>4. graph.elem_capacity = g.elem_capacity
    BY <2>2, <2>3 DEF GraphShape
  <2> QED
    BY <2>3, <2>4 DEF Arrays, E
<1>2. CASE ~task.active
  BY <1>2 DEF LoopInv, Settled, Good, Typed, Arrays
<1> QED
  BY <1>1, <1>2

\* The root object names and counts the array.
LEMMA FoundIsEverywhere == LoopInv /\ FoundInv /\ PersistInv => EveryEdgeFound
<1> SUFFICES ASSUME LoopInv, FoundInv, PersistInv, phase = "ingesting" PROVE EveryEdgeFound
  BY DEF EveryEdgeFound
<1>1. root.elem_capacity = graph.elem_capacity /\ root.edges_oid_ = graph.elem_capacity
  BY DEF PersistInv, Capacities
<1>2. DOMAIN graph.edges_ = 0 .. graph.elem_capacity - 1
  BY ArrayCells DEF Ingesting
<1>3. \A v \in Vertices : EdgesFound(Settled, v)
  BY FoundInArray DEF Ingesting
<1> QED
  BY <1>1, <1>2, <1>3 DEF EveryEdgeFound, EdgesFound, Settled

\* A process killed between any two writes of a rebalance leaves every edge where a scan
\* of the array that the root object names finds it, or in the log.
THEOREM NoEdgeIsLost == PersistSpec /\ []AssertionsHold => []EveryEdgeFound
BY FoundInitial, FoundInductive, LoopInvariant, FoundIsEverywhere, PersistInvariant, PTL DEF PersistSpec

-----------------------------------------------------------------------------
(***************************************************************************)
(* What the undo log covers.                                                *)
(***************************************************************************)
\* A rebalance of g with vertices todo left, i writes made of the first of them, has
\* written cell c: shifted a vertex that has arrived over it, or made one of the i.
Wrote(g, N, todo, i, c) ==
  \E v \in DOMAIN N :
    \/ /\ \A n \in DOMAIN todo : todo[n] # v
       /\ N[v] # g.vertices_[v].index
       /\ \E x \in 0 .. onseg_edges(g, v) - 1 : c = N[v] + x
    \/ /\ todo # <<>> /\ v = Head(todo)
       /\ \E j \in 1 .. i : c = N[v] + Place(g, v, N[v], j)

\* A cell of the vertex on its way is at its new place from its write on, and at its
\* old place as long, its write included.
LEMMA HalfStands ==
  ASSUME NEW g, NEW v, NEW to, Movable(g, v, to), RoomFor(g, v, to), NEW i \in 0 .. Size(g, v, to),
         NEW E, NEW R, HalfMoved(g, v, to, i, E, R), HeldAt(g, E, v, g.vertices_[v].index),
         NEW x \in 0 .. onseg_edges(g, v) - 1
  PROVE  /\ \A j \in 1 .. i : Place(g, v, to, j) = x => R[to + x] = Block(g, v)[x]
         /\ (\A j \in 1 .. i - 1 : Place(g, v, to, j) # x)
              => R[g.vertices_[v].index + x] = Block(g, v)[x]
<1> DEFINE on == onseg_edges(g, v)
           ix == g.vertices_[v].index
           deg == g.vertices_[v].degree
           D == Block(g, v)
           s == Shifts(g, v, to)
           n == Size(g, v, to)
           P(j) == Place(g, v, to, j)
<1>1. /\ \A d \in 0 .. on - 1 : (\A j \in 1 .. i : ix + d # to + P(j)) => R[ix + d] = D[d]
      /\ \A j \in 1 .. i : \A d \in 0 .. on - 1 : P(j) = d => R[to + d] = D[d]
  BY HalfCells
<1>2. /\ n \in Nat
      /\ \A j \in 1 .. n : P(j) \in 0 .. deg - 1 /\ (j <= s <=> P(j) < on)
      /\ \A j, l \in 1 .. n : j < l /\ l <= s => to + P(j) # ix + P(l)
      /\ \A d \in 0 .. deg - 1 : d >= on \/ to # ix => \E j \in 1 .. n : P(j) = d
  BY PlacesApart
<1>3. on \in Nat \ {0} /\ on <= deg /\ deg \in Nat /\ ix \in Int /\ to \in Int
  BY DEF Movable, Splits
<1>4. to = ix => s = 0
  BY DEF Shifts
<1> HIDE DEF on, ix, deg, D, s, n, P
<1>5. ASSUME \A j \in 1 .. i - 1 : P(j) # x, NEW j \in 1 .. i PROVE ix + x # to + P(j)
  <2>1. j \in 1 .. n /\ P(j) \in Int /\ x \in Int /\ x \in 0 .. deg - 1 /\ x < on
    BY <1>2, <1>3 DEF on, n
  <2>2. CASE to = ix
    BY <1>2, <1>3, <1>4, <2>1, <2>2
  <2>3. CASE to # ix
    <3>1. PICK l \in 1 .. n : P(l) = x
      BY <1>2, <2>1, <2>3
    <3>2. l <= s /\ ~(l \in 1 .. i - 1)
      BY <1>2, <1>5, <2>1, <3>1
    <3>3. j = l \/ j < l
      BY <1>2, <2>1, <3>2 DEF n
    <3>4. CASE j = l
      BY <1>3, <2>1, <2>3, <3>1, <3>4
    <3>5. CASE j < l
      BY <1>2, <2>1, <3>1, <3>2, <3>5
    <3> QED
      BY <3>3, <3>4, <3>5
  <2> QED
    BY <2>2, <2>3
<1>6. (\A j \in 1 .. i - 1 : P(j) # x) => R[ix + x] = D[x]
  BY <1>1, <1>5 DEF on
<1> QED
  BY <1>1, <1>6 DEF on, ix, D, P

\* A write has made h2 of h.
OneWrite(g, a, b, N, A, k, todo, i, h, h2) ==
  /\ LoopPlan(g, a, b, N) /\ ArraysOf(g, a, b, N, A) /\ i \in Nat /\ k < b - a
  /\ LoopAt(g, a, b, N, A, k, todo, i, h) /\ LoopAt(g, a, b, N, A, k, todo, i + 1, h2)

\* One write on, a cell of a vertex is still at a place where it is before and after:
\* where it was, or where the loop has written it.
LEMMA LoopStands ==
  ASSUME NEW g, NEW a, NEW b, NEW N, NEW A, NEW k, NEW todo, NEW i, NEW h, NEW h2,
         OneWrite(g, a, b, N, A, k, todo, i, h, h2),
         NEW v \in Vertices, NEW x \in 0 .. onseg_edges(g, v) - 1
  PROVE  \E c \in 0 .. g.elem_capacity - 1 :
           /\ h.edges_[c] = Block(g, v)[x] /\ h2.edges_[c] = Block(g, v)[x]
           /\ c = g.vertices_[v].index + x \/ Wrote(g, N, todo, i, c)
<1> DEFINE order == MoveOrder(g, a, b, N)
           n == b - a
           ix == g.vertices_[v].index
           on == onseg_edges(g, v)
           cap == g.elem_capacity
<1>0. /\ LoopPlan(g, a, b, N) /\ ArraysOf(g, a, b, N, A) /\ i \in Nat /\ k < n
      /\ LoopAt(g, a, b, N, A, k, todo, i, h) /\ LoopAt(g, a, b, N, A, k, todo, i + 1, h2)
  BY DEF OneWrite
<1>1. /\ n \in Nat \ {0} /\ order \in [1 .. n -> a .. b - 1]
      /\ \A l, j \in 1 .. n : l # j => order[l] # order[j]
      /\ \A u \in a .. b - 1 : Movable(g, u, N[u]) /\ RoomFor(g, u, N[u])
  BY <1>0, PlanIs
<1>2. k \in 0 .. n /\ todo = SubSeq(order, k + 1, n)
  BY <1>0 DEF LoopAt
<1>3. /\ ix \in 0 .. cap - 1 /\ on \in Nat \ {0} /\ ix + on <= NextIndex(g, v)
      /\ NextIndex(g, v) \in Int /\ NextIndex(g, v) <= cap /\ cap \in Nat
  BY <1>0, SoundIs DEF LoopPlan, Typed
<1>4. ix + x \in 0 .. cap - 1
  <2> HIDE DEF ix, on, cap
  <2>1. x \in 0 .. on - 1
    BY DEF on
  <2> QED
    BY <1>3, <2>1
<1>5. DOMAIN N = a .. b - 1
  BY <1>0 DEF LoopPlan, Fits
<1>6. Remains(order, n, k, todo)
  <2> HIDE DEF order, n
  <2>1. n \in Nat /\ order = [j \in 1 .. n |-> order[j]]
    BY <1>1
  <2> QED
    BY <1>2, <2>1 DEF Remains
<1>7. CASE ~OnItsWay(g, a, b, N, k, v)
  <2> DEFINE p == Stand(g, a, b, N, k, v)
  <2>1. HeldAt(g, h.edges_, v, p) /\ HeldAt(g, h2.edges_, v, p)
    BY <1>0, <1>7, RestHeld
  <2>2. p + x \in 0 .. cap - 1 /\ h.edges_[p + x] = Block(g, v)[x] /\ h2.edges_[p + x] = Block(g, v)[x]
    <3>1. p \in 0 .. cap - 1 /\ p + on <= cap
      BY <2>1 DEF HeldAt
    <3>2. p + x \in 0 .. cap - 1
      <4> HIDE DEF p, on, cap
      <4>1. x \in 0 .. on - 1
        BY DEF on
      <4> QED
        BY <1>3, <3>1, <4>1
    <3> QED
      BY <2>1, <3>2 DEF HeldAt, Block
  <2>3. p + x = ix + x \/ Wrote(g, N, todo, i, p + x)
    <3>1. CASE ~\E j \in 1 .. k : order[j] = v
      BY <3>1 DEF Stand
    <3>2. CASE \E j \in 1 .. k : order[j] = v
      <4>1. PICK j \in 1 .. k : order[j] = v
        BY <3>2
      <4>2. p = N[v]
        BY <3>2 DEF Stand
      <4>3. j \in 1 .. n /\ v \in DOMAIN N
        <5>1. j \in 1 .. n
          BY <1>1, <1>2
        <5> QED
          BY <1>1, <1>5, <4>1, <5>1
      <4>4. \A l \in DOMAIN todo : todo[l] # v
        <5> HIDE DEF order, n
        <5>1. todo = Rest(order, n, k)
          BY <1>6, RemainsIs
        <5>2. DOMAIN todo = 1 .. n - k /\ \A l \in 1 .. n - k : todo[l] = order[k + l]
          BY <5>1 DEF Rest
        <5>3. \A l \in 1 .. n - k : k + l \in 1 .. n /\ k + l # j
          BY <1>1, <1>2
        <5> QED
          BY <1>1, <4>1, <4>3, <5>2, <5>3
      <4>5. CASE N[v] = ix
        BY <4>2, <4>5
      <4>6. CASE N[v] # ix
        BY <4>2, <4>3, <4>4, <4>6 DEF Wrote
      <4> QED
        BY <4>5, <4>6
    <3> QED
      BY <3>1, <3>2
  <2> QED
    BY <2>2, <2>3
<1>8. CASE OnItsWay(g, a, b, N, k, v)
  <2> DEFINE P(j) == Place(g, v, N[v], j)
             m == Size(g, v, N[v])
  <2>1. v = order[k + 1]
    BY <1>8 DEF OnItsWay
  <2>2. /\ i + 1 \in 0 .. m /\ HalfMoved(g, v, N[v], i, A[k], h.edges_)
        /\ i \in 0 .. m /\ HalfMoved(g, v, N[v], i + 1, A[k], h2.edges_)
    BY <1>0, <2>1 DEF LoopAt
  <2>3. k + 1 \in 1 .. n
    BY <1>0, <1>1, <1>2
  <2>4. v \in a .. b - 1 /\ Movable(g, v, N[v]) /\ RoomFor(g, v, N[v])
    BY <1>1, <2>1, <2>3
  <2>5. \A j \in 1 .. k : order[j] # v
    <3>1. \A j \in 1 .. k : j \in 1 .. n /\ j # k + 1
      BY <1>1, <1>2
    <3> QED
      BY <1>1, <2>1, <2>3, <3>1
  <2>6. HeldAt(g, A[k], v, ix)
    BY <1>0, <1>2, <2>5, WaitingHeld
  <2>7. /\ \A j \in 1 .. i : P(j) = x => h.edges_[N[v] + x] = Block(g, v)[x]
        /\ (\A j \in 1 .. i - 1 : P(j) # x) => h.edges_[ix + x] = Block(g, v)[x]
        /\ \A j \in 1 .. i + 1 : P(j) = x => h2.edges_[N[v] + x] = Block(g, v)[x]
        /\ (\A j \in 1 .. (i + 1) - 1 : P(j) # x) => h2.edges_[ix + x] = Block(g, v)[x]
    BY <2>2, <2>4, <2>6, HalfStands
  <2>8. CASE \E j \in 1 .. i : P(j) = x
    <3>1. PICK j \in 1 .. i : P(j) = x
      BY <2>8
    <3>2. j \in 1 .. i + 1
      BY <1>0
    <3>3. h.edges_[N[v] + x] = Block(g, v)[x] /\ h2.edges_[N[v] + x] = Block(g, v)[x]
      BY <2>7, <3>1, <3>2
    <3>4. todo # <<>> /\ Head(todo) = v
      <4> HIDE DEF order, n
      <4>1. k < n
        BY <1>0
      <4>2. todo # <<>>
        BY <1>6, <4>1, SomeRemain
      <4>3. Head(todo) = order[k + 1]
        BY <1>6, <4>1, NextRemains
      <4> QED
        BY <2>1, <4>2, <4>3
    <3>5. Wrote(g, N, todo, i, N[v] + x)
      BY <1>5, <2>4, <3>1, <3>4 DEF Wrote
    <3>6. N[v] + x \in 0 .. cap - 1
      <4>1. N[v] \in Int /\ 0 <= N[v] /\ N[v] + g.vertices_[v].degree <= cap /\ on <= g.vertices_[v].degree
            /\ g.vertices_[v].degree \in Nat
        BY <2>4 DEF Movable, RoomFor, Splits
      <4> DEFINE q == N[v]
                 deg == g.vertices_[v].degree
      <4>2. x \in 0 .. on - 1 /\ q \in Int /\ 0 <= q /\ q + deg <= cap /\ on <= deg /\ deg \in Nat
        BY <4>1
      <4> HIDE DEF q, deg, on, cap
      <4>3. q + x \in 0 .. cap - 1
        BY <1>3, <4>2
      <4> QED
        BY <4>3 DEF q
    <3> QED
      BY <3>3, <3>5, <3>6
  <2>9. CASE ~\E j \in 1 .. i : P(j) = x
    <3> HIDE DEF P
    <3>1. \A j \in 1 .. i - 1 : P(j) # x
      BY <1>0, <2>9
    <3>2. \A j \in 1 .. (i + 1) - 1 : P(j) # x
      BY <1>0, <2>9
    <3> QED
      BY <1>4, <2>7, <3>1, <3>2
  <2> QED
    BY <2>8, <2>9
<1> QED
  BY <1>7, <1>8

\* A vertex has as many writes as it has places.
LEMMA WritesLong ==
  ASSUME NEW g, NEW v, NEW to, Movable(g, v, to)
  PROVE  Len(Writes(g, v, to)) = Size(g, v, to)
<1>1. /\ LogsTyped(g) /\ v \in Vertices /\ g.vertices_[v].index \in Int
      /\ Splits(g, v, onseg_edges(g, v), g.vertices_[v].degree)
      /\ onseg_edges(g, v) \in Nat \ {0} /\ g.vertices_[v].degree \in Nat /\ to \in Int
  BY DEF Movable
<1> QED
  BY <1>1, WritesAre DEF Size

\* The place of a write.
LEMMA WritePlace ==
  ASSUME NEW g, NEW v, NEW to, Movable(g, v, to), NEW i, NEW w, NextWrite(g, v, to, i, w)
  PROVE  /\ i + 1 \in 1 .. Size(g, v, to) /\ Len(Writes(g, v, to)) = Size(g, v, to)
         /\ w.to = to + Place(g, v, to, i + 1) /\ Directed(g, v, to, w)
<1>1. /\ LogsTyped(g) /\ v \in Vertices /\ g.vertices_[v].index \in Int
      /\ Splits(g, v, onseg_edges(g, v), g.vertices_[v].degree)
      /\ onseg_edges(g, v) \in Nat \ {0} /\ g.vertices_[v].degree \in Nat /\ to \in Int
  BY DEF Movable
<1>2. LET W == Writes(g, v, to)
          s == Shifts(g, v, to)
      IN /\ Len(W) = s + (g.vertices_[v].degree - onseg_edges(g, v))
         /\ \A j \in 1 .. Len(W) : WriteIs(g, v, to, j, W[j]) /\ Directed(g, v, to, W[j])
  BY <1>1, WritesAre
<1>3. Len(Writes(g, v, to)) = Size(g, v, to)
  BY WritesLong
<1>4. Size(g, v, to) \in Nat
  BY PlacesApart
<1>5. i \in Nat /\ i < Size(g, v, to) /\ w = Writes(g, v, to)[i + 1]
  BY <1>3 DEF NextWrite
<1>6. i + 1 \in 1 .. Size(g, v, to)
  BY <1>4, <1>5
<1> QED
  BY <1>2, <1>3, <1>5, <1>6 DEF WriteIs

\* What a write adds to the cells that have been written.
LEMMA WroteNext ==
  ASSUME NEW g, NEW N, NEW todo, NEW i \in Nat, NEW c, Wrote(g, N, todo, i + 1, c),
         NEW v, v = Head(todo), NEW w, w.to = N[v] + Place(g, v, N[v], i + 1)
  PROVE  Wrote(g, N, todo, i, c) \/ c = w.to
<1>1. PICK u \in DOMAIN N :
        \/ /\ \A n \in DOMAIN todo : todo[n] # u
           /\ N[u] # g.vertices_[u].index
           /\ \E x \in 0 .. onseg_edges(g, u) - 1 : c = N[u] + x
        \/ /\ todo # <<>> /\ u = Head(todo)
           /\ \E j \in 1 .. i + 1 : c = N[u] + Place(g, u, N[u], j)
  BY DEF Wrote
<1>2. CASE /\ \A n \in DOMAIN todo : todo[n] # u
           /\ N[u] # g.vertices_[u].index
           /\ \E x \in 0 .. onseg_edges(g, u) - 1 : c = N[u] + x
  BY <1>2 DEF Wrote
<1>3. CASE /\ todo # <<>> /\ u = Head(todo)
           /\ \E j \in 1 .. i + 1 : c = N[u] + Place(g, u, N[u], j)
  <2>1. PICK j \in 1 .. i + 1 : c = N[u] + Place(g, u, N[u], j)
    BY <1>3
  <2>2. j \in 1 .. i \/ j = i + 1
    OBVIOUS
  <2>3. CASE j \in 1 .. i
    BY <1>3, <2>1, <2>3 DEF Wrote
  <2>4. CASE j = i + 1
    BY <1>3, <2>1, <2>4
  <2> QED
    BY <2>2, <2>3, <2>4
<1> QED
  BY <1>1, <1>2, <1>3

\* What a rebalance has written when the vertex on its way arrives it has written before.
LEMMA WroteArrived ==
  ASSUME NEW g, NEW N, NEW todo, todo # <<>>, NEW S, todo \in Seq(S), NEW v, v = Head(todo),
         Movable(g, v, N[v]), NEW c, Wrote(g, N, Tail(todo), 0, c)
  PROVE  Wrote(g, N, todo, Size(g, v, N[v]), c)
<1>1. PICK u \in DOMAIN N :
        \/ /\ \A n \in DOMAIN Tail(todo) : Tail(todo)[n] # u
           /\ N[u] # g.vertices_[u].index
           /\ \E x \in 0 .. onseg_edges(g, u) - 1 : c = N[u] + x
        \/ /\ Tail(todo) # <<>> /\ u = Head(Tail(todo))
           /\ \E j \in 1 .. 0 : c = N[u] + Place(g, u, N[u], j)
  BY DEF Wrote
<1>2. /\ \A n \in DOMAIN Tail(todo) : Tail(todo)[n] # u
      /\ N[u] # g.vertices_[u].index
      /\ \E x \in 0 .. onseg_edges(g, u) - 1 : c = N[u] + x
  BY <1>1
<1>3. PICK x \in 0 .. onseg_edges(g, u) - 1 : c = N[u] + x
  BY <1>2
<1>4. CASE u = v
  <2>1. onseg_edges(g, v) \in Nat /\ onseg_edges(g, v) <= g.vertices_[v].degree /\ g.vertices_[v].degree \in Nat
    BY DEF Movable, Splits
  <2> DEFINE on == onseg_edges(g, v)
             deg == g.vertices_[v].degree
  <2>2. x \in 0 .. deg - 1
    <3>1. x \in 0 .. on - 1
      BY <1>4
    <3> HIDE DEF on, deg
    <3> QED
      BY <2>1, <3>1 DEF on, deg
  <2>3. PICK j \in 1 .. Size(g, v, N[v]) : Place(g, v, N[v], j) = x
    BY <1>2, <1>4, <2>2, PlacesApart
  <2> QED
    BY <1>3, <1>4, <2>3 DEF Wrote
<1>5. CASE u # v
  <2>1. \A n \in DOMAIN todo : todo[n] # u
    <3> SUFFICES ASSUME NEW n \in DOMAIN todo PROVE todo[n] # u
      OBVIOUS
    <3>1. Len(todo) \in Nat /\ n \in 1 .. Len(todo) /\ Head(todo) = todo[1]
      OBVIOUS
    <3>2. CASE n = 1
      BY <1>5, <3>1, <3>2
    <3>3. CASE n # 1
      <4>1. n - 1 \in 1 .. Len(todo) - 1
        BY <3>1, <3>3
      <4>2. /\ Len(Tail(todo)) = Len(todo) - 1 /\ Tail(todo) \in Seq(S)
            /\ \A i \in 1 .. Len(Tail(todo)) : Tail(todo)[i] = todo[i + 1]
        BY HeadTailProperties
      <4>3. n - 1 \in DOMAIN Tail(todo) /\ Tail(todo)[n - 1] = todo[(n - 1) + 1] /\ (n - 1) + 1 = n
        BY <3>1, <4>1, <4>2
      <4> QED
        BY <1>2, <4>3
    <3> QED
      BY <3>2, <3>3
  <2> QED
    BY <1>2, <1>3, <2>1 DEF Wrote
<1> QED
  BY <1>4, <1>5

\* A cell is in the range of the undo log, or the one above it.
Near(c) == ulog.st # ulog.nd /\ c \in ulog.st .. ulog.nd

\* stood[c] is what cell c of the range held when the range was last flushed, and
\* holds it still if a power failure would leave what it holds.
Stands(stood) ==
  \A c \in ulog.st .. ulog.nd - 1 : c \in DOMAIN media \ Dirty => stood[c] = graph.edges_[c]

\* What was durable is in a cell a power failure leaves as it is, in a log, or was
\* in the range.
Covered(stood) ==
  task.durable \subseteq
    Contents(graph, DOMAIN media \ Dirty) \cup {stood[c] : c \in ulog.st .. ulog.nd - 1}

CoverInv ==
  /\ Ingesting => \A c \in DOMAIN media : graph.edges_[c] \in media[c]
  /\ task.active =>
       /\ task.durable = Contents(task.before, LiveCells(task.before) \ task.unflushed)
       /\ \A c \in Dirty :
            Wrote(task.before, task.new_index, task.order, task.written, c) => Near(c)
       /\ ulog.nd - ulog.st <= MAX_ULOG_ENTRIES
       /\ \E stood : Stands(stood) /\ Covered(stood)

\* What the cells of the range held when it was last flushed, after write w.
StoodAfter(stood, w) ==
  IF InRange(w) THEN stood
  ELSE [c \in RangeFor(w).st .. RangeFor(w).nd - 1 |-> Read(graph.edges_, c)]

\* The contents of the cells and logs of g, one by one.
LEMMA ContentsAre ==
  ASSUME NEW g, NEW C, NEW e
  PROVE  e \in Contents(g, C) <=> (\E c \in C : g.edges_[c] = e)
                                   \/ (\E s \in Leaves : \E i \in DOMAIN g.log_[s] : g.log_[s][i].v = e)
<1>1. e \in Contents(g, C) <=> (e \in {g.edges_[c] : c \in C})
                                \/ (\E s \in Leaves : e \in {g.log_[s][i].v : i \in DOMAIN g.log_[s]})
  BY Zenon DEF Contents
<1> QED
  BY <1>1, Zenon

\* A cell of a vertex, and its place there.
LEMMA LiveCellIs ==
  ASSUME NEW g, Typed(g), Sound(g), NEW c \in LiveCells(g)
  PROVE  /\ c \in 0 .. g.elem_capacity - 1
         /\ \E v \in Vertices : \E x \in 0 .. onseg_edges(g, v) - 1 :
              c = g.vertices_[v].index + x /\ Block(g, v)[x] = g.edges_[c]
<1>1. PICK v \in Vertices : c \in g.vertices_[v].index .. g.vertices_[v].index + onseg_edges(g, v) - 1
  BY Zenon DEF LiveCells
<1> DEFINE ix == g.vertices_[v].index
           on == onseg_edges(g, v)
           n == g.elem_capacity
           x == c - ix
<1>2. ix \in 0 .. n - 1 /\ on \in Nat \ {0} /\ ix + on <= n /\ n \in Nat
  <2>1. /\ ix \in 0 .. n - 1 /\ on \in Nat \ {0} /\ ix + on <= NextIndex(g, v)
        /\ NextIndex(g, v) \in Int /\ NextIndex(g, v) <= n /\ n \in Nat
    BY SoundIs DEF Typed
  <2> HIDE DEF ix, on, n
  <2> QED
    BY <2>1
<1>3. c \in ix .. ix + on - 1
  BY <1>1
<1>4. c \in 0 .. n - 1 /\ x \in 0 .. on - 1 /\ c = ix + x
  <2> HIDE DEF ix, on, n
  <2> QED
    BY <1>2, <1>3
<1>5. Block(g, v)[x] = g.edges_[ix + x]
  BY <1>4 DEF Block
<1> HIDE DEF x
<1> QED
  BY <1>4, <1>5

\* Media M, in which the cells that have been written are flushed, and those that were
\* not dirty at first; P is M after a write to cell to.
WrittenBack(g, N, todo, i, h, h2, M, U, to, P) ==
  \A c \in 0 .. g.elem_capacity - 1 :
    /\ Wrote(g, N, todo, i, c) \/ c \notin U => M[c] = {h.edges_[c]}
    /\ P[c] = IF c = to THEN M[c] \cup {h2.edges_[c]} ELSE M[c]

\* A write into media M, all in one.
WriteOut(g, a, b, N, A, k, todo, i, h, h2, M, U, to, P) ==
  OneWrite(g, a, b, N, A, k, todo, i, h, h2) /\ WrittenBack(g, N, todo, i, h, h2, M, U, to, P)

\* After a write out of the range, what was durable in a cell is in a cell a power failure
\* leaves as it is.
LEMMA CopyKept ==
  ASSUME NEW g, NEW a, NEW b, NEW N, NEW A, NEW k, NEW todo, NEW i, NEW h, NEW h2, NEW M, NEW U, NEW to,
         NEW P, WriteOut(g, a, b, N, A, k, todo, i, h, h2, M, U, to, P),
         NEW d \in LiveCells(g) \ U
  PROVE  \E c \in 0 .. g.elem_capacity - 1 : P[c] = {h2.edges_[c]} /\ h2.edges_[c] = g.edges_[d]
<1>0. OneWrite(g, a, b, N, A, k, todo, i, h, h2) /\ WrittenBack(g, N, todo, i, h, h2, M, U, to, P)
  BY DEF WriteOut
<1>1. Typed(g) /\ Sound(g)
  BY <1>0 DEF OneWrite, LoopPlan
<1>2. PICK v \in Vertices : \E x \in 0 .. onseg_edges(g, v) - 1 :
        d = g.vertices_[v].index + x /\ Block(g, v)[x] = g.edges_[d]
  BY <1>1, LiveCellIs
<1>21. PICK x \in 0 .. onseg_edges(g, v) - 1 : d = g.vertices_[v].index + x /\ Block(g, v)[x] = g.edges_[d]
  BY <1>2
<1>3. PICK c \in 0 .. g.elem_capacity - 1 :
        /\ h.edges_[c] = Block(g, v)[x] /\ h2.edges_[c] = Block(g, v)[x]
        /\ c = g.vertices_[v].index + x \/ Wrote(g, N, todo, i, c)
  BY <1>0, LoopStands
<1>4. M[c] = {h.edges_[c]}
  BY <1>0, <1>21, <1>3 DEF WrittenBack
<1>5. P[c] = {h2.edges_[c]}
  BY <1>0, <1>3, <1>4 DEF WrittenBack
<1> QED
  BY <1>21, <1>3, <1>5

\* The fields of the task that a write leaves alone.
LEMMA WriteTask ==
  ASSUME LoopInv, WriteCell
  PROVE  /\ task'.active = task.active /\ task'.before = task.before /\ task'.new_index = task.new_index
         /\ task'.order = task.order /\ task'.written = task.written + 1
         /\ task'.unflushed = task.unflushed /\ task'.durable = task.durable
<1>1. task.active /\ task' = [task EXCEPT !.written = @ + 1]
  BY DEF WriteCell
<1>2. TaskShape
  BY DEF LoopInv
<1> QED
  BY <1>1, <1>2 DEF TaskShape

\* A write into array E over media M gives array F over media P.
Overwritten(n, E, M, to, F, P) ==
  /\ DOMAIN M = 0 .. n - 1 /\ DOMAIN P = 0 .. n - 1 /\ to \in 0 .. n - 1
  /\ \A c \in 0 .. n - 1 : c # to => F[c] = E[c] /\ P[c] = M[c]
  /\ P[to] = M[to] \cup {F[to]}

\* The media a write finds, flushed if the write is out of the range.
MediaFor(w) == IF InRange(w) THEN media ELSE FlushRange(graph.edges_)

\* What load_into_ulog flushes.
LEMMA RangeNear ==
  ASSUME NEW n, NEW c \in 0 .. n - 1, ulog.st \in Int, ulog.nd \in Int
  PROVE  (ulog.st # ulog.nd /\ ulog.st <= c /\ c <= ulog.nd) <=> Near(c)
BY DEF Near

\* A write is out of the range only after the cells of the range are flushed.
LEMMA MediaBefore ==
  ASSUME NEW w, NEW n, DOMAIN media = 0 .. n - 1, ulog.st \in Int, ulog.nd \in Int
  PROVE  /\ DOMAIN MediaFor(w) = 0 .. n - 1
         /\ \A c \in 0 .. n - 1 :
              /\ InRange(w) => MediaFor(w)[c] = media[c]
              /\ ~InRange(w) => MediaFor(w)[c] = IF Near(c) THEN {graph.edges_[c]} ELSE media[c]
<1>1. CASE InRange(w)
  BY <1>1 DEF MediaFor
<1>2. CASE ~InRange(w)
  <2>1. MediaFor(w) = [c \in DOMAIN media |->
                         IF ulog.st # ulog.nd /\ ulog.st <= c /\ c <= ulog.nd THEN {graph.edges_[c]} ELSE media[c]]
    BY <1>2 DEF MediaFor, FlushRange
  <2> QED
    BY <1>2, <2>1, RangeNear
<1> QED
  BY <1>1, <1>2

\* The write of a rebalance, as an overwriting.
LEMMA WriteOverwrites ==
  ASSUME LoopInv, RangeInv, WriteCell, NEW left, NEW right, NEW A, NEW k, NEW v, NEW w,
         Writing(left, right, A, k, v, w)
  PROVE  /\ graph.elem_capacity \in Nat /\ graph.elem_capacity = task.before.elem_capacity
         /\ DOMAIN media = 0 .. graph.elem_capacity - 1
         /\ DOMAIN graph.edges_ = 0 .. graph.elem_capacity - 1
         /\ Overwritten(graph.elem_capacity, graph.edges_, MediaFor(w), w.to, graph'.edges_, media')
<1> DEFINE n == graph.elem_capacity
<1>1. /\ phase = "ingesting" /\ graph.edges_ = [c \in 0 .. n - 1 |-> graph.edges_[c]]
  BY TaskWriting
<1>2. DOMAIN media = 0 .. n - 1
  <2>1. media = [c \in 0 .. n - 1 |-> media[c]]
    BY <1>1 DEF RangeInv, Ingesting
  <2> HIDE DEF n
  <2> QED
    BY <2>1
<1>3. n \in Nat /\ n = task.before.elem_capacity
  <2>1. /\ Moves(task.before, left, right, task.new_index)
        /\ LoopAt(task.before, first(left), first(right), task.new_index, A, k, task.order, task.written, graph)
    BY DEF Writing
  <2>2. GraphShape(task.before) /\ task.before.elem_capacity \in Nat
    BY <2>1 DEF Moves, LoopPlan, Typed
  <2>3. graph = [task.before EXCEPT !.edges_ = graph.edges_, !.vertices_ = graph.vertices_]
    BY <2>1 DEF LoopAt
  <2> QED
    BY <2>2, <2>3 DEF GraphShape
<1>4. DOMAIN MediaFor(w) = 0 .. n - 1
  <2>1. ulog.st \in Int /\ ulog.nd \in Int
    BY DEF RangeInv, WriteCell
  <2> QED
    BY <1>2, <2>1, MediaBefore
<1> DEFINE value == ValueIn(graph.edges_, w)
<1>5. /\ w.to \in 0 .. n - 1
      /\ graph'.edges_ = [graph.edges_ EXCEPT ![w.to] = value]
      /\ media' = [MediaFor(w) EXCEPT ![w.to] = @ \cup {value}]
  BY DEF Writing, MediaFor
<1> DEFINE E == graph.edges_
           M == MediaFor(w)
           F == graph'.edges_
           P == media'
<1> HIDE DEF n, value, E, M, F, P
<1>6. F = [E EXCEPT ![w.to] = value] /\ P = [M EXCEPT ![w.to] = @ \cup {value}]
      /\ DOMAIN M = 0 .. n - 1 /\ DOMAIN E = 0 .. n - 1
  BY <1>1, <1>4, <1>5 DEF E, M, F, P
<1>7. Overwritten(n, E, M, w.to, F, P)
  BY <1>5, <1>6 DEF Overwritten
<1> QED
  BY <1>2, <1>3, <1>6, <1>7 DEF E, M, F, P, n

\* The facts about a write that the parts of the invariant need.
LEMMA WriteFacts ==
  ASSUME LoopInv, RangeInv, WriteCell, NEW left, NEW right, NEW A, NEW k, NEW v, NEW w,
         Writing(left, right, A, k, v, w)
  PROVE  LET g == task.before
             a == first(left)
             b == first(right)
             N == task.new_index
         IN /\ v \in a .. b - 1 /\ v = Head(task.order) /\ task.order # <<>>
            /\ w.to = N[v] + Place(g, v, N[v], task.written + 1)
            /\ OneWrite(g, a, b, N, A, k, task.order, task.written, graph, graph')
            /\ NextWrite(g, v, N[v], task.written, w)
            /\ w.to \in 0 .. graph.elem_capacity - 1 /\ (w.left = TRUE \/ (w.left = FALSE /\ w.to > 0))
            /\ ulog' = (IF InRange(w) THEN ulog ELSE RangeFor(w))
<1> DEFINE g == task.before
           a == first(left)
           b == first(right)
           N == task.new_index
<1>1. /\ Moves(g, left, right, N) /\ ArraysOf(g, a, b, N, A)
      /\ LoopAt(g, a, b, N, A, k, task.order, task.written, graph)
      /\ LoopAt(g, a, b, N, A, k, task.order, task.written + 1, graph')
      /\ OnItsWay(g, a, b, N, k, v)
      /\ NextWrite(g, v, N[v], task.written, w)
      /\ w.to \in 0 .. graph.elem_capacity - 1 /\ (w.left = TRUE \/ (w.left = FALSE /\ w.to > 0))
      /\ ulog' = (IF InRange(w) THEN ulog ELSE RangeFor(w))
  BY DEF Writing
<1> HIDE DEF g, a, b, N
<1>2. LoopPlan(g, a, b, N)
  BY <1>1 DEF Moves, a, b
<1>3. v \in a .. b - 1 /\ v = Head(task.order) /\ task.order # <<>> /\ task.written \in Nat
  BY <1>1, <1>2, NextIs
<1>4. Movable(g, v, N[v])
  BY <1>2, <1>3, PlanIs
<1>5. w.to = N[v] + Place(g, v, N[v], task.written + 1)
  BY <1>1, <1>4, WritePlace
<1>6. k < b - a
  BY <1>1 DEF OnItsWay
<1>7. OneWrite(g, a, b, N, A, k, task.order, task.written, graph, graph')
  BY <1>1, <1>2, <1>3, <1>6 DEF OneWrite
<1> QED
  BY <1>1, <1>3, <1>5, <1>7 DEF g, a, b, N

\* The cell written is near the range that was written for it.
LEMMA WriteNear ==
  ASSUME ulog.st \in Int, ulog.nd \in Int, graph.elem_capacity \in Nat, NEW w,
         w.to \in 0 .. graph.elem_capacity - 1, w.left = TRUE \/ (w.left = FALSE /\ w.to > 0),
         ulog' = (IF InRange(w) THEN ulog ELSE RangeFor(w))
  PROVE  Near(w.to)'
<1>1. CASE InRange(w)
  <2>1. ulog' = ulog /\ ulog.st <= w.to /\ w.to < ulog.nd
    BY <1>1 DEF InRange
  <2>2. w.to \in Int
    OBVIOUS
  <2>3. ulog.st # ulog.nd /\ w.to \in ulog.st .. ulog.nd
    BY <2>1, <2>2
  <2> QED
    BY <2>1, <2>3 DEF Near
<1>2. CASE ~InRange(w)
  <2>1. ulog' = RangeFor(w)
    BY <1>2
  <2>2. RangeFor(w).st # RangeFor(w).nd /\ w.to \in RangeFor(w).st .. RangeFor(w).nd
    BY RangeHolds
  <2> QED
    BY <2>1, <2>2 DEF Near
<1> QED
  BY <1>1, <1>2

\* Of the cells that a power failure may undo after a write, all but the one written
\* it might have undone before, and none of them was flushed for the write.
LEMMA DirtyAfter ==
  ASSUME ulog.st \in Int, ulog.nd \in Int, NEW n, NEW w, DOMAIN media = 0 .. n - 1,
         Overwritten(n, graph.edges_, MediaFor(w), w.to, graph'.edges_, media'),
         NEW c \in Dirty', c # w.to
  PROVE  c \in Dirty /\ (~InRange(w) => ~Near(c))
<1>1. c \in 0 .. n - 1 /\ media'[c] # {graph'.edges_[c]}
  <2>1. c \in DOMAIN media' /\ media'[c] # {graph'.edges_[c]}
    BY DEF Dirty
  <2> QED
    BY <2>1 DEF Overwritten
<1>2. graph'.edges_[c] = graph.edges_[c] /\ media'[c] = MediaFor(w)[c]
  BY <1>1 DEF Overwritten
<1>3. /\ InRange(w) => MediaFor(w)[c] = media[c]
      /\ ~InRange(w) => MediaFor(w)[c] = IF Near(c) THEN {graph.edges_[c]} ELSE media[c]
  BY <1>1, MediaBefore
<1>4. media[c] # {graph.edges_[c]} /\ (~InRange(w) => ~Near(c))
  BY <1>1, <1>2, <1>3
<1> QED
  BY <1>1, <1>4 DEF Dirty

\* A cell that is not written and that a power failure would leave it still leaves.
LEMMA CleanAfter ==
  ASSUME ulog.st \in Int, ulog.nd \in Int, NEW n, NEW w, DOMAIN media = 0 .. n - 1,
         Overwritten(n, graph.edges_, MediaFor(w), w.to, graph'.edges_, media'),
         NEW c \in DOMAIN media \ Dirty, c # w.to
  PROVE  c \in DOMAIN media' \ Dirty' /\ graph'.edges_[c] = graph.edges_[c]
<1>1. c \in 0 .. n - 1 /\ media[c] = {graph.edges_[c]}
  BY DEF Dirty
<1>2. graph'.edges_[c] = graph.edges_[c] /\ media'[c] = MediaFor(w)[c] /\ c \in DOMAIN media'
  BY <1>1 DEF Overwritten
<1>3. MediaFor(w)[c] = media[c] \/ MediaFor(w)[c] = {graph.edges_[c]}
  BY <1>1, MediaBefore
<1>4. media'[c] = {graph'.edges_[c]}
  BY <1>1, <1>2, <1>3
<1> QED
  BY <1>2, <1>4 DEF Dirty

\* What the cells of the range held, after a write.
LEMMA WriteStands ==
  ASSUME LoopInv, RangeInv, CoverInv, WriteCell, NEW left, NEW right, NEW A, NEW k, NEW v, NEW w,
         Writing(left, right, A, k, v, w),
         NEW stood, Stands(stood), NEW next, next = StoodAfter(stood, w)
  PROVE  Stands(next)'
<1> DEFINE n == graph.elem_capacity
           E == graph.edges_
           M == MediaFor(w)
<1>1. /\ n \in Nat /\ DOMAIN media = 0 .. n - 1 /\ DOMAIN E = 0 .. n - 1
      /\ Overwritten(n, E, M, w.to, graph'.edges_, media')
  BY WriteOverwrites
<1>2. /\ task.active /\ ulog.st \in Int /\ ulog.nd \in Int /\ phase = "ingesting"
      /\ \A c \in DOMAIN media : graph.edges_[c] \in media[c]
  BY TaskWriting DEF RangeInv, CoverInv, Ingesting
<1>3. ulog' = (IF InRange(w) THEN ulog ELSE RangeFor(w))
  BY WriteFacts
<1> HIDE DEF E, M, n
<1>4. DOMAIN media' = 0 .. n - 1
  BY <1>1 DEF Overwritten
<1>5. CASE InRange(w)
  <2>1. ulog' = ulog /\ next = stood
    BY <1>3, <1>5 DEF StoodAfter
  <2> SUFFICES ASSUME NEW c \in ulog.st .. ulog.nd - 1, c \in DOMAIN media' \ Dirty'
               PROVE  stood[c] = graph'.edges_[c]
    BY <2>1 DEF Stands
  <2>2. c \in 0 .. n - 1 /\ media'[c] = {graph'.edges_[c]}
    BY <1>4 DEF Dirty
  <2>3. M[c] = media[c]
    BY <1>1, <1>2, <1>5, <2>2, MediaBefore DEF M
  <2>4. media[c] \subseteq {graph'.edges_[c]}
    BY <1>1, <2>2, <2>3 DEF Overwritten
  <2>5. E[c] \in media[c]
    BY <1>1, <1>2, <2>2 DEF E
  <2>6. E[c] = graph'.edges_[c] /\ media[c] = {E[c]}
    BY <2>4, <2>5
  <2>7. c \in DOMAIN media \ Dirty
    BY <1>1, <2>2, <2>6 DEF Dirty, E
  <2> QED
    BY <2>6, <2>7 DEF Stands, E
<1>6. CASE ~InRange(w)
  <2>1. ulog' = RangeFor(w) /\ \A c \in RangeFor(w).st .. RangeFor(w).nd - 1 : next[c] = Read(E, c)
    BY <1>3, <1>6 DEF StoodAfter, E
  <2> SUFFICES ASSUME NEW c \in RangeFor(w).st .. RangeFor(w).nd - 1, c \in DOMAIN media' \ Dirty'
               PROVE  Read(E, c) = graph'.edges_[c]
    BY <2>1 DEF Stands
  <2>2. c \in 0 .. n - 1 /\ media'[c] = {graph'.edges_[c]}
    BY <1>4 DEF Dirty
  <2>3. Read(E, c) = E[c]
    BY <1>1, <2>2 DEF Read
  <2>4. E[c] \in M[c]
    <3>1. M[c] = media[c] \/ M[c] = {E[c]}
      BY <1>1, <1>2, <1>6, <2>2, MediaBefore DEF M, E
    <3> QED
      BY <1>1, <1>2, <2>2, <3>1 DEF E
  <2>5. graph'.edges_[c] = E[c]
    BY <1>1, <2>2, <2>4 DEF Overwritten
  <2> QED
    BY <2>3, <2>5
<1> QED
  BY <1>5, <1>6

\* The logs a rebalance began with are those of the graph.
LEMMA LogsKept == ASSUME LoopInv, task.active PROVE graph.log_ = task.before.log_
<1>1. PICK left, right :
        /\ Moves(task.before, left, right, task.new_index)
        /\ LoopSomewhere(task.before, left, right, task.new_index, task.order, task.written, graph)
  BY DEF LoopInv, TaskRuns
<1>2. PICK A, k : LoopAt(task.before, first(left), first(right), task.new_index, A, k,
                         task.order, task.written, graph)
  BY <1>1 DEF LoopSomewhere
<1>3. GraphShape(task.before)
  BY <1>1 DEF Moves, LoopPlan, Typed
<1>4. graph = [task.before EXCEPT !.edges_ = graph.edges_, !.vertices_ = graph.vertices_]
  BY <1>2 DEF LoopAt
<1> QED
  BY <1>3, <1>4 DEF GraphShape

\* What was durable is still in place, or was in the range: in the cell written, or if
\* the write is out of the range nowhere, as the cells flushed have all of it.
LEMMA WriteCovers ==
  ASSUME LoopInv, RangeInv, CoverInv, WriteCell, NEW left, NEW right, NEW A, NEW k, NEW v, NEW w,
         Writing(left, right, A, k, v, w),
         NEW stood, Stands(stood), Covered(stood), NEW next, next = StoodAfter(stood, w)
  PROVE  Covered(next)'
<1> DEFINE n == graph.elem_capacity
           E == graph.edges_
           M == MediaFor(w)
           g == task.before
           N == task.new_index
<1>1. /\ n \in Nat /\ n = g.elem_capacity /\ DOMAIN media = 0 .. n - 1 /\ DOMAIN E = 0 .. n - 1
      /\ Overwritten(n, E, M, w.to, graph'.edges_, media')
  BY WriteOverwrites
<1>2. /\ task.active /\ ulog.st \in Int /\ ulog.nd \in Int /\ Dirty \subseteq task.unflushed \cup ulog.st .. ulog.nd
      /\ ulog.st = ulog.nd => Dirty \subseteq task.unflushed
      /\ task.durable = Contents(g, LiveCells(g) \ task.unflushed)
      /\ \A c \in Dirty : Wrote(g, N, task.order, task.written, c) => Near(c)
  BY TaskWriting DEF RangeInv, CoverInv
<1>3. /\ w.to \in 0 .. n - 1 /\ ulog' = (IF InRange(w) THEN ulog ELSE RangeFor(w))
      /\ OneWrite(g, first(left), first(right), N, A, k, task.order, task.written, graph, graph')
  BY WriteFacts
<1>4. task'.durable = task.durable /\ graph'.log_ = graph.log_ /\ graph.log_ = g.log_
  BY <1>2, WriteTask, TaskWriting, LogsKept
<1> HIDE DEF n, E, M, g, N
<1> SUFFICES ASSUME NEW e \in task.durable
             PROVE  \/ e \in Contents(graph', DOMAIN media' \ Dirty')
                    \/ e \in {next[c] : c \in ulog'.st .. ulog'.nd - 1}
  BY <1>4 DEF Covered
<1>5. ASSUME NEW s \in Leaves, NEW i \in DOMAIN graph.log_[s], graph.log_[s][i].v = e
      PROVE  e \in Contents(graph', DOMAIN media' \ Dirty')
  BY <1>4, <1>5, ContentsAre
<1>6. CASE InRange(w)
  <2>1. ulog' = ulog /\ next = stood
    BY <1>3, <1>6 DEF StoodAfter
  <2>2. e \in Contents(graph, DOMAIN media \ Dirty) \/ e \in {stood[c] : c \in ulog.st .. ulog.nd - 1}
    BY DEF Covered
  <2>3. CASE e \in Contents(graph, DOMAIN media \ Dirty)
    <3>1. ASSUME NEW c \in DOMAIN media \ Dirty, graph.edges_[c] = e
          PROVE  \/ e \in Contents(graph', DOMAIN media' \ Dirty')
                 \/ e \in {stood[d] : d \in ulog.st .. ulog.nd - 1}
      <4>1. CASE c = w.to
        <5>1. c \in ulog.st .. ulog.nd - 1
          <6>1. ulog.st <= c /\ c < ulog.nd /\ c \in Int
            BY <1>3, <1>6, <4>1 DEF InRange
          <6> QED
            BY <1>2, <6>1
        <5>2. stood[c] = e
          BY <3>1, <5>1 DEF Stands
        <5> QED
          BY <5>1, <5>2
      <4>2. CASE c # w.to
        <5>1. c \in DOMAIN media' \ Dirty' /\ graph'.edges_[c] = graph.edges_[c]
          BY <1>1, <1>2, <4>2, CleanAfter DEF E, M
        <5> QED
          BY <3>1, <5>1, ContentsAre
      <4> QED
        BY <4>1, <4>2
    <3> QED
      BY <1>5, <2>1, <2>3, <3>1, ContentsAre
  <2> QED
    BY <2>1, <2>2, <2>3
<1>7. CASE ~InRange(w)
  <2> DEFINE U == task.unflushed
  <2>1. \A c \in 0 .. n - 1 : M[c] = IF Near(c) THEN {E[c]} ELSE media[c]
    BY <1>1, <1>2, <1>7, MediaBefore DEF M, E
  <2>2. \A c \in 0 .. n - 1 : c \notin Dirty => media[c] = {E[c]}
    BY <1>1 DEF Dirty, E
  <2>3. \A c \in 0 .. n - 1 : Wrote(g, N, task.order, task.written, c) => M[c] = {E[c]}
    BY <1>2, <2>1, <2>2
  <2>4. \A c \in Dirty : c \in U \/ Near(c)
    <3> SUFFICES ASSUME NEW c \in Dirty, c \notin U PROVE Near(c)
      OBVIOUS
    <3> QED
      BY <1>2 DEF Near
  <2>5. \A c \in 0 .. n - 1 : c \notin U => M[c] = {E[c]}
    BY <2>1, <2>2, <2>4
  <2>6. \A c \in 0 .. n - 1 :
          media'[c] = IF c = w.to THEN M[c] \cup {graph'.edges_[c]} ELSE M[c]
    BY <1>1 DEF Overwritten
  <2>7. ASSUME NEW d \in LiveCells(g) \ U, g.edges_[d] = e
        PROVE  e \in Contents(graph', DOMAIN media' \ Dirty')
    <3>1. PICK c \in 0 .. n - 1 : media'[c] = {graph'.edges_[c]} /\ graph'.edges_[c] = g.edges_[d]
      <4> DEFINE a == first(left)
                 b == first(right)
                 i == task.written
                 to == w.to
                 P == media'
                 todo == task.order
      <4>1. WrittenBack(g, N, todo, i, graph, graph', M, U, to, P)
        BY <1>1, <2>3, <2>5, <2>6 DEF WrittenBack, E
      <4>2. WriteOut(g, a, b, N, A, k, todo, i, graph, graph', M, U, to, P)
        BY <1>3, <4>1 DEF WriteOut
      <4>3. d \in LiveCells(g) \ U
        BY <2>7
      <4> HIDE DEF U, a, b, i, to, P, todo
      <4>4. \E c \in 0 .. g.elem_capacity - 1 : P[c] = {graph'.edges_[c]} /\ graph'.edges_[c] = g.edges_[d]
        BY ONLY <4>2, <4>3, CopyKept
      <4> QED
        BY <1>1, <4>4 DEF P
    <3>2. c \in DOMAIN media' \ Dirty'
      BY <1>1, <3>1 DEF Overwritten, Dirty
    <3> QED
      BY <2>7, <3>1, <3>2, ContentsAre
  <2>8. e \in Contents(g, LiveCells(g) \ U)
    BY <1>2
  <2> QED
    BY <1>4, <1>5, <2>7, <2>8, ContentsAre
<1> QED
  BY <1>6, <1>7

\* A write keeps all of it.
LEMMA WritingKeepsCover ==
  ASSUME LoopInv, RangeInv, CoverInv, WriteCell, NEW left, NEW right, NEW A, NEW k, NEW v, NEW w,
         Writing(left, right, A, k, v, w)
  PROVE  CoverInv'
<1> DEFINE n == graph.elem_capacity
           E == graph.edges_
           M == MediaFor(w)
           F == graph'.edges_
           g == task.before
           N == task.new_index
           todo == task.order
           i == task.written
<1>2. /\ n \in Nat /\ DOMAIN media = 0 .. n - 1 /\ Overwritten(n, E, M, w.to, F, media')
  BY WriteOverwrites
<1>3. /\ phase = "ingesting" /\ task.active /\ ulog.st \in Int /\ ulog.nd \in Int
      /\ \A c \in DOMAIN media : E[c] \in media[c]
      /\ task.durable = Contents(g, LiveCells(g) \ task.unflushed)
      /\ \A c \in Dirty : Wrote(g, N, todo, i, c) => Near(c)
  BY TaskWriting DEF RangeInv, CoverInv, Ingesting
<1>4. /\ v = Head(todo) /\ w.to = N[v] + Place(g, v, N[v], i + 1)
      /\ w.to \in 0 .. n - 1 /\ (w.left = TRUE \/ (w.left = FALSE /\ w.to > 0))
      /\ ulog' = (IF InRange(w) THEN ulog ELSE RangeFor(w))
      /\ i \in Nat
  <2>1. v = Head(todo)
    <3> DEFINE a == first(left)
               b == first(right)
    <3>1. /\ Moves(g, left, right, N) /\ LoopAt(g, a, b, N, A, k, todo, i, graph)
          /\ OnItsWay(g, a, b, N, k, v)
      BY DEF Writing
    <3>2. LoopPlan(g, a, b, N)
      BY <3>1 DEF Moves
    <3> HIDE DEF n, E, M, F, g, N, i, todo, a, b
    <3> QED
      BY <3>1, <3>2, NextIs
  <2>5. w.to = N[v] + Place(g, v, N[v], i + 1)
    BY WriteFacts, Zenon
  <2>2. /\ w.to \in 0 .. n - 1 /\ (w.left = TRUE \/ (w.left = FALSE /\ w.to > 0))
        /\ ulog' = (IF InRange(w) THEN ulog ELSE RangeFor(w))
    BY WriteFacts
  <2>3. OneWrite(g, first(left), first(right), N, A, k, todo, i, graph, graph')
    BY WriteFacts
  <2>4. i \in Nat
    BY <2>3 DEF OneWrite
  <2> QED
    BY <2>1, <2>2, <2>4, <2>5
<1>5. /\ task'.active = task.active /\ task'.before = g /\ task'.new_index = N /\ task'.order = todo
      /\ task'.written = i + 1 /\ task'.unflushed = task.unflushed /\ task'.durable = task.durable
  BY WriteTask
<1> HIDE DEF n, E, M, F, g, N, todo, i
<1>7. \A c \in DOMAIN media' : F[c] \in media'[c]
  <2> SUFFICES ASSUME NEW c \in DOMAIN media' PROVE F[c] \in media'[c]
    OBVIOUS
  <2>1. c \in 0 .. n - 1
    BY <1>2 DEF Overwritten
  <2>2. CASE c = w.to
    BY <1>2, <2>2 DEF Overwritten
  <2>3. CASE c # w.to
    <3>1. F[c] = E[c] /\ media'[c] = M[c]
      BY <1>2, <2>1, <2>3 DEF Overwritten
    <3>2. M[c] = media[c] \/ M[c] = {E[c]}
      BY <1>2, <1>3, <2>1, MediaBefore DEF M, E
    <3> QED
      BY <1>2, <1>3, <2>1, <3>1, <3>2
  <2> QED
    BY <2>2, <2>3
<1>8. ASSUME NEW c \in Dirty', Wrote(g, N, todo, i + 1, c) PROVE Near(c)'
  <2>1. CASE c = w.to
    <3>1. Near(w.to)'
      BY <1>2, <1>3, <1>4, WriteNear DEF n
    <3>2. ulog'.st # ulog'.nd /\ w.to \in ulog'.st .. ulog'.nd
      BY <3>1 DEF Near
    <3> QED
      BY <2>1, <3>2 DEF Near
  <2>2. CASE c # w.to
    <3>1. Wrote(g, N, todo, i, c)
      BY <1>4, <1>8, <2>2, WroteNext
    <3>2. c \in Dirty /\ (~InRange(w) => ~Near(c))
      BY <1>2, <1>3, <2>2, DirtyAfter DEF E, M, F
    <3>3. Near(c) /\ InRange(w)
      BY <1>3, <3>1, <3>2
    <3>4. ulog' = ulog
      BY <1>4, <3>3
    <3> QED
      BY <3>3, <3>4 DEF Near
  <2> QED
    BY <2>1, <2>2
<1>9. \E stood : Stands(stood)' /\ Covered(stood)'
  <2>1. PICK stood : Stands(stood) /\ Covered(stood)
    BY <1>3 DEF CoverInv
  <2>2. PICK next : next = StoodAfter(stood, w)
    OBVIOUS
  <2>3. Stands(next)' /\ Covered(next)'
    BY <2>1, <2>2, WriteStands, WriteCovers
  <2> QED
    BY <2>3
<1>10. ulog'.nd - ulog'.st <= MAX_ULOG_ENTRIES
  <2>1. CASE InRange(w)
    BY <1>3, <1>4, <2>1 DEF CoverInv
  <2>2. CASE ~InRange(w)
    BY <1>2, <1>4, <2>2, RangeHolds DEF n
  <2> QED
    BY <2>1, <2>2
<1> QED
  BY <1>3, <1>5, <1>7, <1>8, <1>9, <1>10 DEF CoverInv, F

\* The next cell.
LEMMA WriteKeepsCover == ASSUME LoopInv, RangeInv, CoverInv, WriteCell PROVE CoverInv'
<1>1. PICK left, right, A, k, v, w : Writing(left, right, A, k, v, w)
  BY TaskWriting
<1> QED
  BY <1>1, WritingKeepsCover

\* The medium has the cells of the array.
LEMMA MediaCells == ASSUME RangeInv, phase = "ingesting" PROVE DOMAIN media = 0 .. graph.elem_capacity - 1
<1> DEFINE n == graph.elem_capacity
<1>1. media = [c \in 0 .. n - 1 |-> media[c]]
  BY DEF RangeInv, Ingesting
<1> HIDE DEF n
<1>2. DOMAIN media = 0 .. n - 1
  BY <1>1
<1> QED
  BY <1>2 DEF n

\* A rebalance begins with nothing written, and with all that it endangers in place.
LEMMA BeginKeepsCover ==
  ASSUME LoopInv, RangeInv, CoverInv, phase = "ingesting", phase' = "ingesting", ~task.active, AssertionsHold',
         NEW left \in Leaves, NEW right \in 1 .. leaf_count, left < right,
         NEW next, next \subseteq Sources, Begin(left .. right - 1, next)
  PROVE  CoverInv'
<1> DEFINE W == left .. right - 1
           N == task'.new_index
           order == MoveOrder(graph, first(left), first(right), N)
<1>1. /\ task' = NewTask(graph, W, next) /\ UNCHANGED <<graph, media>>
      /\ ulog'.st = ulog'.nd
  BY DEF Begin, NoRange
<1>2. Min(W) = left /\ Max(W) + 1 = right
  BY WindowEnds
<1>3. /\ task'.active /\ task'.before = graph /\ task'.window = W
      /\ task'.order = order /\ task'.written = 0
      /\ task'.unflushed = Dirty /\ task'.durable = Contents(graph, LiveCells(graph) \ Dirty)
  BY <1>1, <1>2 DEF NewTask, first
<1>4. LoopPlan(graph, first(left), first(right), N)
  <2>1. LoopInv'
    BY BeginKeeps
  <2>2. PICK l, r : W = l .. r - 1 /\ Moves(graph, l, r, N)
    BY <1>3, <2>1 DEF LoopInv, TaskRuns
  <2>3. l = left /\ r = right
    <3>1. l \in Leaves /\ r \in 1 .. leaf_count /\ l < r
      BY <2>2 DEF Moves
    <3>2. Min(l .. r - 1) = l /\ Max(l .. r - 1) + 1 = r
      BY <3>1, WindowEnds
    <3> QED
      BY <1>2, <2>2, <3>2
  <2> QED
    BY <2>2, <2>3 DEF Moves
<1>5. ulog'.st \in Int
  <2>1. RangeInv'
    BY BeginKeepsRange
  <2> QED
    BY <1>3, <2>1 DEF RangeInv
<1>6. Dirty' = Dirty /\ (\A c \in DOMAIN media : graph.edges_[c] \in media[c])
  BY <1>1 DEF CoverInv, Dirty, Ingesting
<1>7. DOMAIN media = 0 .. graph.elem_capacity - 1
  BY MediaCells
<1>8. Typed(graph) /\ Sound(graph)
  BY DEF LoopInv, Ingesting, Settled, Good
<1> DEFINE a == first(left)
           b == first(right)
<1> HIDE DEF W, N, a, b
<1>9. \A c : ~Wrote(graph, N, order, 0, c)
  <2> SUFFICES ASSUME NEW c, Wrote(graph, N, order, 0, c) PROVE FALSE
    OBVIOUS
  <2>1. PICK v \in DOMAIN N :
          \/ \A n \in DOMAIN order : order[n] # v
          \/ \E j \in 1 .. 0 : c = N[v] + Place(graph, v, N[v], j)
    BY DEF Wrote
  <2>2. \A n \in DOMAIN order : order[n] # v
    BY <2>1
  <2>3. DOMAIN N = a .. b - 1
    BY <1>4 DEF LoopPlan, Fits, a, b
  <2>4. \E j \in 1 .. b - a : order[j] = v
    BY <1>4, <2>1, <2>3, PlanReaches DEF a, b
  <2>5. DOMAIN order = 1 .. b - a
    <3>1. order \in [1 .. b - a -> a .. b - 1]
      BY <1>4, PlanIs DEF a, b
    <3> HIDE DEF order
    <3> QED
      BY <3>1
  <2> QED
    BY <2>2, <2>4, <2>5
<1>10. \A stood : Stands(stood)'
  <2>1. ulog'.st .. ulog'.nd - 1 = {}
    BY <1>1, <1>5
  <2> QED
    BY <2>1 DEF Stands
<1>11. \A stood : Covered(stood)'
  <2> SUFFICES ASSUME NEW e \in Contents(graph, LiveCells(graph) \ Dirty)
               PROVE  e \in Contents(graph', DOMAIN media' \ Dirty')
    BY <1>3 DEF Covered
  <2>1. LiveCells(graph) \subseteq DOMAIN media
    BY <1>7, <1>8, LiveCellIs
  <2>2. e \in Contents(graph, DOMAIN media \ Dirty)
    BY <2>1, ContentsAre
  <2> QED
    BY <1>1, <1>6, <2>2
<1> HIDE DEF order
<1>12. \A c \in Dirty' : ~Wrote(task'.before, task'.new_index, task'.order, task'.written, c)
  BY <1>3, <1>9 DEF N
<1>13. ulog'.nd - ulog'.st <= MAX_ULOG_ENTRIES
  BY <1>1, <1>5, UndoLogAssumption
<1> QED
  BY <1>1, <1>3, <1>6, <1>10, <1>11, <1>12, <1>13 DEF CoverInv

\* The vertex that arrives has been written.
LEMMA ArrivesKeepsCover == ASSUME LoopInv, RangeInv, CoverInv, FinishVertex PROVE CoverInv'
<1>1. /\ phase = "ingesting" /\ task' = [task EXCEPT !.order = Tail(@), !.written = 0]
      /\ graph'.edges_ = graph.edges_ /\ graph'.log_ = graph.log_
  BY TaskArrives
<1>2. task.active /\ task.order # <<>> /\ UNCHANGED <<media, ulog>> /\ TaskShape
  BY DEF FinishVertex, LoopInv
<1>3. PICK left, right :
        /\ task.window = left .. right - 1
        /\ Moves(task.before, left, right, task.new_index)
        /\ LoopSomewhere(task.before, left, right, task.new_index, task.order, task.written, graph)
  BY <1>2 DEF LoopInv, TaskRuns
<1> DEFINE g == task.before
           N == task.new_index
           a == first(left)
           b == first(right)
           todo == task.order
           v == Head(task.order)
<1>4. PICK A, k : ArraysOf(g, a, b, N, A) /\ LoopAt(g, a, b, N, A, k, todo, task.written, graph)
  BY <1>3 DEF LoopSomewhere
<1>5. OnItsWay(g, a, b, N, k, v) /\ VertexWrites(v) = Writes(g, v, N[v])
  BY <1>2, <1>3, <1>4, TaskVertex
<1>6. LoopPlan(g, a, b, N)
  BY <1>3 DEF Moves
<1>7. task.written = Len(VertexWrites(v))
  BY Zenon DEF FinishVertex
<1>8. /\ task'.active /\ task'.before = g /\ task'.new_index = N /\ task'.order = Tail(todo)
      /\ task'.written = 0 /\ task'.unflushed = task.unflushed /\ task'.durable = task.durable
  BY <1>1, <1>2 DEF TaskShape
<1>9. /\ \A c \in DOMAIN media : graph.edges_[c] \in media[c]
      /\ task.durable = Contents(g, LiveCells(g) \ task.unflushed)
      /\ \A c \in Dirty : Wrote(g, N, todo, task.written, c) => Near(c)
      /\ ulog.nd - ulog.st <= MAX_ULOG_ENTRIES
      /\ \E stood : Stands(stood) /\ Covered(stood)
  BY <1>1, <1>2 DEF CoverInv, Ingesting
<1> HIDE DEF g, N, a, b, v, todo
<1>10. v \in a .. b - 1
  BY <1>4, <1>5, <1>6, NextIs
<1>11. Movable(g, v, N[v])
  BY <1>6, <1>10, PlanIs
<1>12. task.written = Size(g, v, N[v])
  BY <1>5, <1>7, <1>11, WritesLong
<1>13. PICK S : todo \in Seq(S)
  <2> DEFINE order == MoveOrder(g, a, b, N)
             n == b - a
  <2>1. n \in Nat /\ order \in [1 .. n -> a .. b - 1]
    BY <1>6, PlanIs
  <2>2. k \in 0 .. n /\ todo = SubSeq(order, k + 1, n)
    BY <1>4 DEF LoopAt
  <2> HIDE DEF order, n
  <2>3. order = [j \in 1 .. n |-> order[j]]
    BY <2>1
  <2>4. Remains(order, n, k, todo)
    BY <2>1, <2>2, <2>3 DEF Remains
  <2> QED
    BY <2>4, RemainsIs
<1>14. \A c : Wrote(g, N, Tail(todo), 0, c) => Wrote(g, N, todo, task.written, c)
  <2> SUFFICES ASSUME NEW c, Wrote(g, N, Tail(todo), 0, c) PROVE Wrote(g, N, todo, task.written, c)
    OBVIOUS
  <2>1. todo # <<>> /\ v = Head(todo)
    BY <1>2 DEF todo, v
  <2>2. Wrote(g, N, todo, Size(g, v, N[v]), c)
    BY <1>11, <1>13, <2>1, WroteArrived
  <2> QED
    BY <1>12, <2>2
<1>15. Dirty' = Dirty
  BY <1>1, <1>2 DEF Dirty
<1>16. \A stood : (Stands(stood)' <=> Stands(stood)) /\ (Covered(stood)' <=> Covered(stood))
  <2> SUFFICES ASSUME NEW stood
               PROVE  (Stands(stood)' <=> Stands(stood)) /\ (Covered(stood)' <=> Covered(stood))
    OBVIOUS
  <2>1. Stands(stood)' <=> Stands(stood)
    BY <1>1, <1>2, <1>15 DEF Stands
  <2>2. DOMAIN media' \ Dirty' = DOMAIN media \ Dirty
    BY <1>2, <1>15
  <2>3. Contents(graph', DOMAIN media' \ Dirty') = Contents(graph, DOMAIN media \ Dirty)
    BY <1>1, <2>2 DEF Contents
  <2>4. task'.durable = task.durable /\ ulog' = ulog
    BY <1>2, <1>8
  <2>5. Covered(stood)' <=> Covered(stood)
    BY <2>3, <2>4 DEF Covered
  <2> QED
    BY <2>1, <2>5
<1>17. \A c \in Dirty' : Wrote(task'.before, task'.new_index, task'.order, task'.written, c) => Near(c)'
  BY <1>2, <1>8, <1>9, <1>14, <1>15 DEF Near
<1> QED
  BY <1>1, <1>2, <1>8, <1>9, <1>16, <1>17 DEF CoverInv

\* The array of a rebalanced graph is the one the loop has made.
LEMMA EndKeepsCells == ASSUME LoopInv, FinishRebalance PROVE graph'.edges_ = graph.edges_
<1>1. task.active
  BY DEF FinishRebalance
<1>2. GraphShape(graph)
  <2>1. PICK left, right :
          /\ Moves(task.before, left, right, task.new_index)
          /\ LoopSomewhere(task.before, left, right, task.new_index, task.order, task.written, graph)
    BY <1>1 DEF LoopInv, TaskRuns
  <2>2. PICK A, k : LoopAt(task.before, first(left), first(right), task.new_index, A, k,
                           task.order, task.written, graph)
    BY <2>1 DEF LoopSomewhere
  <2>3. GraphShape(task.before)
    BY <2>1 DEF Moves, LoopPlan, Typed
  <2>4. graph = [task.before EXCEPT !.edges_ = graph.edges_, !.vertices_ = graph.vertices_]
    BY <2>2 DEF LoopAt
  <2> QED
    BY <2>3, <2>4 DEF GraphShape
<1>3. PICK left, right : graph' = recount_segment_total(release_log(graph, left, right), left, right)
  BY DEF FinishRebalance
<1> QED
  BY <1>2, <1>3 DEF release_log, recount_segment_total, GraphShape

\* Every value in memory may be in the medium.
LEMMA InsertKeepsCover ==
  ASSUME LoopInv, RangeInv, CoverInv, phase = "ingesting", NEW src \in Sources, InsertNow(src)
  PROVE  CoverInv'
<1>1. /\ ~task.active /\ ~LogIsFull(graph, src) /\ graph' = do_insertion(graph, src, FreshDst)
      /\ src \in Vertices
      /\ media' = IF have_space_onseg(graph, src, NextCell(graph, src))
                  THEN [media EXCEPT ![NextCell(graph, src)] = {FreshDst}] ELSE media
  BY SourcesAreVertices DEF InsertNow, Free, NextCell
<1>2. Good(graph)
  BY <1>1 DEF LoopInv, Settled, Ingesting
<1>3. Inserted(graph, src, FreshDst, graph')
  BY <1>1, <1>2, InsertGood
<1>4. DOMAIN media = DOMAIN graph.edges_ /\ \A c \in DOMAIN media : graph.edges_[c] \in media[c]
  <2>1. DOMAIN graph.edges_ = 0 .. graph.elem_capacity - 1
    BY <1>2 DEF Good, Typed, Arrays
  <2>2. DOMAIN media = DOMAIN graph.edges_
    BY <2>1, MediaCells
  <2> QED
    BY <2>2 DEF CoverInv, Ingesting
<1>5. \A c \in DOMAIN media' : graph'.edges_[c] \in media'[c]
  <2> DEFINE E == graph.edges_
             F == graph'.edges_
             to == NextCell(graph, src)
             e == FreshDst
  <2>1. \/ F = [E EXCEPT ![to] = e] /\ media' = [media EXCEPT ![to] = {e}]
        \/ F = E /\ media' = media
    BY <1>1, <1>3 DEF Inserted
  <2> HIDE DEF E, F, to, e
  <2>2. DOMAIN media = DOMAIN E /\ \A c \in DOMAIN media : E[c] \in media[c]
    BY <1>4 DEF E
  <2>3. \A c \in DOMAIN media' : F[c] \in media'[c]
    BY <2>1, <2>2
  <2> QED
    BY <2>3 DEF F
<1>6. ~task'.active
  BY DEF InsertNow, Idle, IdleFor
<1> QED
  BY <1>5, <1>6 DEF CoverInv

\* The steps of an ingestion.
LEMMA IngestKeepsCover ==
  ASSUME LoopInv, RangeInv, CoverInv, AssertionsHold', Ingest
  PROVE  CoverInv'
<1>0. phase = "ingesting" /\ phase' = "ingesting"
  BY DEF Ingest, poolVars
<1>1. ASSUME NEW src \in Sources, BeginLeaf(src) PROVE CoverInv'
  <2> DEFINE s == SegmentOf(src)
  <2>1. ~task.active /\ Begin({s}, {src})
    BY <1>1 DEF BeginLeaf, Free
  <2>2. s \in Leaves /\ leaf_count \in Nat
    BY SourcesAreVertices, LeafOfVertex, TreeShape
  <2> HIDE DEF s
  <2>3. s + 1 \in 1 .. leaf_count /\ s < s + 1 /\ s .. (s + 1) - 1 = {s}
    BY <2>2 DEF Leaves
  <2>4. Begin(s .. (s + 1) - 1, {src}) /\ {src} \subseteq Sources
    BY <2>1, <2>3
  <2> QED
    BY <1>0, <2>1, <2>2, <2>3, <2>4, BeginKeepsCover
<1>2. ASSUME NEW src \in Sources, BeginWindow(src) PROVE CoverInv'
  <2> DEFINE H == GoodHeights(graph, src)
  <2>1. ~task.active /\ H # {} /\ Begin(WindowAt(src, Min(H)), Sources)
    BY <1>2 DEF BeginWindow
  <2>2. H \subseteq 1 .. tree_height
    BY DEF GoodHeights
  <2> HIDE DEF H
  <2>3. Min(H) \in 1 .. tree_height
    <3>1. H \in SUBSET Nat
      BY <2>2
    <3> QED
      BY <2>1, <2>2, <3>1, LeastIs
  <2>4. PICK left \in Leaves, right \in 1 .. leaf_count :
          left < right /\ WindowAt(src, Min(H)) = left .. right - 1
    BY <2>3, SourcesAreVertices, WindowAtIs
  <2>5. Begin(left .. right - 1, Sources)
    BY <2>1, <2>4
  <2> QED
    BY <1>0, <2>1, <2>4, <2>5, BeginKeepsCover
<1>3. CASE FinishRebalance
  <2>1. graph'.edges_ = graph.edges_ /\ media' = media
    BY <1>3, EndKeepsCells DEF FinishRebalance
  <2>2. ~task'.active
    BY <1>3 DEF FinishRebalance, IdleFor
  <2> QED
    BY <1>0, <2>1, <2>2 DEF CoverInv, Ingesting
<1> QED
  BY <1>0, <1>1, <1>2, <1>3, InsertKeepsCover, WriteKeepsCover, ArrivesKeepsCover DEF Ingest, RebalanceStep

\* A resize.
LEMMA ResizeKeepsCover ==
  ASSUME LoopInv, CoverInv, AssertionsHold, ResizeFree \/ ResizeInstall \/ ResizeRecord
  PROVE  CoverInv'
<1>1. Ingesting /\ ~task.active
  BY DEF ResizeFree, ResizeInstall, ResizeRecord, Ingesting, NoRoomFor, LoopInv
<1>2. CASE ResizeFree
  BY <1>1, <1>2 DEF ResizeFree, rebalanceVars, CoverInv
<1>3. CASE ResizeInstall
  <2>1. PICK src \in Sources : NoRoomFor(src)
    BY <1>3 DEF ResizeInstall, LoopInv
  <2>2. Good(graph)
    BY <1>1 DEF LoopInv, Settled
  <2>3. PositionsAsserted([graph EXCEPT !.elem_capacity = 2 * @], 0, num_vertices,
                          2 * graph.elem_capacity - graph.num_edges_, graph.num_edges_)
    BY <1>3, <2>1 DEF AssertionsHold, ResizeInstall
  <2>4. graph' = [resize_V1(graph) EXCEPT !.log_ = graph.log_] /\ task' = task
        /\ media' = Flushed(resize_V1(graph).edges_)
    BY <1>3 DEF ResizeInstall
  <2>5. graph'.edges_ = resize_V1(graph).edges_
    BY <2>2, <2>3, <2>4, ResizeGood
  <2>6. \A c \in DOMAIN media' : graph'.edges_[c] \in media'[c]
    BY <2>4, <2>5 DEF Flushed
  <2> QED
    BY <1>1, <2>4, <2>6 DEF CoverInv
<1>4. CASE ResizeRecord
  <2>1. graph' = release_log(graph, 0, leaf_count) /\ task' = Idle /\ media' = media
    BY <1>4 DEF ResizeRecord
  <2>2. GraphShape(graph)
    BY <1>1 DEF LoopInv, Settled, Good, Typed
  <2>3. graph'.edges_ = graph.edges_
    BY <2>1, <2>2 DEF release_log, GraphShape
  <2>4. ~task'.active
    BY <2>1 DEF Idle, IdleFor
  <2> QED
    BY <1>1, <2>1, <2>3, <2>4 DEF CoverInv
<1> QED
  BY <1>2, <1>3, <1>4

\* Shutdown, death and reopening.
LEMMA RestKeepsCover ==
  ASSUME LoopInv, Close \/ CopyField \/ FlushField \/ CloseDone \/ Kill \/ ReopenBackup \/ ReopenRecovery \/ ReopenFails
  PROVE  CoverInv'
<1>1. CASE Kill
  <2>1. phase' = "off" /\ task' = Idle
    BY <1>1 DEF Kill
  <2> QED
    BY <2>1 DEF CoverInv, Ingesting, Idle, IdleFor
<1>2. CASE ~Kill
  <2>1. phase' \in {"closing", "off", "open", "failed"} /\ task' = task /\ ~task.active
    BY <1>2 DEF LoopInv, Close, CopyField, FlushField, CloseDone, ReopenBackup, ReopenRecovery, ReopenFails,
                rebalanceVars, Free
  <2> QED
    BY <2>1 DEF CoverInv, Ingesting
<1> QED
  BY <1>1, <1>2

\* Everything is flushed at first.
LEMMA CoverInitial == PersistInit => CoverInv
BY DEF PersistInit, UndoInit, CoverInv, Flushed, Idle, IdleFor

\* Every step.
LEMMA CoverInductive ==
  CoverInv /\ RangeInv /\ LoopInv /\ AssertionsHold /\ AssertionsHold' /\ [PersistNext]_persistVars => CoverInv'
<1> SUFFICES ASSUME CoverInv, RangeInv, LoopInv, AssertionsHold, AssertionsHold', [PersistNext]_persistVars
             PROVE  CoverInv'
  OBVIOUS
<1>1. CASE UNCHANGED persistVars
  BY <1>1 DEF persistVars, CoverInv, Ingesting, Dirty, Near, Stands, Covered
<1> QED
  BY <1>1, IngestKeepsCover, ResizeKeepsCover, RestKeepsCover DEF PersistNext

\* The contents of a set of cells are no more than the cells.
LEMMA ImageBound ==
  ASSUME NEW C, IsFiniteSet(C), NEW stood, NEW S, \A e \in S : \E c \in C : e = stood[c]
  PROVE  Cardinality(S) <= Cardinality(C) /\ Cardinality(S) \in Nat
<1> DEFINE f == [c \in C |-> stood[c]]
           T == {f[c] : c \in C}
<1>1. T = {stood[c] : c \in C}
  OBVIOUS
<1>2. f \in Surjection(C, T)
  BY DEF Surjection
<1> HIDE DEF f, T
<1>3. IsFiniteSet(T) /\ Cardinality(T) <= Cardinality(C)
  BY <1>2, FS_Surjection
<1>4. S \subseteq T
  BY <1>1
<1>5. Cardinality(S) <= Cardinality(T) /\ Cardinality(S) \in Nat /\ Cardinality(T) \in Nat
  BY <1>3, <1>4, FS_Subset, FS_CardinalityType
<1>6. Cardinality(C) \in Nat
  BY FS_CardinalityType
<1> QED
  BY <1>3, <1>5, <1>6

\* A range of cells is no larger than the undo log.
LEMMA RangeSize ==
  ASSUME NEW st \in Int, NEW nd \in Int, nd - st <= MAX_ULOG_ENTRIES
  PROVE  /\ IsFiniteSet(st .. nd - 1)
         /\ Cardinality(st .. nd - 1) \in Nat /\ Cardinality(st .. nd - 1) <= MAX_ULOG_ENTRIES
<1>1. /\ IsFiniteSet(st .. nd - 1)
      /\ Cardinality(st .. nd - 1) = (IF st <= nd - 1 THEN (nd - 1) - st + 1 ELSE 0)
  BY FS_Interval
<1> QED
  BY <1>1, UndoLogAssumption

\* Of what was durable when a rebalance began, a power failure can lose no more than one
\* range of cells: what the range held when it was last flushed is all that may be
\* nowhere else.
THEOREM LossIsBounded == PersistSpec /\ []AssertionsHold => []LossBounded
<1>1. CoverInv /\ RangeInv => LossBounded
  <2> SUFFICES ASSUME CoverInv, RangeInv, task.active
               PROVE  Cardinality(task.durable \ Contents(graph, DOMAIN media \ Dirty)) <= MAX_ULOG_ENTRIES
    BY DEF LossBounded
  <2>1. ulog.st \in Int /\ ulog.nd \in Int /\ ulog.nd - ulog.st <= MAX_ULOG_ENTRIES
    BY DEF CoverInv, RangeInv
  <2>2. PICK stood : Covered(stood)
    BY DEF CoverInv
  <2> DEFINE C == ulog.st .. ulog.nd - 1
             lost == task.durable \ Contents(graph, DOMAIN media \ Dirty)
  <2>3. \A e \in lost : \E c \in C : e = stood[c]
    <3>1. lost \subseteq {stood[c] : c \in C}
      BY <2>2 DEF Covered
    <3> HIDE DEF C, lost
    <3> QED
      BY <3>1
  <2>4. IsFiniteSet(C) /\ Cardinality(C) \in Nat /\ Cardinality(C) <= MAX_ULOG_ENTRIES
    BY <2>1, RangeSize
  <2> HIDE DEF C, lost
  <2>5. Cardinality(lost) <= Cardinality(C) /\ Cardinality(lost) \in Nat
    BY <2>3, <2>4, ImageBound
  <2>6. Cardinality(lost) <= MAX_ULOG_ENTRIES
    BY <2>4, <2>5, UndoLogAssumption
  <2> QED
    BY <2>6 DEF lost
<1> QED
  BY <1>1, CoverInitial, CoverInductive, RangeInitial, RangeInductive, LoopInvariant, PTL DEF PersistSpec
=============================================================================
