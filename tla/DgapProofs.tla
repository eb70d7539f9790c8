----------------------------- MODULE DgapProofs -----------------------------
(***************************************************************************)
(* Theorems about concurrent insertion, for every base graph, every         *)
(* sequence of insertions and any number of threads.                        *)
(*                                                                         *)
(* 1. The lock protocol of SegmentLocks, for every outcome of the density   *)
(*    tests.  LocksTypeOK needs LoopBounds (the loops of lock_in_batch and  *)
(*    unlock_in_batch stay inside their window), and the two are inductive  *)
(*    together.  HoldsWhatItUses is inductive on top of them: a step gives  *)
(*    a mutex only to the thread that takes it, when it is free, and frees  *)
(*    only the mutex of a segment its thread is past.  Exclusion and the    *)
(*    discipline of releasing follow, because a mutex has one owner.        *)
(* 2. Dgap, whose steps compute the densities and change the graph, follows *)
(*    that protocol.                                                        *)
(* 3. The counts, for whatever windows: the graph has its types and the     *)
(*    counts are the sums of the degrees (ThreadsInv, GraphInv).  A segment *)
(*    that another thread reads the border of does not move.                *)
(* 4. While no assertion of the code fails, no vertex is cut, overwritten   *)
(*    or displaced (ContentInv), and the logs hold the rest of its edges    *)
(*    (LogsInv, which needs no assertion).  An assertion that fails stops   *)
(*    the program; calculate_positions, with no gap to share out, would go  *)
(*    on to move vertices into one another.                                 *)
(* 5. So the lists a reader of out_neigh sees are those of GraphStore.      *)
(***************************************************************************)
EXTENDS Dgap, PmaProofs, SequenceTheorems

-----------------------------------------------------------------------------
(***************************************************************************)
(* 1. The lock protocol.                                                    *)
(***************************************************************************)
\* The leaves of a window, computed by division as in insert(): a window of n
\* leaves around segment s starts at or before s, and is not empty.
LEMMA WindowBounds ==
  ASSUME NEW s \in Segments, NEW n \in Nat \ {0}
  PROVE  /\ WindowLeft(s, n) \in Segments
         /\ WindowRight(s, n) \in 1 .. segment_count
         /\ WindowLeft(s, n) < WindowRight(s, n)
<1>1. s \in Nat /\ s < segment_count /\ segment_count \in Nat \ {0}
  BY LocksAssumption DEF Segments
<1>2. PICK q \in Nat : q = s \div n
  BY <1>1
<1>3. q * n <= s
  BY <1>1, <1>2
<1>4. q * n \in Nat
  BY <1>2
<1> DEFINE w == q * n
<1>5. w \in Nat /\ w <= s
  BY <1>3, <1>4
<1>6. WindowLeft(s, n) = w
  BY <1>2 DEF WindowLeft
<1> HIDE DEF w
<1>7. QED
  BY <1>1, <1>5, <1>6 DEF WindowRight, LowerOf, Segments

LoopInv == LocksTypeOK /\ LoopBounds

\* No segment is locked before the first insertion.
LEMMA LoopInit == LocksInit => LoopInv
BY LocksAssumption
   DEF LocksInit, LoopInv, LocksTypeOK, LoopBounds, LoopBound, Segments, Labels

\* Every step of the lock loops keeps what they rely on.
LEMMA LoopStep == LoopInv /\ [LocksNext]_lockVars => LoopInv'
<1> SUFFICES ASSUME LoopInv, [LocksNext]_lockVars
             PROVE  LoopInv'
  OBVIOUS
<1>0. CASE UNCHANGED lockVars
  BY <1>0 DEF lockVars, shared, search, locals, LoopInv, LocksTypeOK, LoopBounds, LoopBound
<1> SUFFICES ASSUME NEW t \in Threads, LocksStep(t)
             PROVE  LoopInv'
  BY <1>0 DEF LocksNext
<1>last. right_segment[t] - 1 \in Segments
  <2>1. right_segment[t] \in 1 .. segment_count
    BY DEF LoopInv, LocksTypeOK
  <2> QED
    BY <2>1, LocksAssumption DEF Segments
<1> USE LocksAssumption DEF LoopInv, shared, search, locals, Goto
<1>1. CASE \E s \in Segments : Call(t, s)
  <2>0. PICK s \in Segments : Call(t, s)
    BY <1>1
  <2>1. pc' \in [Threads -> Labels]
    BY <2>0 DEF Call, LocksTypeOK, Labels
  <2>2. todo' \in [Threads -> Nat]
    BY <2>0 DEF Call, LocksTypeOK
  <2>3. current_segment' \in [Threads -> Segments]
    BY <2>0 DEF Call, LocksTypeOK
  <2>4. LocksTypeOK'
    BY <2>0, <2>1, <2>2, <2>3 DEF Call, LocksTypeOK
  <2>5. LoopBounds'
    <3> SUFFICES ASSUME NEW u \in Threads PROVE LoopBound(u)'
      BY DEF LoopBounds
    <3>1. LoopBound(u) /\ LoopBound(t)
      BY DEF LoopBounds
    <3>2. CASE u # t
      BY <2>0, <3>1, <3>2 DEF Call, LocksTypeOK, LoopBound
    <3>3. CASE u = t
      BY <2>0, <3>1, <3>3 DEF Call, LocksTypeOK, LoopBound, Segments
    <3> QED
      BY <3>2, <3>3
  <2> QED
    BY <2>4, <2>5
<1>2. CASE EnterLeaf(t)
  <2>1. pc' \in [Threads -> Labels]
    BY <1>2 DEF EnterLeaf, LocksTypeOK, Labels
  <2>2. lock' \in [Segments -> Threads \cup {NoThread}]
    BY <1>2 DEF EnterLeaf, LocksTypeOK, Segments
  <2>3. LocksTypeOK'
    BY <1>2, <2>1, <2>2 DEF EnterLeaf, LocksTypeOK
  <2>4. LoopBounds'
    <3> SUFFICES ASSUME NEW u \in Threads PROVE LoopBound(u)'
      BY DEF LoopBounds
    <3>1. LoopBound(u) /\ LoopBound(t)
      BY DEF LoopBounds
    <3>2. CASE u # t
      BY <1>2, <3>1, <3>2 DEF EnterLeaf, LocksTypeOK, LoopBound
    <3>3. CASE u = t
      BY <1>2, <3>1, <3>3 DEF EnterLeaf, LocksTypeOK, LoopBound, Segments
    <3> QED
      BY <3>2, <3>3
  <2> QED
    BY <2>3, <2>4
<1>3. CASE WaitForRebalance(t)
  <2>1. pc' \in [Threads -> Labels]
    BY <1>3 DEF WaitForRebalance, LocksTypeOK, Labels
  <2>2. LocksTypeOK'
    BY <1>3, <2>1 DEF WaitForRebalance, LocksTypeOK
  <2>3. LoopBounds'
    <3> SUFFICES ASSUME NEW u \in Threads PROVE LoopBound(u)'
      BY DEF LoopBounds
    <3>1. LoopBound(u) /\ LoopBound(t)
      BY DEF LoopBounds
    <3>2. CASE u # t
      BY <1>3, <3>1, <3>2 DEF WaitForRebalance, LocksTypeOK, LoopBound
    <3>3. CASE u = t
      BY <1>3, <3>1, <3>3 DEF WaitForRebalance, LocksTypeOK, LoopBound, Segments
    <3> QED
      BY <3>2, <3>3
  <2> QED
    BY <2>2, <2>3
<1>4. CASE SpuriousWakeup(t)
  <2>1. pc' \in [Threads -> Labels]
    BY <1>4 DEF SpuriousWakeup, LocksTypeOK, Labels
  <2>2. LocksTypeOK'
    BY <1>4, <2>1 DEF SpuriousWakeup, LocksTypeOK
  <2>3. LoopBounds'
    <3> SUFFICES ASSUME NEW u \in Threads PROVE LoopBound(u)'
      BY DEF LoopBounds
    <3>1. LoopBound(u) /\ LoopBound(t)
      BY DEF LoopBounds
    <3>2. CASE u # t
      BY <1>4, <3>1, <3>2 DEF SpuriousWakeup, LocksTypeOK, LoopBound
    <3>3. CASE u = t
      BY <1>4, <3>1, <3>3 DEF SpuriousWakeup, LocksTypeOK, LoopBound, Segments
    <3> QED
      BY <3>2, <3>3
  <2> QED
    BY <2>2, <2>3
<1>5. CASE \E dense \in BOOLEAN : DoInsertion(t, dense)
  <2>0. PICK dense \in BOOLEAN : DoInsertion(t, dense)
    BY <1>5
  <2>1. current_segment[t] + segment_count \in Nat
    BY DEF LocksTypeOK, Segments
  <2>2. pc' \in [Threads -> Labels]
    BY <2>0, <2>1 DEF DoInsertion, LocksTypeOK, Labels
  <2>3. lock' \in [Segments -> Threads \cup {NoThread}]
    BY <2>0, <2>1 DEF DoInsertion, LocksTypeOK, Segments
  <2>4. window' \in [Threads -> Nat]
    BY <2>0, <2>1 DEF DoInsertion, LocksTypeOK
  <2>5. span' \in [Threads -> Nat \ {0}]
    BY <2>0, <2>1 DEF DoInsertion, LocksTypeOK
  <2>6. LocksTypeOK'
    BY <2>0, <2>1, <2>2, <2>3, <2>4, <2>5 DEF DoInsertion, LocksTypeOK
  <2>7. LoopBounds'
    <3> SUFFICES ASSUME NEW u \in Threads PROVE LoopBound(u)'
      BY DEF LoopBounds
    <3>1. LoopBound(u) /\ LoopBound(t)
      BY DEF LoopBounds
    <3>2. CASE u # t
      BY <2>0, <2>1, <3>1, <3>2 DEF DoInsertion, LocksTypeOK, LoopBound
    <3>3. CASE u = t
      BY <2>0, <2>1, <3>1, <3>3 DEF DoInsertion, LocksTypeOK, LoopBound, Segments
    <3> QED
      BY <3>2, <3>3
  <2> QED
    BY <2>6, <2>7
<1>6. CASE ReadCounter(t)
  <2>1. pc' \in [Threads -> Labels]
    BY <1>6 DEF ReadCounter, LocksTypeOK, Labels
  <2>2. old_val' \in [Threads -> Int]
    BY <1>6 DEF ReadCounter, LocksTypeOK
  <2>3. LocksTypeOK'
    BY <1>6, <2>1, <2>2 DEF ReadCounter, LocksTypeOK
  <2>4. LoopBounds'
    <3> SUFFICES ASSUME NEW u \in Threads PROVE LoopBound(u)'
      BY DEF LoopBounds
    <3>1. LoopBound(u) /\ LoopBound(t)
      BY DEF LoopBounds
    <3>2. CASE u # t
      BY <1>6, <3>1, <3>2 DEF ReadCounter, LocksTypeOK, LoopBound
    <3>3. CASE u = t
      BY <1>6, <3>1, <3>3 DEF ReadCounter, LocksTypeOK, LoopBound, Segments
    <3> QED
      BY <3>2, <3>3
  <2> QED
    BY <2>3, <2>4
<1>7. CASE WriteCounter(t)
  <2>1. pc' \in [Threads -> Labels]
    BY <1>7 DEF WriteCounter, LocksTypeOK, Labels
  <2>2. lock' \in [Segments -> Threads \cup {NoThread}]
    BY <1>7 DEF WriteCounter, LocksTypeOK, Segments
  <2>3. on_rebalance' \in [Segments -> Int]
    BY <1>7 DEF WriteCounter, LocksTypeOK, Segments
  <2>4. LocksTypeOK'
    BY <1>7, <2>1, <2>2, <2>3 DEF WriteCounter, LocksTypeOK
  <2>5. LoopBounds'
    <3> SUFFICES ASSUME NEW u \in Threads PROVE LoopBound(u)'
      BY DEF LoopBounds
    <3>1. LoopBound(u) /\ LoopBound(t)
      BY DEF LoopBounds
    <3>2. CASE u # t
      BY <1>7, <3>1, <3>2 DEF WriteCounter, LocksTypeOK, LoopBound
    <3>3. CASE u = t
      BY <1>7, <3>1, <3>3 DEF WriteCounter, LocksTypeOK, LoopBound, Segments
    <3> QED
      BY <3>2, <3>3
  <2> QED
    BY <2>4, <2>5
<1>8. CASE Climb(t)
  <2>0. 2 * span[t] \in Nat \ {0}
    BY DEF LocksTypeOK
  <2>1. /\ WindowLeft(current_segment[t], 2 * span[t]) \in Segments
        /\ WindowRight(current_segment[t], 2 * span[t]) \in 1 .. segment_count
        /\ WindowLeft(current_segment[t], 2 * span[t]) < WindowRight(current_segment[t], 2 * span[t])
    BY <2>0, WindowBounds DEF LocksTypeOK
  <2>2. window[t] \div 2 \in Nat
    BY DEF LocksTypeOK
  <2>3. pc' \in [Threads -> Labels]
    BY <1>8, <2>0, <2>1, <2>2 DEF Climb, LocksTypeOK, Labels
  <2>4. window' \in [Threads -> Nat]
    BY <1>8, <2>0, <2>1, <2>2 DEF Climb, LocksTypeOK
  <2>5. span' \in [Threads -> Nat \ {0}]
    BY <1>8, <2>0, <2>1, <2>2 DEF Climb, LocksTypeOK
  <2>6. left_segment' \in [Threads -> Segments]
    BY <1>8, <2>0, <2>1, <2>2 DEF Climb, LocksTypeOK
  <2>7. right_segment' \in [Threads -> 1 .. segment_count]
    BY <1>8, <2>0, <2>1, <2>2 DEF Climb, LocksTypeOK
  <2>8. seg_id' \in [Threads -> Segments]
    BY <1>8, <2>0, <2>1, <2>2 DEF Climb, LocksTypeOK
  <2>9. ret' \in [Threads -> {"idle", "climb", "decide", "resize"}]
    BY <1>8, <2>0, <2>1, <2>2 DEF Climb, LocksTypeOK
  <2>10. LocksTypeOK'
    BY <1>8, <2>0, <2>1, <2>2, <2>3, <2>4, <2>5, <2>6, <2>7, <2>8, <2>9 DEF Climb, LocksTypeOK
  <2>11. LoopBounds'
    <3> SUFFICES ASSUME NEW u \in Threads PROVE LoopBound(u)'
      BY DEF LoopBounds
    <3>1. LoopBound(u) /\ LoopBound(t)
      BY DEF LoopBounds
    <3>2. CASE u # t
      BY <1>8, <2>0, <2>1, <2>2, <3>1, <3>2 DEF Climb, LocksTypeOK, LoopBound
    <3>3. CASE u = t
      BY <1>8, <2>0, <2>1, <2>2, <3>1, <3>3 DEF Climb, LocksTypeOK, LoopBound, Segments
    <3> QED
      BY <3>2, <3>3
  <2> QED
    BY <2>10, <2>11
<1>9. CASE CountIn(t)
  <2>1. pc' \in [Threads -> Labels]
    BY <1>9 DEF CountIn, LocksTypeOK, Labels
  <2>2. on_rebalance' \in [Segments -> Int]
    BY <1>9 DEF CountIn, LocksTypeOK, Segments
  <2>3. LocksTypeOK'
    BY <1>9, <2>1, <2>2 DEF CountIn, LocksTypeOK
  <2>4. LoopBounds'
    <3> SUFFICES ASSUME NEW u \in Threads PROVE LoopBound(u)'
      BY DEF LoopBounds
    <3>1. LoopBound(u) /\ LoopBound(t)
      BY DEF LoopBounds
    <3>2. CASE u # t
      BY <1>9, <3>1, <3>2 DEF CountIn, LocksTypeOK, LoopBound
    <3>3. CASE u = t
      BY <1>9, <3>1, <3>3 DEF CountIn, LocksTypeOK, LoopBound, Segments
    <3> QED
      BY <3>2, <3>3
  <2> QED
    BY <2>3, <2>4
<1>10. CASE LockOne(t)
  <2>1. seg_id[t] + 1 # right_segment[t] =>
          seg_id[t] + 1 \in Segments /\ seg_id[t] + 1 < right_segment[t]
    <3>1. LoopBound(t) /\ pc[t] = "batch_lock"
      BY <1>10 DEF LockOne, LoopBounds
    <3>2. seg_id[t] < right_segment[t]
      BY <3>1 DEF LoopBound
    <3>3. seg_id[t] \in Nat /\ right_segment[t] \in 1 .. segment_count
      BY DEF LocksTypeOK, Segments
    <3> QED
      BY <3>2, <3>3 DEF Segments
  <2>2. pc' \in [Threads -> Labels]
    BY <1>10, <2>1 DEF LockOne, LocksTypeOK, Labels, LoopBounds, LoopBound
  <2>3. lock' \in [Segments -> Threads \cup {NoThread}]
    BY <1>10, <2>1 DEF LockOne, LocksTypeOK, Segments
  <2>4. seg_id' \in [Threads -> Segments]
    BY <1>10, <2>1 DEF LockOne, LocksTypeOK
  <2>5. LocksTypeOK'
    BY <1>10, <2>1, <2>2, <2>3, <2>4 DEF LockOne, LocksTypeOK
  <2>6. LoopBounds'
    <3> SUFFICES ASSUME NEW u \in Threads PROVE LoopBound(u)'
      BY DEF LoopBounds
    <3>1. LoopBound(u) /\ LoopBound(t)
      BY DEF LoopBounds
    <3>2. CASE u # t
      BY <1>10, <2>1, <3>1, <3>2 DEF LockOne, LocksTypeOK, LoopBound
    <3>3. CASE u = t /\ seg_id[t] + 1 = right_segment[t]
      <4>1. pc'[t] \in {"decide", "resize"} /\ UNCHANGED <<left_segment, right_segment>>
        BY <1>10, <3>1, <3>3 DEF LockOne, LocksTypeOK, LoopBound
      <4>2. left_segment[t] < right_segment[t]
        BY <1>10, <3>1 DEF LockOne, LoopBound
      <4> QED
        BY <3>3, <4>1, <4>2 DEF LoopBound
    <3>4. CASE u = t /\ seg_id[t] + 1 # right_segment[t]
      <4>1. /\ pc'[t] = "batch" /\ seg_id'[t] = seg_id[t] + 1
            /\ UNCHANGED <<left_segment, right_segment, ret>>
        BY <1>10, <3>4 DEF LockOne, LocksTypeOK
      <4>2. /\ left_segment[t] <= seg_id[t] /\ seg_id[t] < right_segment[t]
            /\ ret[t] \in {"decide", "resize"}
        BY <1>10, <3>1 DEF LockOne, LoopBound
      <4>3. left_segment[t] \in Int /\ seg_id[t] \in Int /\ right_segment[t] \in Int
        BY DEF LocksTypeOK, Segments
      <4> QED
        BY <2>1, <3>4, <4>1, <4>2, <4>3 DEF LoopBound
    <3> QED
      BY <3>2, <3>3, <3>4
  <2> QED
    BY <2>5, <2>6
<1>11. CASE \E fits \in BOOLEAN : Decide(t, fits)
  <2>0. PICK fits \in BOOLEAN : Decide(t, fits)
    BY <1>11
  <2>1. right_segment[t] - 1 \in Segments
    BY <1>last
  <2>2. pc' \in [Threads -> Labels]
    BY <2>0, <2>1 DEF Decide, StartUnlock, LocksTypeOK, Labels
  <2>3. seg_id' \in [Threads -> Segments]
    BY <2>0, <2>1 DEF Decide, StartUnlock, LocksTypeOK
  <2>4. ret' \in [Threads -> {"idle", "climb", "decide", "resize"}]
    BY <2>0, <2>1 DEF Decide, StartUnlock, LocksTypeOK
  <2>5. LocksTypeOK'
    BY <2>0, <2>1, <2>2, <2>3, <2>4 DEF Decide, StartUnlock, LocksTypeOK
  <2>6. LoopBounds'
    <3> SUFFICES ASSUME NEW u \in Threads PROVE LoopBound(u)'
      BY DEF LoopBounds
    <3>1. LoopBound(u) /\ LoopBound(t)
      BY DEF LoopBounds
    <3>2. CASE u # t
      BY <2>0, <2>1, <3>1, <3>2 DEF Decide, StartUnlock, LocksTypeOK, LoopBound
    <3>3. CASE u = t
      <4>1. left_segment[t] < right_segment[t] /\ UNCHANGED <<left_segment, right_segment>>
        BY <2>0, <3>1 DEF Decide, LoopBound
      <4>2. CASE fits
        <5>1. pc'[t] \in {"rebalance", "climb"}
          BY <2>0, <4>2 DEF Decide, LocksTypeOK
        <5> QED
          BY <3>3, <4>1, <5>1 DEF LoopBound
      <4>3. CASE ~fits
        <5>1. pc'[t] = "uncount" /\ seg_id'[t] = right_segment[t] - 1 /\ ret'[t] = "climb"
          BY <2>0, <4>3 DEF Decide, StartUnlock, LocksTypeOK
        <5>2. left_segment[t] \in Int /\ right_segment[t] \in Int
          BY DEF LocksTypeOK, Segments
        <5> QED
          BY <3>3, <4>1, <5>1, <5>2 DEF LoopBound
      <4> QED
        BY <4>2, <4>3
    <3> QED
      BY <3>2, <3>3
  <2> QED
    BY <2>5, <2>6
<1>12. CASE Rebalance(t)
  <2>1. pc' \in [Threads -> Labels]
    BY <1>12 DEF Rebalance, StartUnlock, LocksTypeOK, Labels
  <2>2. seg_id' \in [Threads -> Segments]
    BY <1>12, <1>last DEF Rebalance, StartUnlock, LocksTypeOK
  <2>3. ret' \in [Threads -> {"idle", "climb", "decide", "resize"}]
    BY <1>12 DEF Rebalance, StartUnlock, LocksTypeOK
  <2>4. LocksTypeOK'
    BY <1>12, <2>1, <2>2, <2>3 DEF Rebalance, StartUnlock, LocksTypeOK
  <2>5. LoopBounds'
    <3> SUFFICES ASSUME NEW u \in Threads PROVE LoopBound(u)'
      BY DEF LoopBounds
    <3>1. LoopBound(u) /\ LoopBound(t)
      BY DEF LoopBounds
    <3>2. CASE u # t
      BY <1>12, <3>1, <3>2 DEF Rebalance, StartUnlock, LocksTypeOK, LoopBound
    <3>3. CASE u = t
      <4>1. /\ pc[t] = "rebalance" /\ pc'[t] = "uncount" /\ ret'[t] = "idle"
            /\ seg_id'[t] = right_segment[t] - 1
            /\ UNCHANGED <<left_segment, right_segment>>
        BY <1>12 DEF Rebalance, StartUnlock, LocksTypeOK
      <4>2. left_segment[t] \in Int /\ right_segment[t] \in Int
        BY DEF LocksTypeOK, Segments
      <4> QED
        BY <3>1, <3>3, <4>1, <4>2 DEF LoopBound
    <3> QED
      BY <3>2, <3>3
  <2> QED
    BY <2>4, <2>5
<1>13. CASE \E dense \in BOOLEAN : NoSpace(t, dense)
  <2>0. PICK dense \in BOOLEAN : NoSpace(t, dense)
    BY <1>13
  <2>1. 0 \in Segments
    BY DEF Segments
  <2>2. pc' \in [Threads -> Labels]
    BY <2>0, <2>1 DEF NoSpace, LocksTypeOK, Labels
  <2>3. left_segment' \in [Threads -> Segments]
    BY <2>0, <2>1 DEF NoSpace, LocksTypeOK, Segments
  <2>4. right_segment' \in [Threads -> 1 .. segment_count]
    BY <2>0, <2>1 DEF NoSpace, LocksTypeOK, Segments
  <2>5. seg_id' \in [Threads -> Segments]
    BY <2>0, <2>1 DEF NoSpace, LocksTypeOK
  <2>6. ret' \in [Threads -> {"idle", "climb", "decide", "resize"}]
    BY <2>0, <2>1 DEF NoSpace, LocksTypeOK
  <2>7. LocksTypeOK'
    BY <2>0, <2>1, <2>2, <2>3, <2>4, <2>5, <2>6 DEF NoSpace, LocksTypeOK
  <2>8. LoopBounds'
    <3> SUFFICES ASSUME NEW u \in Threads PROVE LoopBound(u)'
      BY DEF LoopBounds
    <3>1. LoopBound(u) /\ LoopBound(t)
      BY DEF LoopBounds
    <3>2. CASE u # t
      BY <2>0, <2>1, <3>1, <3>2 DEF NoSpace, LocksTypeOK, LoopBound
    <3>3. CASE u = t
      BY <2>0, <2>1, <3>1, <3>3 DEF NoSpace, LocksTypeOK, LoopBound, Segments
    <3> QED
      BY <3>2, <3>3
  <2> QED
    BY <2>7, <2>8
<1>14. CASE Resize(t)
  <2>1. pc' \in [Threads -> Labels]
    BY <1>14 DEF Resize, StartUnlock, LocksTypeOK, Labels
  <2>2. seg_id' \in [Threads -> Segments]
    BY <1>14, <1>last DEF Resize, StartUnlock, LocksTypeOK
  <2>3. ret' \in [Threads -> {"idle", "climb", "decide", "resize"}]
    BY <1>14 DEF Resize, StartUnlock, LocksTypeOK
  <2>4. LocksTypeOK'
    BY <1>14, <2>1, <2>2, <2>3 DEF Resize, StartUnlock, LocksTypeOK
  <2>5. LoopBounds'
    <3> SUFFICES ASSUME NEW u \in Threads PROVE LoopBound(u)'
      BY DEF LoopBounds
    <3>1. LoopBound(u) /\ LoopBound(t)
      BY DEF LoopBounds
    <3>2. CASE u # t
      BY <1>14, <3>1, <3>2 DEF Resize, StartUnlock, LocksTypeOK, LoopBound
    <3>3. CASE u = t
      <4>1. /\ pc[t] = "resize" /\ pc'[t] = "uncount" /\ ret'[t] = "idle"
            /\ seg_id'[t] = right_segment[t] - 1
            /\ UNCHANGED <<left_segment, right_segment>>
        BY <1>14 DEF Resize, StartUnlock, LocksTypeOK
      <4>2. left_segment[t] \in Int /\ right_segment[t] \in Int
        BY DEF LocksTypeOK, Segments
      <4> QED
        BY <3>1, <3>3, <4>1, <4>2 DEF LoopBound
    <3> QED
      BY <3>2, <3>3
  <2> QED
    BY <2>4, <2>5
<1>15. CASE CountOut(t)
  <2>1. pc' \in [Threads -> Labels]
    BY <1>15 DEF CountOut, LocksTypeOK, Labels
  <2>2. on_rebalance' \in [Segments -> Int]
    <3>1. on_rebalance[seg_id[t]] - 1 \in Int
      BY DEF LocksTypeOK
    <3> QED
      BY <1>15, <3>1 DEF CountOut, LocksTypeOK
  <2>3. LocksTypeOK'
    BY <1>15, <2>1, <2>2 DEF CountOut, LocksTypeOK
  <2>4. LoopBounds'
    <3> SUFFICES ASSUME NEW u \in Threads PROVE LoopBound(u)'
      BY DEF LoopBounds
    <3>1. LoopBound(u) /\ LoopBound(t)
      BY DEF LoopBounds
    <3>2. CASE u # t
      BY <1>15, <3>1, <3>2 DEF CountOut, LocksTypeOK, LoopBound
    <3>3. CASE u = t
      BY <1>15, <3>1, <3>3 DEF CountOut, LocksTypeOK, LoopBound, Segments
    <3> QED
      BY <3>2, <3>3
  <2> QED
    BY <2>3, <2>4
<1>16. CASE UnlockOne(t)
  <2>1. pc' \in [Threads -> Labels]
    BY <1>16 DEF UnlockOne, LocksTypeOK, Labels, LoopBounds, LoopBound
  <2>2. lock' \in [Segments -> Threads \cup {NoThread}]
    BY <1>16 DEF UnlockOne, LocksTypeOK, Segments
  <2>3. seg_id' \in [Threads -> Segments]
    <3>1. pc[t] = "unlock" /\ left_segment[t] \in Segments /\ seg_id[t] \in Segments
      BY <1>16 DEF UnlockOne, LocksTypeOK
    <3>2. left_segment[t] <= seg_id[t]
      BY <3>1 DEF LoopBounds, LoopBound
    <3>3. seg_id[t] # left_segment[t] => seg_id[t] - 1 \in Segments
      BY <3>1, <3>2 DEF Segments
    <3> QED
      BY <1>16, <3>1, <3>3 DEF UnlockOne, LocksTypeOK
  <2>4. LocksTypeOK'
    BY <1>16, <2>1, <2>2, <2>3 DEF UnlockOne, LocksTypeOK
  <2>5. LoopBounds'
    <3> SUFFICES ASSUME NEW u \in Threads PROVE LoopBound(u)'
      BY DEF LoopBounds
    <3>1. LoopBound(u) /\ LoopBound(t)
      BY DEF LoopBounds
    <3>2. CASE u # t
      BY <1>16, <3>1, <3>2 DEF UnlockOne, LocksTypeOK, LoopBound, Waiters
    <3>3. CASE u = t
      <4>1. /\ pc[t] = "unlock" /\ left_segment[t] \in Int /\ seg_id[t] \in Int
            /\ right_segment[t] \in Int
            /\ UNCHANGED <<left_segment, right_segment, ret>>
        BY <1>16 DEF UnlockOne, LocksTypeOK, Segments
      <4>2. /\ left_segment[t] < right_segment[t] /\ left_segment[t] <= seg_id[t]
            /\ seg_id[t] < right_segment[t] /\ ret[t] \in {"idle", "climb"}
        BY <3>1, <4>1 DEF LoopBound
      <4>3. CASE seg_id[t] = left_segment[t]
        <5>1. pc'[t] \in {"idle", "climb"}
          BY <1>16, <4>2, <4>3 DEF UnlockOne
        <5> QED
          BY <3>3, <5>1 DEF LoopBound
      <4>4. CASE seg_id[t] # left_segment[t]
        <5>1. pc'[t] = "uncount" /\ seg_id'[t] = seg_id[t] - 1
          BY <1>16, <4>4 DEF UnlockOne, LocksTypeOK
        <5> QED
          BY <3>3, <4>1, <4>2, <4>4, <5>1 DEF LoopBound
      <4> QED
        BY <4>3, <4>4
    <3> QED
      BY <3>2, <3>3
  <2> QED
    BY <2>4, <2>5
<1>17. QED
  BY <1>1, <1>2, <1>3, <1>4, <1>5, <1>6, <1>7, <1>8, <1>9, <1>10, <1>11, <1>12, <1>13, <1>14, <1>15, <1>16 DEF LocksStep

-----------------------------------------------------------------------------
\* The mutexes a thread relies on are mutexes of the array.
LEMMA HeldInRange ==
  ASSUME LoopInv, NEW t \in Threads
  PROVE  HeldSegments(t) \subseteq Segments
<1>1. /\ current_segment[t] \in Segments /\ left_segment[t] \in Segments
      /\ seg_id[t] \in Segments /\ right_segment[t] \in 1 .. segment_count
  BY DEF LoopInv, LocksTypeOK
<1>2. /\ left_segment[t] .. seg_id[t] - 1 \subseteq Segments
      /\ left_segment[t] .. seg_id[t] \subseteq Segments
      /\ left_segment[t] .. right_segment[t] - 1 \subseteq Segments
  BY <1>1, LocksAssumption DEF Segments
<1>3. QED
  BY <1>1, <1>2 DEF HeldSegments

\* What a step of t must respect for every thread to keep its mutexes.
LEMMA HoldsByParts ==
  ASSUME LoopInv, HoldsWhatItUses, NEW t \in Threads,
         \A u \in Threads \ {t} : HeldSegments(u)' = HeldSegments(u),
         \A s \in Segments : lock[s] \in Threads \ {t} => lock'[s] = lock[s],
         \A s \in HeldSegments(t)' : lock'[s] = t
  PROVE  HoldsWhatItUses'
<1> SUFFICES ASSUME NEW u \in Threads, NEW s \in HeldSegments(u)'
             PROVE  lock'[s] = u
  BY DEF HoldsWhatItUses
<1>1. CASE u = t
  BY <1>1
<1>2. CASE u # t
  <2>1. s \in HeldSegments(u) /\ s \in Segments
    BY <1>2, HeldInRange
  <2>2. lock[s] = u
    BY <2>1 DEF HoldsWhatItUses
  <2> QED
    BY <1>2, <2>1, <2>2
<1>3. QED
  BY <1>1, <1>2

\* A thread owns the mutex of every segment it works on, after each step too.
LEMMA HoldsStep ==
  LoopInv /\ HoldsWhatItUses /\ [LocksNext]_lockVars => HoldsWhatItUses'
<1> SUFFICES ASSUME LoopInv, HoldsWhatItUses, [LocksNext]_lockVars
             PROVE  HoldsWhatItUses'
  OBVIOUS
<1>0. CASE UNCHANGED lockVars
  BY <1>0 DEF lockVars, shared, search, locals, HoldsWhatItUses, HeldSegments
<1> SUFFICES ASSUME NEW t \in Threads, LocksStep(t)
             PROVE  HoldsWhatItUses'
  BY <1>0 DEF LocksNext
<1>a. LocksTypeOK /\ LoopBound(t)
  BY DEF LoopInv, LoopBounds
<1>b. LocksTypeOK' /\ LoopBound(t)'
  BY LoopStep DEF LoopInv, LoopBounds
<1>c. \A s \in HeldSegments(t) : lock[s] = t /\ s \in Segments
  BY HeldInRange DEF HoldsWhatItUses
<1> USE LocksAssumption DEF shared, search, locals, Goto
<1>1. CASE \E s \in Segments : Call(t, s)
  <2>0. PICK x \in Segments : Call(t, x)
    BY <1>1
  <2>1. \A u \in Threads \ {t} : HeldSegments(u)' = HeldSegments(u)
    BY <2>0, <1>a DEF Call, HeldSegments, LocksTypeOK
  <2>2. \A s \in Segments : lock[s] \in Threads \ {t} => lock'[s] = lock[s]
    BY <2>0, <1>a, <1>c DEF Call, LocksTypeOK
  <2>3. \A s \in HeldSegments(t)' : lock'[s] = t
    BY <2>0, <1>a, <1>b, <1>c DEF Call, HeldSegments, LocksTypeOK, LoopBound, Segments
  <2> QED
    BY <2>1, <2>2, <2>3, HoldsByParts
<1>2. CASE EnterLeaf(t)
  <2>1. \A u \in Threads \ {t} : HeldSegments(u)' = HeldSegments(u)
    BY <1>2, <1>a DEF EnterLeaf, HeldSegments, LocksTypeOK
  <2>2. \A s \in Segments : lock[s] \in Threads \ {t} => lock'[s] = lock[s]
    BY <1>2, <1>a, <1>c DEF EnterLeaf, LocksTypeOK
  <2>3. \A s \in HeldSegments(t)' : lock'[s] = t
    BY <1>2, <1>a, <1>b, <1>c DEF EnterLeaf, HeldSegments, LocksTypeOK, LoopBound, Segments
  <2> QED
    BY <2>1, <2>2, <2>3, HoldsByParts
<1>3. CASE WaitForRebalance(t)
  <2>1. \A u \in Threads \ {t} : HeldSegments(u)' = HeldSegments(u)
    BY <1>3, <1>a DEF WaitForRebalance, HeldSegments, LocksTypeOK
  <2>2. \A s \in Segments : lock[s] \in Threads \ {t} => lock'[s] = lock[s]
    BY <1>3, <1>a, <1>c DEF WaitForRebalance, LocksTypeOK
  <2>3. \A s \in HeldSegments(t)' : lock'[s] = t
    BY <1>3, <1>a, <1>b, <1>c DEF WaitForRebalance, HeldSegments, LocksTypeOK, LoopBound, Segments
  <2> QED
    BY <2>1, <2>2, <2>3, HoldsByParts
<1>4. CASE SpuriousWakeup(t)
  <2>1. \A u \in Threads \ {t} : HeldSegments(u)' = HeldSegments(u)
    BY <1>4, <1>a DEF SpuriousWakeup, HeldSegments, LocksTypeOK
  <2>2. \A s \in Segments : lock[s] \in Threads \ {t} => lock'[s] = lock[s]
    BY <1>4, <1>a, <1>c DEF SpuriousWakeup, LocksTypeOK
  <2>3. \A s \in HeldSegments(t)' : lock'[s] = t
    BY <1>4, <1>a, <1>b, <1>c DEF SpuriousWakeup, HeldSegments, LocksTypeOK, LoopBound, Segments
  <2> QED
    BY <2>1, <2>2, <2>3, HoldsByParts
<1>5. CASE \E dense \in BOOLEAN : DoInsertion(t, dense)
  <2>0. PICK dense \in BOOLEAN : DoInsertion(t, dense)
    BY <1>5
  <2>1. \A u \in Threads \ {t} : HeldSegments(u)' = HeldSegments(u)
    BY <2>0, <1>a DEF DoInsertion, HeldSegments, LocksTypeOK
  <2>2. \A s \in Segments : lock[s] \in Threads \ {t} => lock'[s] = lock[s]
    BY <2>0, <1>a, <1>c DEF DoInsertion, HeldSegments, LocksTypeOK
  <2>3. \A s \in HeldSegments(t)' : lock'[s] = t
    <3>1. CASE dense
      <4>1. /\ pc[t] = "insert" /\ pc'[t] = "register"
            /\ UNCHANGED <<lock, current_segment>>
        BY <2>0, <1>a, <3>1 DEF DoInsertion, LocksTypeOK
      <4>2. HeldSegments(t)' = HeldSegments(t)
        BY <4>1 DEF HeldSegments
      <4> QED
        BY <1>c, <4>1, <4>2
    <3>2. CASE ~dense
      <4>1. pc'[t] = "idle"
        BY <2>0, <1>a, <3>2 DEF DoInsertion, LocksTypeOK
      <4> QED
        BY <4>1 DEF HeldSegments
    <3> QED
      BY <3>1, <3>2
  <2> QED
    BY <2>1, <2>2, <2>3, HoldsByParts
<1>6. CASE ReadCounter(t)
  <2>1. \A u \in Threads \ {t} : HeldSegments(u)' = HeldSegments(u)
    BY <1>6, <1>a DEF ReadCounter, HeldSegments, LocksTypeOK
  <2>2. \A s \in Segments : lock[s] \in Threads \ {t} => lock'[s] = lock[s]
    BY <1>6, <1>a, <1>c DEF ReadCounter, LocksTypeOK
  <2>3. \A s \in HeldSegments(t)' : lock'[s] = t
    BY <1>6, <1>a, <1>b, <1>c DEF ReadCounter, HeldSegments, LocksTypeOK, LoopBound, Segments
  <2> QED
    BY <2>1, <2>2, <2>3, HoldsByParts
<1>7. CASE WriteCounter(t)
  <2>1. \A u \in Threads \ {t} : HeldSegments(u)' = HeldSegments(u)
    BY <1>7, <1>a DEF WriteCounter, HeldSegments, LocksTypeOK
  <2>2. \A s \in Segments : lock[s] \in Threads \ {t} => lock'[s] = lock[s]
    BY <1>7, <1>a, <1>c DEF WriteCounter, HeldSegments, LocksTypeOK
  <2>3. \A s \in HeldSegments(t)' : lock'[s] = t
    BY <1>7, <1>a, <1>b, <1>c DEF WriteCounter, HeldSegments, LocksTypeOK, LoopBound, Segments
  <2> QED
    BY <2>1, <2>2, <2>3, HoldsByParts
<1>8. CASE Climb(t)
  <2>1. \A u \in Threads \ {t} : HeldSegments(u)' = HeldSegments(u)
    BY <1>8, <1>a DEF Climb, HeldSegments, LocksTypeOK
  <2>2. \A s \in Segments : lock[s] \in Threads \ {t} => lock'[s] = lock[s]
    BY <1>8, <1>a, <1>c DEF Climb, LocksTypeOK
  <2>3. \A s \in HeldSegments(t)' : lock'[s] = t
    <3>1. pc'[t] = "batch" /\ left_segment'[t] = WindowLeft(current_segment[t], 2 * span[t])
                           /\ seg_id'[t] = WindowLeft(current_segment[t], 2 * span[t])
      BY <1>8, <1>a DEF Climb, LocksTypeOK
    <3>2. left_segment'[t] = seg_id'[t] /\ seg_id'[t] \in Int
      BY <1>b, <3>1 DEF LocksTypeOK, Segments
    <3>3. HeldSegments(t)' = {}
      BY <3>1, <3>2 DEF HeldSegments
    <3> QED
      BY <3>3
  <2> QED
    BY <2>1, <2>2, <2>3, HoldsByParts
<1>9. CASE CountIn(t)
  <2>1. \A u \in Threads \ {t} : HeldSegments(u)' = HeldSegments(u)
    BY <1>9, <1>a DEF CountIn, HeldSegments, LocksTypeOK
  <2>2. \A s \in Segments : lock[s] \in Threads \ {t} => lock'[s] = lock[s]
    BY <1>9, <1>a, <1>c DEF CountIn, LocksTypeOK
  <2>3. \A s \in HeldSegments(t)' : lock'[s] = t
    <3>1. /\ pc[t] = "batch" /\ pc'[t] = "batch_lock"
          /\ UNCHANGED <<lock, left_segment, seg_id>>
      BY <1>9, <1>a DEF CountIn, LocksTypeOK
    <3>2. HeldSegments(t)' = HeldSegments(t)
      BY <3>1 DEF HeldSegments
    <3> QED
      BY <1>c, <3>1, <3>2
  <2> QED
    BY <2>1, <2>2, <2>3, HoldsByParts
<1>10. CASE LockOne(t)
  <2>1. \A u \in Threads \ {t} : HeldSegments(u)' = HeldSegments(u)
    BY <1>10, <1>a DEF LockOne, HeldSegments, LocksTypeOK
  <2>2. \A s \in Segments : lock[s] \in Threads \ {t} => lock'[s] = lock[s]
    BY <1>10, <1>a, <1>c DEF LockOne, LocksTypeOK
  <2>3. \A s \in HeldSegments(t)' : lock'[s] = t
    <3>1. /\ left_segment[t] \in Int /\ seg_id[t] \in Segments /\ seg_id[t] \in Int
          /\ pc[t] = "batch_lock"
      BY <1>10, <1>a DEF LockOne, LocksTypeOK, Segments
    <3>2. \A s \in left_segment[t] .. seg_id[t] - 1 : lock[s] = t /\ s \in Segments
      BY <1>c, <3>1 DEF HeldSegments
    <3>3. lock' = [lock EXCEPT ![seg_id[t]] = t]
      BY <1>10 DEF LockOne
    <3>4. \A s \in left_segment[t] .. seg_id[t] : lock'[s] = t
      <4>1. \A s \in left_segment[t] .. seg_id[t] :
              s = seg_id[t] \/ s \in left_segment[t] .. seg_id[t] - 1
        BY <3>1
      <4>2. lock'[seg_id[t]] = t
        BY <1>a, <3>1, <3>3 DEF LocksTypeOK
      <4>3. \A s \in left_segment[t] .. seg_id[t] - 1 : lock'[s] = t
        BY <1>a, <3>2, <3>3 DEF LocksTypeOK
      <4> QED
        BY <4>1, <4>2, <4>3
    <3>5. HeldSegments(t)' = left_segment[t] .. seg_id[t]
      <4>1. CASE seg_id[t] + 1 = right_segment[t]
        <5>1. pc'[t] \in {"decide", "resize"} /\ UNCHANGED <<left_segment, right_segment>>
          BY <1>10, <1>a, <4>1 DEF LockOne, LocksTypeOK, LoopBound
        <5> QED
          BY <3>1, <4>1, <5>1 DEF HeldSegments
      <4>2. CASE seg_id[t] + 1 # right_segment[t]
        <5>1. pc'[t] = "batch" /\ seg_id'[t] = seg_id[t] + 1 /\ UNCHANGED left_segment
          BY <1>10, <1>a, <4>2 DEF LockOne, LocksTypeOK
        <5> QED
          BY <3>1, <5>1 DEF HeldSegments
      <4> QED
        BY <4>1, <4>2
    <3> QED
      BY <3>4, <3>5
  <2> QED
    BY <2>1, <2>2, <2>3, HoldsByParts
<1>11. CASE \E fits \in BOOLEAN : Decide(t, fits)
  <2>0. PICK fits \in BOOLEAN : Decide(t, fits)
    BY <1>11
  <2>1. \A u \in Threads \ {t} : HeldSegments(u)' = HeldSegments(u)
    BY <2>0, <1>a DEF Decide, StartUnlock, HeldSegments, LocksTypeOK
  <2>2. \A s \in Segments : lock[s] \in Threads \ {t} => lock'[s] = lock[s]
    BY <2>0, <1>a, <1>c DEF Decide, StartUnlock, LocksTypeOK
  <2>3. \A s \in HeldSegments(t)' : lock'[s] = t
    <3>1. CASE fits
      <4>1. /\ pc[t] = "decide" /\ pc'[t] \in {"rebalance", "climb"}
            /\ UNCHANGED <<lock, left_segment, right_segment>>
        BY <2>0, <1>a, <3>1 DEF Decide, LocksTypeOK
      <4>2. HeldSegments(t)' \subseteq HeldSegments(t)
        BY <4>1 DEF HeldSegments
      <4> QED
        BY <1>c, <4>1, <4>2
    <3>2. CASE ~fits
      <4>1. /\ pc[t] = "decide" /\ pc'[t] = "uncount"
            /\ seg_id'[t] = right_segment[t] - 1
            /\ UNCHANGED <<lock, left_segment>>
        BY <2>0, <1>a, <3>2 DEF Decide, StartUnlock, LocksTypeOK
      <4>2. HeldSegments(t)' = HeldSegments(t)
        BY <4>1 DEF HeldSegments
      <4> QED
        BY <1>c, <4>1, <4>2
    <3> QED
      BY <3>1, <3>2
  <2> QED
    BY <2>1, <2>2, <2>3, HoldsByParts
<1>12. CASE Rebalance(t)
  <2>1. \A u \in Threads \ {t} : HeldSegments(u)' = HeldSegments(u)
    BY <1>12, <1>a DEF Rebalance, StartUnlock, HeldSegments, LocksTypeOK
  <2>2. \A s \in Segments : lock[s] \in Threads \ {t} => lock'[s] = lock[s]
    BY <1>12, <1>a, <1>c DEF Rebalance, StartUnlock, LocksTypeOK
  <2>3. \A s \in HeldSegments(t)' : lock'[s] = t
    <3>1. /\ pc[t] = "rebalance" /\ pc'[t] = "uncount"
          /\ seg_id'[t] = right_segment[t] - 1
          /\ UNCHANGED <<lock, left_segment>>
      BY <1>12, <1>a DEF Rebalance, StartUnlock, LocksTypeOK
    <3>2. HeldSegments(t)' = HeldSegments(t)
      BY <3>1 DEF HeldSegments
    <3> QED
      BY <1>c, <3>1, <3>2
  <2> QED
    BY <2>1, <2>2, <2>3, HoldsByParts
<1>13. CASE \E dense \in BOOLEAN : NoSpace(t, dense)
  <2>0. PICK dense \in BOOLEAN : NoSpace(t, dense)
    BY <1>13
  <2>1. \A u \in Threads \ {t} : HeldSegments(u)' = HeldSegments(u)
    <3> SUFFICES ASSUME NEW u \in Threads \ {t} PROVE HeldSegments(u)' = HeldSegments(u)
      OBVIOUS
    <3>1. /\ pc'[u] = pc[u] /\ seg_id'[u] = seg_id[u]
          /\ left_segment'[u] = left_segment[u] /\ right_segment'[u] = right_segment[u]
          /\ UNCHANGED current_segment
      <4>1. pc'[u] = pc[u]
        BY <2>0, <1>a DEF NoSpace, LocksTypeOK
      <4>2. seg_id'[u] = seg_id[u]
        BY <2>0, <1>a DEF NoSpace, LocksTypeOK
      <4> QED
        BY <2>0, <1>a, <4>1, <4>2 DEF NoSpace, LocksTypeOK
    <3> QED
      BY <3>1 DEF HeldSegments
  <2>2. \A s \in Segments : lock[s] \in Threads \ {t} => lock'[s] = lock[s]
    BY <2>0, <1>a, <1>c DEF NoSpace, LocksTypeOK
  <2>3. \A s \in HeldSegments(t)' : lock'[s] = t
    <3>1. CASE dense
      <4>1. pc'[t] = "batch" /\ left_segment'[t] = 0 /\ seg_id'[t] = 0
        BY <2>0, <1>a, <3>1 DEF NoSpace, LocksTypeOK
      <4> QED
        BY <4>1 DEF HeldSegments
    <3>2. CASE ~dense
      <4>1. pc'[t] = "idle"
        BY <2>0, <1>a, <3>2 DEF NoSpace, LocksTypeOK
      <4> QED
        BY <4>1 DEF HeldSegments
    <3> QED
      BY <3>1, <3>2
  <2> QED
    BY <2>1, <2>2, <2>3, HoldsByParts
<1>14. CASE Resize(t)
  <2>1. \A u \in Threads \ {t} : HeldSegments(u)' = HeldSegments(u)
    BY <1>14, <1>a DEF Resize, StartUnlock, HeldSegments, LocksTypeOK
  <2>2. \A s \in Segments : lock[s] \in Threads \ {t} => lock'[s] = lock[s]
    BY <1>14, <1>a, <1>c DEF Resize, StartUnlock, LocksTypeOK
  <2>3. \A s \in HeldSegments(t)' : lock'[s] = t
    <3>1. /\ pc[t] = "resize" /\ pc'[t] = "uncount"
          /\ seg_id'[t] = right_segment[t] - 1
          /\ UNCHANGED <<lock, left_segment>>
      BY <1>14, <1>a DEF Resize, StartUnlock, LocksTypeOK
    <3>2. HeldSegments(t)' = HeldSegments(t)
      BY <3>1 DEF HeldSegments
    <3> QED
      BY <1>c, <3>1, <3>2
  <2> QED
    BY <2>1, <2>2, <2>3, HoldsByParts
<1>15. CASE CountOut(t)
  <2>1. \A u \in Threads \ {t} : HeldSegments(u)' = HeldSegments(u)
    BY <1>15, <1>a DEF CountOut, HeldSegments, LocksTypeOK
  <2>2. \A s \in Segments : lock[s] \in Threads \ {t} => lock'[s] = lock[s]
    BY <1>15, <1>a, <1>c DEF CountOut, LocksTypeOK
  <2>3. \A s \in HeldSegments(t)' : lock'[s] = t
    <3>1. /\ pc[t] = "uncount" /\ pc'[t] = "unlock"
          /\ UNCHANGED <<lock, left_segment, seg_id>>
      BY <1>15, <1>a DEF CountOut, LocksTypeOK
    <3>2. HeldSegments(t)' = HeldSegments(t)
      BY <3>1 DEF HeldSegments
    <3> QED
      BY <1>c, <3>1, <3>2
  <2> QED
    BY <2>1, <2>2, <2>3, HoldsByParts
<1>16. CASE UnlockOne(t)
  <2>1. \A u \in Threads \ {t} : HeldSegments(u)' = HeldSegments(u)
    BY <1>16, <1>a DEF UnlockOne, Waiters, HeldSegments, LocksTypeOK
  <2>2. \A s \in Segments : lock[s] \in Threads \ {t} => lock'[s] = lock[s]
    <3>1. pc[t] = "unlock" /\ lock' = [lock EXCEPT ![seg_id[t]] = NoThread]
      BY <1>16 DEF UnlockOne
    <3>2. /\ left_segment[t] <= seg_id[t] /\ seg_id[t] \in Int /\ left_segment[t] \in Int
      BY <1>a, <3>1 DEF LoopBound, LocksTypeOK, Segments
    <3>3. seg_id[t] \in HeldSegments(t)
      BY <3>1, <3>2 DEF HeldSegments
    <3> QED
      BY <1>a, <1>c, <3>1, <3>3 DEF LocksTypeOK
  <2>3. \A s \in HeldSegments(t)' : lock'[s] = t
    <3>1. /\ pc[t] = "unlock" /\ lock' = [lock EXCEPT ![seg_id[t]] = NoThread]
          /\ UNCHANGED left_segment
      BY <1>16 DEF UnlockOne
    <3>2. left_segment[t] <= seg_id[t] /\ seg_id[t] \in Int /\ left_segment[t] \in Int
      BY <1>a, <3>1 DEF LoopBound, LocksTypeOK, Segments
    <3>3. \A s \in left_segment[t] .. seg_id[t] - 1 :
            s \in HeldSegments(t) /\ s # seg_id[t]
      BY <3>1, <3>2 DEF HeldSegments
    <3>4. \A s \in left_segment[t] .. seg_id[t] - 1 : lock'[s] = t
      BY <1>a, <1>c, <3>1, <3>3 DEF LocksTypeOK
    <3>5. HeldSegments(t)' \subseteq left_segment[t] .. seg_id[t] - 1
      <4>1. CASE seg_id[t] = left_segment[t]
        <5>1. pc'[t] \in {"idle", "climb"}
          BY <1>16, <1>a, <3>1, <4>1 DEF UnlockOne, LoopBound
        <5> QED
          BY <5>1 DEF HeldSegments
      <4>2. CASE seg_id[t] # left_segment[t]
        <5>1. pc'[t] = "uncount" /\ seg_id'[t] = seg_id[t] - 1
          BY <1>16, <1>a, <4>2 DEF UnlockOne, LocksTypeOK
        <5> QED
          BY <3>1, <5>1 DEF HeldSegments
      <4> QED
        BY <4>1, <4>2
    <3> QED
      BY <3>4, <3>5
  <2> QED
    BY <2>1, <2>2, <2>3, HoldsByParts
<1>17. QED
  BY <1>1, <1>2, <1>3, <1>4, <1>5, <1>6, <1>7, <1>8, <1>9, <1>10, <1>11, <1>12, <1>13, <1>14, <1>15, <1>16 DEF LocksStep

-----------------------------------------------------------------------------
\* Type correctness of the lock protocol: in particular the loops of
\* lock_in_batch and unlock_in_batch never index leaf_segments[] out of range.
THEOREM LocksTypeCorrect == LocksSpec => []LocksTypeOK
<1>1. LocksInit => LoopInv
  BY LoopInit
<1>2. LoopInv /\ [LocksNext]_lockVars => LoopInv'
  BY LoopStep
<1>3. LoopInv => LocksTypeOK
  BY DEF LoopInv
<1>4. QED
  BY <1>1, <1>2, <1>3, PTL DEF LocksSpec

\* The invariant of the locks holds throughout.
LEMMA LocksInvariant == LocksSpec => []LocksInv
<1>1. LocksInit => LocksInv
  <2>1. LocksInit => LoopInv
    BY LoopInit
  <2>2. LocksInit => HoldsWhatItUses
    BY DEF LocksInit, HoldsWhatItUses, HeldSegments
  <2> QED
    BY <2>1, <2>2 DEF LoopInv, LocksInv
<1>2. LocksInv /\ [LocksNext]_lockVars => LocksInv'
  BY LoopStep, HoldsStep DEF LoopInv, LocksInv
<1>3. QED
  BY <1>1, <1>2, PTL DEF LocksSpec

\* Every step of insert() owns the mutexes of the segments it works on, and
\* every mutex unlock_in_batch has still to release.
THEOREM HoldsWhatItUsesAlways == LocksSpec => []HoldsWhatItUses
<1>1. LocksInv => HoldsWhatItUses
  BY DEF LocksInv
<1>2. QED
  BY <1>1, LocksInvariant, PTL

\* Insertions, density sums, rebalances and resizes of different threads never
\* work on one segment at the same time, for any densities they have read and
\* even though increments of on_rebalance can be lost: the mutexes alone
\* suffice.
THEOREM DataExclusiveAlways == LocksSpec => []DataExclusive
<1>1. LocksInv => DataExclusive
  <2> SUFFICES ASSUME LocksInv, NEW t \in Threads, NEW u \in Threads, t # u,
                      NEW s, s \in DataSegments(t), s \in DataSegments(u)
               PROVE  FALSE
    BY DEF DataExclusive
  <2>1. s \in HeldSegments(t) /\ s \in HeldSegments(u)
    BY DEF DataSegments, HeldSegments
  <2>2. lock[s] = t /\ lock[s] = u
    BY <2>1 DEF LocksInv, HoldsWhatItUses
  <2> QED
    BY <2>2
<1>2. QED
  BY <1>1, LocksInvariant, PTL

\* A leaf is released by the thread that holds it.
LEMMA OwnerReleasesStep ==
  ASSUME LocksInv, NEW t \in Threads, LocksStep(t), NEW s \in Segments,
         lock[s] \in Threads, lock'[s] # lock[s]
  PROVE  lock[s] = t /\ lock'[s] = NoThread /\ pc'[t] # pc[t]
<1>a. LocksTypeOK /\ LoopBound(t)
  BY DEF LocksInv, LoopBounds
<1>b. \A r \in HeldSegments(t) : lock[r] = t
  BY DEF LocksInv, HoldsWhatItUses
<1>c. lock[s] # NoThread
  BY LocksAssumption
<1> USE DEF shared, search, locals, Goto
<1>1. CASE \/ \E x \in Segments : Call(t, x)
            \/ WaitForRebalance(t)
            \/ SpuriousWakeup(t)
            \/ ReadCounter(t)
            \/ Climb(t)
            \/ CountIn(t)
            \/ \E fits \in BOOLEAN : Decide(t, fits)
            \/ Rebalance(t)
            \/ \E dense \in BOOLEAN : NoSpace(t, dense)
            \/ Resize(t)
            \/ CountOut(t)
  BY <1>1 DEF Call, WaitForRebalance, SpuriousWakeup, ReadCounter, Climb, CountIn, Decide, Rebalance, NoSpace, Resize, CountOut, StartUnlock
<1>2. CASE EnterLeaf(t)
  BY <1>2, <1>a, <1>c DEF EnterLeaf, LocksTypeOK
<1>3. CASE LockOne(t)
  BY <1>3, <1>a, <1>c DEF LockOne, LocksTypeOK
<1>4. CASE \E dense \in BOOLEAN : DoInsertion(t, dense)
  BY <1>4, <1>a, <1>b DEF DoInsertion, HeldSegments, LocksTypeOK
<1>5. CASE WriteCounter(t)
  BY <1>5, <1>a, <1>b DEF WriteCounter, HeldSegments, LocksTypeOK
<1>6. CASE UnlockOne(t)
  <2>1. pc[t] = "unlock" /\ lock' = [lock EXCEPT ![seg_id[t]] = NoThread]
    BY <1>6 DEF UnlockOne
  <2>2. left_segment[t] <= seg_id[t] /\ seg_id[t] \in Int /\ left_segment[t] \in Int
    BY <1>a, <2>1 DEF LoopBound, LocksTypeOK, Segments
  <2>3. lock[seg_id[t]] = t
    BY <1>b, <2>1, <2>2 DEF HeldSegments
  <2>4. s = seg_id[t] /\ lock'[s] = NoThread
    BY <1>a, <2>1 DEF LocksTypeOK
  <2>5. pc'[t] \in {"uncount", "idle", "climb"}
    BY <1>6, <1>a, <2>1 DEF UnlockOne, LoopBound, LocksTypeOK
  <2> QED
    BY <2>1, <2>3, <2>4, <2>5
<1>7. QED
  BY <1>1, <1>2, <1>3, <1>4, <1>5, <1>6 DEF LocksStep

\* insert() and unlock_in_batch release only mutexes their own thread owns, as
\* std::mutex demands.
THEOREM OwnerReleasesAlways == LocksSpec => OwnerReleases
<1>1. LocksInv /\ [LocksNext]_lockVars =>
        [\A s \in Segments :
           lock[s] \in Threads /\ lock'[s] # lock[s] =>
             lock'[s] = NoThread /\ pc'[lock[s]] # pc[lock[s]]]_lockVars
  <2> SUFFICES ASSUME LocksInv, NEW t \in Threads, LocksStep(t), NEW s \in Segments,
                      lock[s] \in Threads, lock'[s] # lock[s]
               PROVE  lock'[s] = NoThread /\ pc'[lock[s]] # pc[lock[s]]
    BY DEF LocksNext
  <2>1. lock[s] = t /\ lock'[s] = NoThread /\ pc'[t] # pc[t]
    BY OwnerReleasesStep
  <2> QED
    BY <2>1
<1>2. QED
  BY <1>1, LocksInvariant, PTL DEF LocksSpec, OwnerReleases

-----------------------------------------------------------------------------
(***************************************************************************)
(* 2. Insertion follows the protocol.                                       *)
(***************************************************************************)
\* A source vertex is in a segment.
LEMMA SegmentInRange == ASSUME NEW v \in Vertices PROVE SegmentOf(v) \in Segments
BY LeafOfVertex, DgapAssumption DEF Leaves, Segments

\* Each step of an insertion is a step of the locks, or touches none.
LEMMA StepImplements == [Next]_vars => [LocksNext]_lockVars
<1> SUFFICES ASSUME Next PROVE LocksNext \/ UNCHANGED lockVars
  BY DEF vars
<1>1. CASE Terminated
  BY <1>1 DEF Terminated, vars
<1>2. ASSUME NEW t \in Threads, NEW src \in Sources[t], NEW dst \in Dsts, InsertCall(t, src, dst)
      PROVE  LocksStep(t)
  <2>1. src \in Vertices
    BY DgapAssumption
  <2>2. SegmentOf(src) \in Segments
    BY <2>1, SegmentInRange
  <2> QED
    BY <1>2, <2>2 DEF InsertCall, LocksStep
<1>3. ASSUME NEW t \in Threads, Proceed(t)
      PROVE  LocksStep(t)
  <2>1. CASE InsertEdge(t)
    <3> DEFINE dense == LeafIsFull(do_insertion(graph, arg[t].src, arg[t].dst), current_segment[t])
    <3>1. dense \in BOOLEAN
      BY DEF LeafIsFull
    <3>2. DoInsertion(t, dense)
      BY <2>1 DEF InsertEdge
    <3> HIDE DEF dense
    <3> QED
      BY <3>1, <3>2 DEF LocksStep
  <2>2. CASE TestWindow(t)
    <3>1. PICK fits \in BOOLEAN : Decide(t, fits)
      BY <2>2 DEF TestWindow, BelowThreshold
    <3> QED
      BY <3>1 DEF LocksStep
  <2>3. CASE TestLeafAgain(t)
    <3>1. LeafIsFull(graph, current_segment[t]) \in BOOLEAN
      BY DEF LeafIsFull
    <3>2. PICK dense \in BOOLEAN : NoSpace(t, dense)
      BY <2>3, <3>1 DEF TestLeafAgain
    <3> QED
      BY <3>2 DEF LocksStep
  <2>4. CASE RebalanceWindow(t)
    BY <2>4 DEF RebalanceWindow, LocksStep
  <2>5. CASE ResizeGraph(t)
    BY <2>5 DEF ResizeGraph, LocksStep
  <2>6. CASE LockStep(t)
    BY <2>6 DEF LockStep, LocksStep
  <2> QED
    BY <1>3, <2>1, <2>2, <2>3, <2>4, <2>5, <2>6 DEF Proceed
<1>4. ASSUME NEW t \in Threads, Spurious(t)
      PROVE  LocksStep(t)
  BY <1>4 DEF Spurious, LocksStep
<1>5. QED
  BY <1>1, <1>2, <1>3, <1>4 DEF Next, LocksNext

\* Edge insertion with its data follows the lock protocol: each of its steps is
\* a step of SegmentLocks or leaves the protocol's variables alone.
THEOREM DgapImplementsLocks == Spec => LocksSpec
<1>1. Init => LocksInit
  BY DEF Init
<1>2. [Next]_vars => [LocksNext]_lockVars
  BY StepImplements
<1>3. QED
  BY <1>1, <1>2, PTL DEF Spec, LocksSpec

\* No two threads of DGAP's parallel insertion ever work on the edges, log or
\* counts of one segment at the same time.
THEOREM DgapDataExclusive == Spec => []DataExclusive
BY DgapImplementsLocks, DataExclusiveAlways, PTL

-----------------------------------------------------------------------------
(***************************************************************************)
(* 3. The counts.                                                           *)
(***************************************************************************)

\* What thread t resizes, or is about to, is the whole graph.
ResizesAll(t) ==
  pc[t] = "resize" \/ (pc[t] \in {"batch", "batch_lock"} /\ ret[t] = "resize") =>
    left_segment[t] = 0 /\ right_segment[t] = segment_count

\* A thread's source lies in the segment it entered.
CallsOK ==
  /\ arg = [t \in Threads |-> arg[t]]
  /\ \A t \in Threads :
       /\ arg[t].src \in Vertices
       /\ current_segment[t] = SegmentOf(arg[t].src)
       /\ ResizesAll(t)

\* The threads of the protocol, and what they have been called with.
ThreadsInv == LocksInv /\ CallsOK

\* The mutexes are those of the leaves.
LEMMA SegmentsAreLeaves == Segments = Leaves /\ segment_count = leaf_count
BY DgapAssumption DEF Segments, Leaves

\* Nobody has been called.
LEMMA CallsInit == Init => CallsOK
<1>1. 0 \in Vertices /\ SegmentOf(0) = 0
  <2>1. 0 \in 0 .. leaf_count /\ first(0) = 0 /\ leaf_count # 0
    BY TreeShape, Firsts
  <2>2. first(0) \in Vertices /\ SegmentOf(first(0)) = 0
    BY <2>1, Firsts
  <2> QED
    BY <2>1, <2>2
<1>2. QED
  BY <1>1 DEF Init, LocksInit, CallsOK, ResizesAll

\* Only a call changes the segment and the arguments.
LEMMA ArgumentsStep ==
  ASSUME LocksInv, CallsOK, [Next]_vars
  PROVE  /\ arg' = [t \in Threads |-> arg'[t]]
         /\ \A t \in Threads : arg'[t].src \in Vertices /\ current_segment'[t] = SegmentOf(arg'[t].src)
<1>0. CASE UNCHANGED <<arg, current_segment>>
  BY <1>0 DEF CallsOK
<1>1. CASE UNCHANGED vars
  BY <1>0, <1>1 DEF vars, lockVars, locals, search, dataVars
<1>2. CASE Terminated
  BY <1>0, <1>2 DEF Terminated, vars, lockVars, locals, search, dataVars
<1>3. ASSUME NEW t \in Threads, NEW src \in Sources[t], NEW dst \in Dsts, InsertCall(t, src, dst)
      PROVE  /\ arg' = [u \in Threads |-> arg'[u]]
             /\ \A u \in Threads : arg'[u].src \in Vertices /\ current_segment'[u] = SegmentOf(arg'[u].src)
  <2>1. src \in Vertices
    BY DgapAssumption
  <2>2. arg' = [arg EXCEPT ![t] = [src |-> src, dst |-> dst]]
        /\ current_segment' = [current_segment EXCEPT ![t] = SegmentOf(src)]
    BY <1>3 DEF InsertCall, Call
  <2>3. arg = [u \in Threads |-> arg[u]] /\ current_segment \in [Threads -> Segments]
        /\ \A u \in Threads : arg[u].src \in Vertices /\ current_segment[u] = SegmentOf(arg[u].src)
    BY DEF CallsOK, LocksInv, LocksTypeOK
  <2> QED
    BY <2>1, <2>2, <2>3
<1>4. ASSUME NEW t \in Threads, Proceed(t) \/ Spurious(t)
      PROVE  UNCHANGED <<arg, current_segment>>
  <2>1. CASE InsertEdge(t)
    BY <2>1 DEF InsertEdge, DoInsertion
  <2>2. CASE TestWindow(t)
    BY <2>2 DEF TestWindow, Decide, StartUnlock, dataVars, search
  <2>3. CASE RebalanceWindow(t)
    BY <2>3 DEF RebalanceWindow, Rebalance, search
  <2>4. CASE TestLeafAgain(t)
    BY <2>4 DEF TestLeafAgain, NoSpace, dataVars
  <2>5. CASE ResizeGraph(t)
    BY <2>5 DEF ResizeGraph, Resize, search
  <2>6. CASE LockStep(t)
    BY <2>6 DEF LockStep, EnterLeaf, WaitForRebalance, ReadCounter, WriteCounter, Climb, CountIn,
                LockOne, CountOut, UnlockOne, dataVars, locals, search
  <2>7. CASE Spurious(t)
    BY <2>7 DEF Spurious, SpuriousWakeup, dataVars, locals, search
  <2> QED
    BY <1>4, <2>1, <2>2, <2>3, <2>4, <2>5, <2>6, <2>7 DEF Proceed
<1> QED
  BY <1>0, <1>1, <1>2, <1>3, <1>4 DEF Next

\* Before it resizes, a thread locks every segment.
LEMMA ResizesAllStep ==
  ASSUME LocksInv, \A t \in Threads : ResizesAll(t), [LocksNext]_lockVars
  PROVE  \A t \in Threads : ResizesAll(t)'
<1> SUFFICES ASSUME NEW u \in Threads PROVE ResizesAll(u)'
  OBVIOUS
<1>a. /\ LocksTypeOK /\ ResizesAll(u)
      /\ pc[u] \in {"batch", "batch_lock"} => ret[u] \in {"decide", "resize"}
  BY DEF LocksInv, LoopBounds, LoopBound
<1>0. CASE UNCHANGED <<pc, ret, left_segment, right_segment>>
  BY <1>a, <1>0 DEF ResizesAll
<1>1. CASE UNCHANGED lockVars
  BY <1>0, <1>1 DEF lockVars, locals, search
<1> SUFFICES ASSUME NEW t \in Threads, LocksStep(t) PROVE ResizesAll(u)'
  BY <1>1 DEF LocksNext
<1>b. CASE /\ UNCHANGED <<left_segment, right_segment>> /\ (pc'[u] = pc[u] \/ pc'[u] \notin {"batch", "batch_lock", "resize"})
           /\ pc'[u] = pc[u] => ret'[u] = ret[u]
  BY <1>a, <1>b DEF ResizesAll
<1> USE DEF Goto, search, locals, shared
<1>2. CASE \E s \in Segments : Call(t, s)
  BY <1>a, <1>b, <1>2 DEF Call, LocksTypeOK
<1>3. CASE EnterLeaf(t) \/ WaitForRebalance(t) \/ SpuriousWakeup(t) \/ ReadCounter(t) \/ WriteCounter(t)
  BY <1>a, <1>b, <1>3 DEF EnterLeaf, WaitForRebalance, SpuriousWakeup, ReadCounter, WriteCounter, LocksTypeOK
<1>4. CASE \E dense \in BOOLEAN : DoInsertion(t, dense)
  BY <1>a, <1>b, <1>4 DEF DoInsertion, LocksTypeOK
<1>5. CASE Climb(t)
  <2>1. CASE u = t
    <3>1. pc'[u] = "batch" /\ ret'[u] = "decide"
      BY <1>a, <1>5, <2>1 DEF Climb, LocksTypeOK
    <3> QED
      BY <3>1 DEF ResizesAll
  <2>2. CASE u # t
    BY <1>a, <1>5, <2>2 DEF Climb, LocksTypeOK, ResizesAll
  <2> QED
    BY <2>1, <2>2
<1>6. CASE CountIn(t)
  BY <1>a, <1>6 DEF CountIn, LocksTypeOK, ResizesAll
<1>7. CASE LockOne(t)
  <2>1. /\ UNCHANGED <<left_segment, right_segment, ret>> /\ pc[t] = "batch_lock"
        /\ pc' = [pc EXCEPT ![t] = ret[t]] \/ pc' = [pc EXCEPT ![t] = "batch"]
    BY <1>7 DEF LockOne
  <2>2. CASE u = t
    <3>1. pc'[u] \in {"batch", ret[u]} /\ pc[u] = "batch_lock"
      BY <1>a, <2>1, <2>2 DEF LocksTypeOK
    <3> QED
      BY <1>a, <2>1, <3>1 DEF ResizesAll
  <2>3. CASE u # t
    BY <1>a, <2>1, <2>3 DEF LocksTypeOK, ResizesAll
  <2> QED
    BY <2>2, <2>3
<1>8. CASE \E fits \in BOOLEAN : Decide(t, fits)
  BY <1>a, <1>b, <1>8 DEF Decide, StartUnlock, LocksTypeOK
<1>9. CASE Rebalance(t) \/ Resize(t)
  BY <1>a, <1>b, <1>9 DEF Rebalance, Resize, StartUnlock, LocksTypeOK
<1>10. CASE \E dense \in BOOLEAN : NoSpace(t, dense)
  <2>1. CASE u = t
    <3>1. left_segment'[u] = 0 /\ right_segment'[u] = segment_count
      BY <1>a, <1>10, <2>1 DEF NoSpace, LocksTypeOK
    <3> QED
      BY <3>1 DEF ResizesAll
  <2>2. CASE u # t
    <3>1. pc'[u] = pc[u] /\ ret'[u] = ret[u] /\ left_segment'[u] = left_segment[u] /\ right_segment'[u] = right_segment[u]
      BY <1>a, <1>10, <2>2 DEF NoSpace, LocksTypeOK
    <3> QED
      BY <1>a, <3>1 DEF ResizesAll
  <2> QED
    BY <2>1, <2>2
<1>11. CASE CountOut(t)
  BY <1>a, <1>b, <1>11 DEF CountOut, LocksTypeOK
<1>12. CASE UnlockOne(t)
  <2>1. ret[t] \in {"idle", "climb"} /\ UNCHANGED <<ret, left_segment, right_segment>>
    BY <1>12 DEF LocksInv, LoopBounds, LoopBound, UnlockOne
  <2>2. pc'[u] = pc[u] \/ pc'[u] \in {"idle", "climb", "uncount", "lock"}
    BY <1>12, <2>1 DEF UnlockOne
  <2> QED
    BY <1>b, <2>1, <2>2
<1> QED
  BY <1>2, <1>3, <1>4, <1>5, <1>6, <1>7, <1>8, <1>9, <1>10, <1>11, <1>12 DEF LocksStep

\* The protocol and the arguments in one invariant.
LEMMA ThreadsStep == ThreadsInv /\ [Next]_vars => ThreadsInv'
<1> SUFFICES ASSUME ThreadsInv, [Next]_vars PROVE ThreadsInv'
  OBVIOUS
<1>1. [LocksNext]_lockVars
  BY StepImplements
<1>2. LocksInv'
  BY <1>1, LoopStep, HoldsStep DEF ThreadsInv, LocksInv, LoopInv
<1>3. CallsOK'
  <2>1. \A t \in Threads : ResizesAll(t)'
    BY <1>1, ResizesAllStep DEF ThreadsInv, CallsOK
  <2>2. /\ arg' = [t \in Threads |-> arg'[t]]
        /\ \A t \in Threads : arg'[t].src \in Vertices /\ current_segment'[t] = SegmentOf(arg'[t].src)
    BY ArgumentsStep DEF ThreadsInv
  <2> QED
    BY <2>1, <2>2 DEF CallsOK
<1> QED
  BY <1>2, <1>3 DEF ThreadsInv

\* The graph is of its types and its counts are exact.
GraphInv == Typed(graph) /\ CountsOf(graph)

\* A rebalance of thread t works on a window of leaves.
LEMMA WindowIs ==
  ASSUME ThreadsInv, GraphInv, NEW t \in Threads, pc[t] \in {"decide", "rebalance", "resize"}
  PROVE  /\ left_segment[t] \in Leaves /\ right_segment[t] \in 1 .. leaf_count
         /\ left_segment[t] < right_segment[t]
         /\ UsedSpace(t) \in Nat /\ TotalSpace(t) \in Int
         /\ TotalSpace(t) = FirstIndex(graph, right_segment[t]) - FirstIndex(graph, left_segment[t])
         /\ HeldSegments(t) = left_segment[t] .. right_segment[t] - 1
<1>1. left_segment[t] \in Leaves /\ right_segment[t] \in 1 .. leaf_count
  BY SegmentsAreLeaves DEF ThreadsInv, LocksInv, LocksTypeOK
<1>2. left_segment[t] < right_segment[t]
  BY DEF ThreadsInv, LocksInv, LoopBounds, LoopBound
<1>3. /\ UsedSpace(t) \in Nat /\ TotalSpace(t) \in Int
      /\ TotalSpace(t) = FirstIndex(graph, right_segment[t]) - FirstIndex(graph, left_segment[t])
  <2> DEFINE l == left_segment[t]
             r == right_segment[t]
  <2>0. l \in Leaves /\ r \in 1 .. leaf_count /\ l < r
    BY <1>1, <1>2
  <2> HIDE DEF l, r
  <2>1. /\ SumOver(graph.segment_edges_actual, l .. r - 1) \in Nat
        /\ SumOver(graph.segment_edges_total, l .. r - 1) = FirstIndex(graph, r) - FirstIndex(graph, l)
        /\ FirstIndex(graph, r) \in Int /\ FirstIndex(graph, l) \in Int
    BY <2>0, WindowUse DEF GraphInv
  <2> QED
    BY <2>1 DEF UsedSpace, TotalSpace, Window, l, r
<1>4. HeldSegments(t) = left_segment[t] .. right_segment[t] - 1
  BY DEF HeldSegments
<1> QED
  BY <1>1, <1>2, <1>3, <1>4

\* Thread t executes do_insertion, moves the vertices of its window, or doubles
\* the edge array.
InsertsAt(t) == pc[t] = "insert" /\ graph' = do_insertion(graph, arg[t].src, arg[t].dst)

RebalancesAt(t) ==
  /\ pc[t] = "rebalance" /\ pc'[t] # pc[t] /\ LeafIsFull(graph, current_segment[t])
  /\ graph' = rebalance_weighted(graph, left_segment[t] * segment_size, right_segment[t] * segment_size,
                                 UsedSpace(t), TotalSpace(t))

ResizesAt(t) == pc[t] = "resize" /\ pc'[t] # pc[t] /\ graph' = resize_V1(graph)

\* Of the steps of a thread inside insert() only these change the graph.
LEMMA ThreadSteps ==
  ASSUME ThreadsInv, NEW t \in Threads, Proceed(t) \/ Spurious(t)
  PROVE  \/ InsertEdge(t) /\ InsertsAt(t)
         \/ UNCHANGED graph \/ RebalancesAt(t) \/ ResizesAt(t)
<1>0. pc \in [Threads -> Labels]
  BY DEF ThreadsInv, LocksInv, LocksTypeOK
<1>1. CASE InsertEdge(t)
  BY <1>1 DEF InsertEdge, DoInsertion, InsertsAt
<1>2. CASE RebalanceWindow(t)
  <2>1. pc[t] = "rebalance" /\ pc'[t] = "uncount"
    BY <1>0, <1>2 DEF RebalanceWindow, Rebalance, StartUnlock, Goto
  <2>2. CASE LeafIsFull(graph, current_segment[t])
    BY <1>2, <2>1, <2>2 DEF RebalanceWindow, RebalancesAt
  <2>3. CASE ~LeafIsFull(graph, current_segment[t])
    BY <1>2, <2>3 DEF RebalanceWindow
  <2> QED
    BY <2>2, <2>3
<1>3. CASE ResizeGraph(t)
  <2>1. pc[t] = "resize" /\ pc'[t] = "uncount"
    BY <1>0, <1>3 DEF ResizeGraph, Resize, StartUnlock, Goto
  <2> QED
    BY <1>3, <2>1 DEF ResizeGraph, ResizesAt
<1>4. CASE TestWindow(t) \/ TestLeafAgain(t) \/ LockStep(t) \/ Spurious(t)
  BY <1>4 DEF TestWindow, TestLeafAgain, LockStep, Spurious, dataVars
<1> QED
  BY <1>1, <1>2, <1>3, <1>4 DEF Proceed

\* No other step changes it.
LEMMA GraphSteps ==
  ASSUME ThreadsInv, [Next]_vars
  PROVE  \/ UNCHANGED graph
         \/ \E t \in Threads : InsertsAt(t) \/ RebalancesAt(t) \/ ResizesAt(t)
<1>1. CASE UNCHANGED vars
  BY <1>1 DEF vars, dataVars
<1>2. CASE Terminated
  BY <1>2 DEF Terminated, vars, dataVars
<1>3. ASSUME NEW t \in Threads, NEW src \in Sources[t], NEW dst \in Dsts, InsertCall(t, src, dst)
      PROVE  UNCHANGED graph
  BY <1>3 DEF InsertCall
<1>4. ASSUME NEW t \in Threads, Proceed(t) \/ Spurious(t)
      PROVE  UNCHANGED graph \/ InsertsAt(t) \/ RebalancesAt(t) \/ ResizesAt(t)
  BY <1>4, ThreadSteps
<1> QED
  BY <1>1, <1>2, <1>3, <1>4 DEF Next

\* Insertion, rebalancing and resizing keep the counts exact, whatever the
\* windows are and whatever the other threads are doing.
LEMMA GraphStep == ThreadsInv /\ GraphInv /\ [Next]_vars => GraphInv'
<1> SUFFICES ASSUME ThreadsInv, GraphInv, [Next]_vars PROVE GraphInv'
  OBVIOUS
<1>0. CASE UNCHANGED graph
  BY <1>0 DEF GraphInv
<1>a. Typed(graph) /\ CountsOf(graph)
  BY DEF GraphInv
<1>1. ASSUME NEW t \in Threads, InsertsAt(t) PROVE GraphInv'
  <2>1. arg[t].src \in Vertices
    BY DEF ThreadsInv, CallsOK
  <2> DEFINE src == arg[t].src
             dst == arg[t].dst
             f == Ready(graph, src)
             h == do_insertion(graph, src, dst)
  <2>2. Typed(f) /\ CountsOf(f) /\ Inserted(f, src, dst, h)
    BY <1>a, <2>1, InsertionIs
  <2>3. graph' = h
    BY <1>1 DEF InsertsAt
  <2> HIDE DEF src, dst, f, h
  <2>4. CountsOf(h)
    BY <2>1, <2>2, InsertedCounts DEF src
  <2>5. Typed(h)
    BY <2>2 DEF Inserted
  <2> QED
    BY <2>3, <2>4, <2>5 DEF GraphInv
<1>2. ASSUME NEW t \in Threads, RebalancesAt(t) PROVE GraphInv'
  <2> DEFINE l == left_segment[t]
             r == right_segment[t]
             used == UsedSpace(t)
             total == TotalSpace(t)
             h == rebalance_weighted(graph, l * segment_size, r * segment_size, used, total)
  <2>1. l \in Leaves /\ r \in 1 .. leaf_count /\ l < r /\ used \in Nat /\ total \in Int
    BY <1>2, WindowIs DEF RebalancesAt
  <2>2. graph' = h
    BY <1>2 DEF RebalancesAt
  <2> HIDE DEF l, r, used, total
  <2>3. CountsOf(h)
    BY <1>a, <2>1, RebalanceCounts
  <2>4. Typed(h)
    BY <1>a, <2>1, RebalanceIs DEF Rebalanced
  <2> QED
    BY <2>2, <2>3, <2>4 DEF GraphInv
<1>3. ASSUME NEW t \in Threads, ResizesAt(t) PROVE GraphInv'
  BY <1>a, <1>3, ResizeIs DEF ResizesAt, Resized, GraphInv
<1> QED
  BY <1>0, <1>1, <1>2, <1>3, GraphSteps

\* Both hold in every state.
LEMMA InsertionInvariant == Spec => [](ThreadsInv /\ GraphInv)
<1>1. Init => ThreadsInv /\ GraphInv
  BY LoopInit, CallsInit, BaseIs
     DEF Init, ThreadsInv, GraphInv, LocksInv, LoopInv, LocksInit, HoldsWhatItUses, HeldSegments
<1>2. ThreadsInv /\ GraphInv /\ [Next]_vars => (ThreadsInv /\ GraphInv)'
  BY ThreadsStep, GraphStep
<1> QED
  BY <1>1, <1>2, PTL DEF Spec

\* In every state of every interleaving the counts that do_insertion,
\* rebalance_weighted and resize_V1 keep are what reconstruct_pma_tree would
\* compute from scratch: no update is lost, and none is counted twice.
THEOREM CountsExactAlways == Spec => []CountsExact
<1>1. GraphInv => CountsExact
  BY DEF GraphInv, CountsOf, CountsExact, FirstIndex, Degrees, first
<1> QED
  BY <1>1, InsertionInvariant, PTL

\* An insertion moves no first vertex of a segment, and a rebalance only those
\* inside its window.
LEMMA BoundaryStep ==
  ASSUME ThreadsInv, GraphInv, [Next]_vars, NEW s \in Leaves \ {0},
         graph'.vertices_[s * segment_size].index # graph.vertices_[s * segment_size].index
  PROVE  \E t \in Threads : {s - 1, s} \subseteq HeldSegments(t) /\ pc'[t] # pc[t]
<1>a. Typed(graph) /\ CountsOf(graph)
  BY DEF GraphInv
<1>b. s \in Leaves /\ s \in Nat \ {0} /\ s \in 0 .. leaf_count /\ s < leaf_count /\ leaf_count \in Nat
  BY TreeShape DEF Leaves
<1>c. FirstIndex(graph', s) # FirstIndex(graph, s)
  <2>1. graph'.vertices_[s * segment_size].index = FirstIndex(graph', s)
    BY <1>b, LeafEnd
  <2>2. graph.vertices_[s * segment_size].index = FirstIndex(graph, s)
    BY <1>b, LeafEnd
  <2> QED
    BY <2>1, <2>2
<1>0. ~UNCHANGED graph
  BY <1>c
<1>1. ASSUME NEW t \in Threads, InsertsAt(t) PROVE FALSE
  <2>1. arg[t].src \in Vertices
    BY DEF ThreadsInv, CallsOK
  <2> DEFINE src == arg[t].src
             dst == arg[t].dst
             f == Ready(graph, src)
             h == do_insertion(graph, src, dst)
  <2>2. Typed(f) /\ Inserted(f, src, dst, h) /\ \A r \in 0 .. leaf_count : FirstIndex(f, r) = FirstIndex(graph, r)
    BY <1>a, <2>1, InsertionIs
  <2>3. graph' = h
    BY <1>1 DEF InsertsAt
  <2> HIDE DEF src, dst, f, h
  <2>4. \A r \in 0 .. leaf_count : FirstIndex(h, r) = FirstIndex(f, r)
    BY <2>1, <2>2, InsertedCounts DEF src
  <2> QED
    BY <1>b, <1>c, <2>2, <2>3, <2>4
<1>2. ASSUME NEW t \in Threads, RebalancesAt(t) PROVE {s - 1, s} \subseteq HeldSegments(t)
  <2> DEFINE l == left_segment[t]
             r == right_segment[t]
             used == UsedSpace(t)
             total == TotalSpace(t)
             h == rebalance_weighted(graph, l * segment_size, r * segment_size, used, total)
  <2>1. /\ l \in Leaves /\ r \in 1 .. leaf_count /\ l < r /\ used \in Nat /\ total \in Int
        /\ HeldSegments(t) = l .. r - 1
    BY <1>2, WindowIs DEF RebalancesAt
  <2>2. graph' = h
    BY <1>2 DEF RebalancesAt
  <2> HIDE DEF l, r, used, total
  <2>3. \A q \in 0 .. leaf_count : q <= l \/ r <= q => FirstIndex(h, q) = FirstIndex(graph, q)
    BY <1>a, <2>1, RebalanceCounts
  <2> HIDE DEF h
  <2>4. ~(s <= l \/ r <= s)
    BY <1>b, <1>c, <2>2, <2>3
  <2>5. l \in Int /\ r \in Int
    BY <2>1, TreeShape DEF Leaves
  <2>6. s - 1 \in l .. r - 1 /\ s \in l .. r - 1
    BY <1>b, <2>4, <2>5
  <2> QED
    BY <2>1, <2>6
<1>3. ASSUME NEW t \in Threads, ResizesAt(t) PROVE {s - 1, s} \subseteq HeldSegments(t)
  <2>1. left_segment[t] = 0 /\ right_segment[t] = segment_count
    BY <1>3 DEF ThreadsInv, CallsOK, ResizesAll, ResizesAt
  <2>2. HeldSegments(t) = 0 .. leaf_count - 1
    BY <1>3, <2>1, SegmentsAreLeaves DEF HeldSegments, ResizesAt
  <2>3. s - 1 \in 0 .. leaf_count - 1 /\ s \in 0 .. leaf_count - 1
    BY <1>b
  <2> QED
    BY <2>2, <2>3
<1>4. PICK t \in Threads : InsertsAt(t) \/ RebalancesAt(t) \/ ResizesAt(t)
  BY <1>0, GraphSteps
<1> QED
  BY <1>1, <1>2, <1>3, <1>4 DEF RebalancesAt, ResizesAt

\* The index of a segment's first vertex, which a thread in the segment before
\* reads without the mutex of this one, changes only in steps of threads that
\* own both mutexes.
THEOREM BoundaryFixedAlways == Spec => BoundaryFixed
<1>1. ThreadsInv /\ GraphInv /\ [Next]_vars =>
        [\A s \in Leaves \ {0} :
           graph'.vertices_[s * segment_size].index # graph.vertices_[s * segment_size].index =>
             \E t \in Threads : {s - 1, s} \subseteq HeldSegments(t) /\ pc'[t] # pc[t]]_vars
  BY BoundaryStep
<1> QED
  BY <1>1, InsertionInvariant, PTL DEF Spec, BoundaryFixed

-----------------------------------------------------------------------------
(***************************************************************************)
(* 4. The edges, while the assertions of the code hold.                     *)
(***************************************************************************)
\* Every vertex is whole and in its place.
ContentInv == Sound(graph)

\* An insertion whose assertions hold adds its edge at the end of the list of
\* its source and changes nothing else.
LEMMA InsertContent ==
  ASSUME ThreadsInv, GraphInv, ContentInv, AssertionsHold, NEW t \in Threads, InsertsAt(t)
  PROVE  ContentInv' /\ OneEdgeMore(graph, arg[t].src, arg[t].dst, graph')
<1>1. arg[t].src \in Vertices
  BY DEF ThreadsInv, CallsOK
<1>2. InsertionAsserted(graph, arg[t].src)
  BY DEF AssertionsHold, InsertsAt
<1> QED
  BY <1>1, <1>2, AssertedInsertion DEF GraphInv, ContentInv, InsertsAt

\* A rebalance and a resize move edges only.
LEMMA MoveContent ==
  ASSUME ThreadsInv, GraphInv, ContentInv, AssertionsHold, NEW t \in Threads, RebalancesAt(t) \/ ResizesAt(t)
  PROVE  ContentInv' /\ SameEdges(graph, graph')
<1>a. Typed(graph) /\ CountsOf(graph) /\ Sound(graph)
  BY DEF GraphInv, ContentInv
<1>1. CASE RebalancesAt(t)
  <2> DEFINE l == left_segment[t]
             r == right_segment[t]
             used == UsedSpace(t)
             total == TotalSpace(t)
             h == rebalance_weighted(graph, l * segment_size, r * segment_size, used, total)
  <2>1. l \in Leaves /\ r \in 1 .. leaf_count /\ l < r
    BY <1>1, WindowIs DEF RebalancesAt
  <2>2. graph' = h
    BY <1>1 DEF RebalancesAt
  <2>3. /\ used = SumOver(graph.segment_edges_actual, l .. r - 1)
        /\ total = SumOver(graph.segment_edges_total, l .. r - 1)
    BY DEF UsedSpace, TotalSpace, Window
  <2>4. RebalanceAsserted(graph, l * segment_size, r * segment_size, used, total)
    BY <1>1 DEF AssertionsHold, RebalancesAt
  <2> HIDE DEF l, r, used, total
  <2>5. Sound(h) /\ SameEdges(graph, h)
    BY <1>a, <2>1, <2>3, <2>4, AssertedRebalance
  <2> QED
    BY <2>2, <2>5 DEF ContentInv
<1>2. CASE ResizesAt(t)
  BY <1>a, <1>2, AssertedResize DEF AssertionsHold, ResizesAt, ContentInv
<1> QED
  BY <1>1, <1>2

\* No step leaves a vertex in pieces.
LEMMA ContentStep ==
  ThreadsInv /\ GraphInv /\ ContentInv /\ AssertionsHold /\ [Next]_vars => ContentInv'
<1> SUFFICES ASSUME ThreadsInv, GraphInv, ContentInv, AssertionsHold, [Next]_vars PROVE ContentInv'
  OBVIOUS
<1>1. CASE UNCHANGED graph
  BY <1>1 DEF ContentInv
<1> QED
  BY <1>1, GraphSteps, InsertContent, MoveContent

\* As long as no assertion fails, every vertex is whole.
LEMMA ContentInvariant == Spec /\ []AssertionsHold => [](ThreadsInv /\ GraphInv /\ ContentInv)
<1>1. Init => ContentInv
  BY BaseSound DEF Init, ContentInv
<1> QED
  BY <1>1, ContentStep, InsertionInvariant, PTL DEF Spec

\* As long as no assertion fails, the vertices lie in the edge array in order,
\* each behind its pivot, and what the array holds of one ends before the next
\* one starts, whatever is rebalanced or resized meanwhile.
THEOREM LayoutAlways == Spec /\ []AssertionsHold => []Layout
<1>1. GraphInv /\ ContentInv => Layout
  <2> SUFFICES ASSUME Typed(graph), Sound(graph), NEW v \in Vertices
               PROVE  /\ onseg_edges(graph, v) >= 1
                      /\ graph.vertices_[v].index + onseg_edges(graph, v) <= NextIndex(graph, v)
                      /\ NextIndex(graph, v) <= graph.elem_capacity
                      /\ graph.edges_[graph.vertices_[v].index] = -v
    BY DEF GraphInv, ContentInv, Layout
  <2>1. InPlace(graph, v)
    BY DEF Sound
  <2>2. NextIndex(graph, v) <= graph.elem_capacity
    BY SoundIs
  <2> QED
    BY <2>1, <2>2 DEF InPlace
<1> QED
  BY <1>1, ContentInvariant, PTL

\* As long as no assertion fails, every index is inside the edge array, every
\* degree counts the pivot, and every offset is inside the log.
THEOREM GraphTypeCorrect == Spec /\ []AssertionsHold => []GraphTypeOK
<1>1. ThreadsInv /\ GraphInv /\ ContentInv => GraphTypeOK
  <2> SUFFICES ASSUME ThreadsInv, Typed(graph), Sound(graph) PROVE GraphTypeOK
    BY DEF GraphInv, ContentInv
  <2>1. DOMAIN graph.vertices_ = Vertices /\ DOMAIN arg = Threads
    BY DEF Typed, ThreadsInv, CallsOK
  <2>2. DOMAIN graph.edges_ = 0 .. graph.elem_capacity - 1
    BY DEF Typed, Arrays
  <2>3. \A s \in Leaves : Len(graph.log_[s]) <= MAX_LOG_ENTRIES
    BY DEF Typed, LogsTyped
  <2>4. ASSUME NEW v \in Vertices
        PROVE  /\ graph.vertices_[v].index \in 0 .. graph.elem_capacity - 1
               /\ graph.vertices_[v].degree \in Nat \ {0}
               /\ graph.vertices_[v].offset \in -1 .. MAX_LOG_ENTRIES - 1
    <3>1. graph.vertices_[v].index \in 0 .. graph.elem_capacity - 1 /\ graph.vertices_[v].degree \in Nat \ {0}
      BY SoundIs
    <3> DEFINE n == Len(graph.log_[SegmentOf(v)])
               o == graph.vertices_[v].offset
    <3>2. SegmentOf(v) \in Leaves /\ Linked(graph.log_[SegmentOf(v)])
      BY LeafOfVertex DEF Typed, LogsTyped
    <3>3. n \in Nat /\ n <= MAX_LOG_ENTRIES /\ MAX_LOG_ENTRIES \in Nat
      BY <2>3, <3>2, PmaAssumption DEF Linked, IsSequence
    <3>4. o \in -1 .. n - 1
      BY DEF Typed, LogsTyped
    <3> HIDE DEF n, o
    <3>5. o \in -1 .. MAX_LOG_ENTRIES - 1
      BY <3>3, <3>4
    <3> QED
      BY <3>1, <3>5 DEF o
  <2> QED
    BY <2>1, <2>2, <2>3, <2>4 DEF GraphTypeOK
<1> QED
  BY <1>1, ContentInvariant, PTL

\* The logs hold the chains of their vertices and nothing else.
LogsInv == LogsCounted(graph)

\* No step leaves an entry in a log that is in no chain, whether assertions hold
\* or not.
LEMMA LogsStep == ThreadsInv /\ GraphInv /\ LogsInv /\ [Next]_vars => LogsInv'
<1> SUFFICES ASSUME ThreadsInv, GraphInv, LogsInv, [Next]_vars PROVE LogsInv'
  OBVIOUS
<1>a. Typed(graph) /\ CountsOf(graph) /\ LogsCounted(graph)
  BY DEF GraphInv, LogsInv
<1>0. CASE UNCHANGED graph
  BY <1>0 DEF LogsInv
<1>1. ASSUME NEW t \in Threads, InsertsAt(t) PROVE LogsInv'
  <2>1. arg[t].src \in Vertices
    BY DEF ThreadsInv, CallsOK
  <2> QED
    BY <1>a, <1>1, <2>1, InsertionLogs DEF InsertsAt, LogsInv
<1>2. ASSUME NEW t \in Threads, RebalancesAt(t) PROVE LogsInv'
  <2> DEFINE l == left_segment[t]
             r == right_segment[t]
             used == UsedSpace(t)
             total == TotalSpace(t)
  <2>1. l \in Leaves /\ r \in 1 .. leaf_count /\ l < r /\ used \in Nat /\ total \in Int
    BY <1>2, WindowIs DEF RebalancesAt
  <2>2. graph' = rebalance_weighted(graph, l * segment_size, r * segment_size, used, total)
    BY <1>2 DEF RebalancesAt
  <2> HIDE DEF l, r, used, total
  <2> QED
    BY <1>a, <2>1, <2>2, RebalancedLogs DEF LogsInv
<1>3. ASSUME NEW t \in Threads, ResizesAt(t) PROVE LogsInv'
  <2> DEFINE h == resize_V1(graph)
  <2>1. Resized(graph, ResizePositions(graph), h)
    BY <1>a, ResizeIs
  <2>2. graph' = h
    BY <1>3 DEF ResizesAt
  <2> HIDE DEF h
  <2>3. Typed(h) /\ \A s \in Leaves : h.log_[s] = <<>>
    BY <2>1 DEF Resized
  <2> QED
    BY <2>2, <2>3, EmptyCounted DEF LogsInv, LogsCounted, Typed
<1> QED
  BY <1>0, <1>1, <1>2, <1>3, GraphSteps

\* As long as no assertion fails, the log holds exactly the edges of a vertex
\* that its cells do not, linked in one chain, and no entry outside the chains.
THEOREM LogExactAlways == Spec /\ []AssertionsHold => []LogExact
<1>1. Init => LogsInv
  BY BaseIs, EmptyCounted DEF Init, LogsInv, LogsCounted, Typed
<1>2. GraphInv /\ ContentInv /\ LogsInv => LogExact
  <2> SUFFICES ASSUME Sound(graph), LogsCounted(graph) PROVE LogExact
    BY DEF ContentInv, LogsInv
  <2>1. \A v \in Vertices : Len(log_chain(graph, v)) = graph.vertices_[v].degree - onseg_edges(graph, v)
    BY DEF Sound, InPlace
  <2> QED
    BY <2>1 DEF LogsCounted, LeafLogCounted, EntriesOf, LogExact
<1> QED
  BY <1>1, <1>2, LogsStep, ContentInvariant, PTL DEF Spec

-----------------------------------------------------------------------------
(***************************************************************************)
(* 5. Insertion is the insertion of GraphStore.                             *)
(***************************************************************************)
\* The edges of v in graph g, oldest first.
EdgeList(g, v) == [j \in 1 .. g.vertices_[v].degree - 1 |-> EdgeAt(g, v, j)]

\* A list whose part after the first c elements is turned round.
TurnedAfter(w, c) == SubSeq(w, 1, c) \o Reverse(SubSeq(w, c + 1, Len(w)))

\* Turning the log part of the iteration round gives the list from its oldest
\* edge on.
LEMMA TurnedIs ==
  ASSUME NEW T, NEW d \in Seq(T), NEW e \in Seq(T), NEW c \in Nat, c = Len(d), NEW n \in Nat, n = Len(e)
  PROVE  TurnedAfter(d \o e, c) = [j \in 1 .. c + n |-> IF j <= c THEN d[j] ELSE e[c + n + 1 - j]]
<1> DEFINE w == d \o e
           x == SubSeq(w, 1, c)
           y == SubSeq(w, c + 1, Len(w))
           z == Reverse(y)
<1>1. /\ w \in Seq(T) /\ Len(w) = c + n
      /\ \A j \in 1 .. c : w[j] = d[j]
      /\ \A j \in 1 .. n : w[c + j] = e[j]
  <2>1. /\ w \in Seq(T) /\ Len(w) = c + n
        /\ \A i \in 1 .. c + n : w[i] = IF i <= c THEN d[i] ELSE e[i - c]
    BY ConcatProperties
  <2>2. ASSUME NEW j \in 1 .. c PROVE w[j] = d[j]
    BY <2>1
  <2>3. ASSUME NEW j \in 1 .. n PROVE w[c + j] = e[j]
    <3>1. c + j \in 1 .. c + n /\ ~(c + j <= c) /\ (c + j) - c = j
      OBVIOUS
    <3> HIDE DEF w
    <3> QED
      BY <2>1, <3>1
  <2> QED
    BY <2>1, <2>2, <2>3
<1> HIDE DEF w
<1>2. x \in Seq(T) /\ Len(x) = c /\ \A j \in 1 .. c : x[j] = d[j]
  <2>1. 1 \in Int /\ c \in Int /\ \A i \in 1 .. c : w[i] \in T
    BY <1>1
  <2>2. /\ x \in Seq(T) /\ Len(x) = IF 1 <= c THEN c - 1 + 1 ELSE 0
        /\ \A i \in 1 .. c - 1 + 1 : x[i] = w[1 + i - 1]
    BY <2>1, SubSeqProperties
  <2> HIDE DEF x
  <2>3. \A j \in 1 .. c : j \in 1 .. c - 1 + 1 /\ 1 + j - 1 = j
    OBVIOUS
  <2>4. \A j \in 1 .. c : x[j] = w[j]
    BY <2>2, <2>3
  <2>5. Len(x) = c
    BY <2>2
  <2> QED
    BY <1>1, <2>2, <2>4, <2>5
<1>3. y \in Seq(T) /\ Len(y) = n /\ \A j \in 1 .. n : y[j] = e[j]
  <2>1. c + 1 \in Int /\ c + n \in Int /\ \A i \in c + 1 .. c + n : w[i] \in T
    BY <1>1
  <2>2. /\ y \in Seq(T) /\ Len(y) = IF c + 1 <= c + n THEN c + n - (c + 1) + 1 ELSE 0
        /\ \A i \in 1 .. c + n - (c + 1) + 1 : y[i] = w[c + 1 + i - 1]
    BY <1>1, <2>1, SubSeqProperties
  <2> HIDE DEF y
  <2>3. \A j \in 1 .. n : j \in 1 .. c + n - (c + 1) + 1 /\ c + 1 + j - 1 = c + j
    OBVIOUS
  <2>4. \A j \in 1 .. n : y[j] = w[c + j]
    BY <2>2, <2>3
  <2>5. Len(y) = n
    BY <2>2
  <2> QED
    BY <1>1, <2>2, <2>4, <2>5
<1> HIDE DEF x, y
<1>4. z = [i \in 1 .. n |-> e[n - i + 1]]
  <2>1. z = [i \in 1 .. n |-> y[(n - i) + 1]]
    BY <1>3 DEF Reverse
  <2>2. \A i \in 1 .. n : n - i + 1 \in 1 .. n
    OBVIOUS
  <2> QED
    BY <1>3, <2>1, <2>2
<1>5. z \in Seq(T) /\ Len(z) = n
  <2>1. \A i \in 1 .. n : e[n - i + 1] \in T
    <3> SUFFICES ASSUME NEW i \in 1 .. n PROVE e[n - i + 1] \in T
      OBVIOUS
    <3>1. n - i + 1 \in 1 .. Len(e)
      OBVIOUS
    <3> QED
      BY <3>1, ElementOfSeq
  <2>2. z \in [1 .. n -> T]
    BY <1>4, <2>1
  <2> HIDE DEF z
  <2> QED
    BY <2>2
<1> HIDE DEF z
<1>6. /\ Len(x \o z) = c + n /\ x \o z \in Seq(T)
      /\ \A j \in 1 .. c + n : (x \o z)[j] = IF j <= c THEN x[j] ELSE z[j - c]
  <2>1. /\ x \o z \in Seq(T) /\ Len(x \o z) = Len(x) + Len(z)
        /\ \A j \in 1 .. Len(x) + Len(z) : (x \o z)[j] = IF j <= Len(x) THEN x[j] ELSE z[j - Len(x)]
    BY <1>2, <1>5, ConcatProperties
  <2> QED
    BY <1>2, <1>5, <2>1
<1>7. TurnedAfter(w, c) = x \o z
  BY DEF TurnedAfter, x, y, z
<1> DEFINE u == x \o z
           r == [j \in 1 .. c + n |-> IF j <= c THEN d[j] ELSE e[c + n + 1 - j]]
<1>8. u = [j \in 1 .. c + n |-> u[j]]
  BY <1>6, LenProperties
<1>9. ASSUME NEW j \in 1 .. c + n PROVE u[j] = IF j <= c THEN d[j] ELSE e[c + n + 1 - j]
  <2>1. u[j] = IF j <= c THEN x[j] ELSE z[j - c]
    BY <1>6
  <2> HIDE DEF u
  <2>2. j <= c => j \in 1 .. c
    OBVIOUS
  <2>3. ~(j <= c) => j - c \in 1 .. n /\ n - (j - c) + 1 = c + n + 1 - j
    OBVIOUS
  <2>4. \A k, m \in Int : k \in 1 .. n /\ n - k + 1 = m => z[k] = e[m]
    BY <1>4
  <2>5. j - c \in Int /\ c + n + 1 - j \in Int
    OBVIOUS
  <2> QED
    BY <1>2, <2>1, <2>2, <2>3, <2>4, <2>5
<1> HIDE DEF u
<1>10. u = r
  BY <1>8, <1>9
<1> QED
  BY <1>7, <1>10 DEF w, u

\* What Adjacency reads in graph g.
AdjacencyIn(g, v) == TurnedAfter(out_neigh(g, v), onseg_edges(g, v) - 1)

\* Where every vertex is whole, a reader of out_neigh finds the edges of v in the
\* order of their insertion.
LEMMA AdjacencyIs ==
  ASSUME NEW g, Typed(g), Sound(g), NEW v \in Vertices
  PROVE  AdjacencyIn(g, v) = EdgeList(g, v)
<1> DEFINE on == onseg_edges(g, v)
           deg == g.vertices_[v].degree
           c == on - 1
           d == onseg_dsts(g, v)
           chain == log_chain(g, v)
           n == Len(chain)
           T == CellValues(g)
<1>1. deg \in Nat \ {0} /\ on \in Nat \ {0} /\ on <= deg
  BY SoundIs
<1>2. n = deg - on
  BY DEF Sound, InPlace
<1>3. chain \in Seq(T)
  <2>1. chain \in Seq(LogValues(g.log_[SegmentOf(v)])) /\ LogValues(g.log_[SegmentOf(v)]) \subseteq T
    BY ChainOfVertex, ContentsHold DEF Typed
  <2> DEFINE L == LogValues(g.log_[SegmentOf(v)])
  <2> HIDE DEF chain, L, T
  <2>2. chain \in Seq(L) /\ L \subseteq T
    BY <2>1 DEF L
  <2> QED
    BY <2>2
<1>4. d = [i \in 1 .. c |-> g.edges_[g.vertices_[v].index + i]]
  BY DEF onseg_dsts
<1>5. \A i \in 1 .. c : g.edges_[g.vertices_[v].index + i] \in T
  <2>1. /\ g.vertices_[v].index \in 0 .. g.elem_capacity - 1
        /\ g.vertices_[v].index + on <= g.elem_capacity
        /\ g.elem_capacity \in Nat
    <3>1. /\ g.vertices_[v].index \in 0 .. g.elem_capacity - 1
          /\ g.vertices_[v].index + on <= NextIndex(g, v)
          /\ NextIndex(g, v) \in Int /\ NextIndex(g, v) <= g.elem_capacity
      BY SoundIs
    <3>2. g.elem_capacity \in Nat
      BY DEF Typed
    <3> HIDE DEF on
    <3> QED
      BY <1>1, <3>1, <3>2
  <2>2. g.edges_ \in [0 .. g.elem_capacity - 1 -> T]
    BY ContentsHold DEF Arrays
  <2> HIDE DEF on, T
  <2>3. \A i \in 1 .. c : g.vertices_[v].index + i \in 0 .. g.elem_capacity - 1
    BY <1>1, <2>1
  <2> QED
    BY <2>2, <2>3
<1> HIDE DEF on, T
<1>6. c \in Nat /\ d \in Seq(T) /\ Len(d) = c
  <2>1. c \in Nat
    BY <1>1
  <2> HIDE DEF c
  <2>2. d \in [1 .. c -> T]
    BY <1>4, <1>5
  <2> HIDE DEF d
  <2> QED
    BY <2>1, <2>2
<1>7. out_neigh(g, v) = d \o chain
  <2>1. CASE deg <= 1
    <3>1. c = 0 /\ n = 0
      BY <1>1, <1>2, <2>1
    <3> HIDE DEF c, d, chain, n
    <3>2. d = <<>> /\ chain = <<>>
      BY <1>3, <1>6, <3>1 DEF n
    <3>3. out_neigh(g, v) = <<>>
      BY <2>1 DEF out_neigh
    <3> QED
      BY <3>2, <3>3
  <2>2. CASE deg > on
    <3>1. ~(deg <= 1)
      BY <1>1, <2>2
    <3> QED
      BY <2>2, <3>1 DEF out_neigh, on
  <2>3. CASE ~(deg <= 1) /\ ~(deg > on)
    <3>1. n = 0
      BY <1>1, <1>2, <2>3
    <3>2. chain = <<>>
      <4> HIDE DEF chain
      <4> QED
        BY <1>3, <3>1
    <3> QED
      BY <2>3, <3>2 DEF out_neigh, on
  <2> QED
    BY <2>1, <2>2, <2>3
<1>8. TurnedAfter(d \o chain, c) = [j \in 1 .. c + n |-> IF j <= c THEN d[j] ELSE chain[c + n + 1 - j]]
  <2> HIDE DEF c, d, chain
  <2>1. n \in Nat
    BY <1>3
  <2> HIDE DEF n
  <2> QED
    BY <1>3, <1>6, <2>1, TurnedIs DEF n
<1>9. c + n = deg - 1
  BY <1>1, <1>2
<1>10. ASSUME NEW j \in 1 .. deg - 1
       PROVE  (IF j <= c THEN d[j] ELSE chain[c + n + 1 - j]) = EdgeAt(g, v, j)
  <2>1. j <= c <=> j < on
    BY <1>1
  <2>2. c + n + 1 - j = deg - j
    BY <1>9, <1>1
  <2>3. j <= c => d[j] = g.edges_[g.vertices_[v].index + j]
    BY <1>1, <1>4
  <2> QED
    BY <2>1, <2>2, <2>3 DEF EdgeAt, on
<1>11. AdjacencyIn(g, v) = TurnedAfter(d \o chain, c)
  BY <1>7 DEF AdjacencyIn, on
<1> HIDE DEF d, chain, n, c
<1>12. TurnedAfter(d \o chain, c) = [j \in 1 .. deg - 1 |-> EdgeAt(g, v, j)]
  BY <1>8, <1>9, <1>10
<1> QED
  BY <1>11, <1>12 DEF EdgeList

\* Moving edges leaves the lists as they are.
LEMMA SameLists ==
  ASSUME NEW g, NEW h, SameEdges(g, h), NEW v \in Vertices, g.vertices_[v].degree \in Nat
  PROVE  EdgeList(h, v) = EdgeList(g, v)
<1>1. \A j \in 1 .. g.vertices_[v].degree - 1 : j \in 0 .. g.vertices_[v].degree - 1
  OBVIOUS
<1> QED
  BY <1>1 DEF SameEdges, EdgeList

\* One edge more is one element more at the end of the list of its source.
LEMMA OneMoreInList ==
  ASSUME NEW g, NEW src \in Vertices, NEW dst, NEW h, OneEdgeMore(g, src, dst, h),
         \A v \in Vertices : g.vertices_[v].degree \in Nat \ {0}
  PROVE  /\ EdgeList(h, src) = Append(EdgeList(g, src), dst)
         /\ \A v \in Vertices \ {src} : EdgeList(h, v) = EdgeList(g, v)
<1>1. ASSUME NEW v \in Vertices, v # src PROVE EdgeList(h, v) = EdgeList(g, v)
  <2>1. /\ h.vertices_[v].degree = g.vertices_[v].degree
        /\ \A j \in 0 .. g.vertices_[v].degree - 1 : EdgeAt(h, v, j) = EdgeAt(g, v, j)
    BY <1>1 DEF OneEdgeMore
  <2>2. \A j \in 1 .. g.vertices_[v].degree - 1 : j \in 0 .. g.vertices_[v].degree - 1
    OBVIOUS
  <2> QED
    BY <2>1, <2>2 DEF EdgeList
<1>2. EdgeList(h, src) = Append(EdgeList(g, src), dst)
  <2> DEFINE n == g.vertices_[src].degree
             a == EdgeList(g, src)
             b == EdgeList(h, src)
  <2>1. /\ n \in Nat \ {0} /\ h.vertices_[src].degree = n + 1
        /\ \A j \in 0 .. n - 1 : EdgeAt(h, src, j) = EdgeAt(g, src, j)
        /\ EdgeAt(h, src, n) = dst
    BY DEF OneEdgeMore
  <2>2. a = [j \in 1 .. n - 1 |-> EdgeAt(g, src, j)] /\ b = [j \in 1 .. n |-> EdgeAt(h, src, j)]
    <3>1. (n + 1) - 1 = n
      BY <2>1
    <3> QED
      BY <2>1, <3>1 DEF EdgeList
  <2> HIDE DEF n, a, b
  <2>3. \A j \in 1 .. n - 1 : EdgeAt(h, src, j) = EdgeAt(g, src, j)
    BY <2>1
  <2>4. Append(a, dst) = [j \in 1 .. n |-> IF j = n THEN dst ELSE a[j]]
    <3> DEFINE T == {EdgeAt(g, src, j) : j \in 1 .. n - 1} \cup {dst}
    <3>1. a \in Seq(T) /\ Len(a) = n - 1
      BY <2>1, <2>2
    <3> HIDE DEF T
    <3>2. /\ Len(Append(a, dst)) = n /\ DOMAIN Append(a, dst) = 1 .. n
          /\ \A j \in 1 .. n : Append(a, dst)[j] = IF j = n THEN dst ELSE a[j]
      BY <2>1, <3>1
    <3>3. Append(a, dst) = [j \in 1 .. n |-> Append(a, dst)[j]]
      <4>1. dst \in T
        BY DEF T
      <4>2. Append(a, dst) \in Seq(T)
        BY <3>1, <4>1
      <4>3. Append(a, dst) \in [1 .. n -> T]
        BY <3>2, <4>2, LenProperties
      <4> QED
        BY <4>3
    <3> QED
      BY <3>2, <3>3
  <2>5. ASSUME NEW j \in 1 .. n PROVE EdgeAt(h, src, j) = IF j = n THEN dst ELSE a[j]
    <3>1. j # n => j \in 1 .. n - 1
      BY <2>1
    <3> QED
      BY <2>1, <2>2, <2>3, <3>1
  <2>6. b = Append(a, dst)
    BY <2>2, <2>4, <2>5
  <2> QED
    BY <2>6 DEF a, b
<1> QED
  BY <1>1, <1>2

\* The lists of the base graph are those of the edge list.
LEMMA BaseLists ==
  ASSUME NEW v \in Vertices
  PROVE  EdgeList(BaseGraph, v) = BaseAdjacency(v)
<1> DEFINE before == Cardinality({i \in DOMAIN edge_list : edge_list[i].u < v})
           deg == PackedDegree(v)
           mine == Cardinality({i \in DOMAIN edge_list : edge_list[i].u = v})
<1>0. /\ Packed.vertices_[v].index = PackedIndex(v) /\ Packed.vertices_[v].degree = deg
      /\ Packed.vertices_[v].offset = -1 /\ PackedIndex(v) \in Nat /\ deg \in Nat \ {0}
      /\ PackedIndex(v + 1) \in Nat /\ PackedIndex(v + 1) = PackedIndex(v) + deg
      /\ PackedIndex(v + 1) <= initial_capacity
  BY PackedInOrder
<1>1. EdgeList(BaseGraph, v) = EdgeList(Packed, v)
  BY <1>0, BaseSound, SameLists
<1>2. v \in Nat /\ before \in Nat /\ mine \in Nat
  <2>1. v \in Nat
    BY TreeShape DEF Vertices
  <2> QED
    BY <2>1, EdgeCounts
<1>3. deg = 1 + mine /\ PackedIndex(v) = v + before
  BY DEF PackedDegree, PackedIndex
<1>4. BaseAdjacency(v) = [i \in 1 .. mine |-> edge_list[before + i].v]
  BY DEF BaseAdjacency
<1>5. ASSUME NEW j \in 1 .. deg - 1 PROVE EdgeAt(Packed, v, j) = edge_list[before + j].v
  <2>1. onseg_edges(Packed, v) = deg
    BY <1>0 DEF onseg_edges
  <2>2. j \in 0 .. deg - 1 /\ j < deg /\ j # 0
    BY <1>0
  <2>3. PackedCell(PackedIndex(v) + j) = edge_list[(PackedIndex(v) + j) - v].v
    BY <2>2, PackedCellIs
  <2>4. PackedIndex(v) + j \in 0 .. initial_capacity - 1
    BY <1>0, <2>2, TreeShape
  <2>5. Packed.edges_[PackedIndex(v) + j] = PackedCell(PackedIndex(v) + j)
    BY <2>4 DEF Packed
  <2>6. (PackedIndex(v) + j) - v = before + j
    <3> HIDE DEF before, deg, mine
    <3> QED
      BY <1>2, <1>3, <2>2
  <2> QED
    BY <1>0, <2>1, <2>2, <2>3, <2>5, <2>6 DEF EdgeAt
<1>6. deg - 1 = mine
  BY <1>2, <1>3
<1>7. EdgeList(Packed, v) = [j \in 1 .. deg - 1 |-> EdgeAt(Packed, v, j)]
  BY <1>0 DEF EdgeList
<1> HIDE DEF before, deg, mine
<1> QED
  BY <1>1, <1>4, <1>5, <1>6, <1>7

\* How far a call has come: outside, before and after do_insertion.
Phase(p) == IF p = "idle" THEN "out" ELSE IF p \in {"lock", "wait", "insert"} THEN "before" ELSE "after"

\* No other thread takes a call further, and every step but do_insertion leaves
\* its own call where it is or ends it after do_insertion.
PhaseKept(t) ==
  /\ arg' = arg
  /\ \A u \in Threads : u # t => Phase(pc'[u]) = Phase(pc[u])
  /\ \/ Phase(pc'[t]) = Phase(pc[t])
     \/ Phase(pc[t]) = "after" /\ pc'[t] = "idle"

\* So it is for all the steps between do_insertion and the return.
LEMMA PhaseStep ==
  ASSUME ThreadsInv, NEW t \in Threads, Proceed(t) \/ Spurious(t), ~InsertEdge(t)
  PROVE  PhaseKept(t)
<1>a. LocksTypeOK /\ (pc[t] \in {"batch", "batch_lock"} => ret[t] \in {"decide", "resize"})
      /\ (pc[t] \in {"uncount", "unlock"} => ret[t] \in {"idle", "climb"})
  BY DEF ThreadsInv, LocksInv, LoopBounds, LoopBound
<1>b. pc \in [Threads -> Labels]
  BY <1>a DEF LocksTypeOK
<1>c. ASSUME arg' = arg, NEW p, pc' = [pc EXCEPT ![t] = p], Phase(p) = Phase(pc[t]) \/ (Phase(pc[t]) = "after" /\ p = "idle")
      PROVE  PhaseKept(t)
  BY <1>b, <1>c DEF PhaseKept
<1> USE DEF Goto
<1>1. CASE EnterLeaf(t) /\ UNCHANGED dataVars
  BY <1>1, <1>c DEF EnterLeaf, dataVars, Phase
<1>2. CASE WaitForRebalance(t) /\ UNCHANGED dataVars
  BY <1>2, <1>c DEF WaitForRebalance, dataVars, Phase
<1>3. CASE SpuriousWakeup(t) /\ UNCHANGED dataVars
  BY <1>3, <1>c DEF SpuriousWakeup, dataVars, Phase
<1>4. CASE ReadCounter(t) /\ UNCHANGED dataVars
  BY <1>4, <1>c DEF ReadCounter, dataVars, Phase
<1>5. CASE WriteCounter(t) /\ UNCHANGED dataVars
  BY <1>5, <1>c DEF WriteCounter, dataVars, Phase
<1>6. CASE Climb(t) /\ UNCHANGED dataVars
  BY <1>6, <1>c DEF Climb, dataVars, Phase
<1>7. CASE CountIn(t) /\ UNCHANGED dataVars
  BY <1>7, <1>c DEF CountIn, dataVars, Phase
<1>8. CASE LockOne(t) /\ UNCHANGED dataVars
  <2>1. PICK p : pc' = [pc EXCEPT ![t] = p] /\ p \in {"decide", "resize", "batch"} /\ pc[t] = "batch_lock" /\ arg' = arg
    BY <1>8, <1>a DEF LockOne, dataVars
  <2> QED
    BY <2>1, <1>c DEF Phase
<1>9. CASE CountOut(t) /\ UNCHANGED dataVars
  BY <1>9, <1>c DEF CountOut, dataVars, Phase
<1>10. CASE UnlockOne(t) /\ UNCHANGED dataVars
  <2> DEFINE s == seg_id[t]
             woken == IF on_rebalance[s] = 0 THEN Waiters(s) ELSE {}
             next == IF s = left_segment[t] THEN ret[t] ELSE "uncount"
  <2>1. /\ pc[t] = "unlock" /\ arg' = arg /\ next \in {"idle", "climb", "uncount"}
        /\ pc' = [u \in Threads |-> IF u = t THEN next ELSE IF u \in woken THEN "lock" ELSE pc[u]]
    BY <1>10, <1>a DEF UnlockOne, dataVars
  <2>2. \A u \in woken : pc[u] = "wait"
    BY DEF Waiters
  <2> HIDE DEF woken, next
  <2>3. \A u \in Threads : u # t => Phase(pc'[u]) = Phase(pc[u])
    <3> SUFFICES ASSUME NEW u \in Threads, u # t PROVE Phase(pc'[u]) = Phase(pc[u])
      OBVIOUS
    <3>1. pc'[u] = IF u \in woken THEN "lock" ELSE pc[u]
      BY <2>1
    <3> QED
      BY <2>2, <3>1 DEF Phase
  <2>4. pc'[t] = next
    BY <2>1
  <2>5. Phase(pc[t]) = "after" /\ (pc'[t] = "idle" \/ Phase(pc'[t]) = "after")
    BY <2>1, <2>4 DEF Phase
  <2> QED
    BY <2>1, <2>3, <2>5 DEF PhaseKept
<1>11. CASE TestWindow(t)
  <2>1. PICK p : pc' = [pc EXCEPT ![t] = p] /\ p \in {"rebalance", "climb", "uncount"} /\ pc[t] = "decide" /\ arg' = arg
    BY <1>11 DEF TestWindow, Decide, StartUnlock, dataVars
  <2> QED
    BY <2>1, <1>c DEF Phase
<1>12. CASE RebalanceWindow(t)
  BY <1>12, <1>c DEF RebalanceWindow, Rebalance, StartUnlock, Phase
<1>13. CASE TestLeafAgain(t)
  <2>1. PICK p : pc' = [pc EXCEPT ![t] = p] /\ p \in {"idle", "batch"} /\ pc[t] = "climb" /\ arg' = arg
    BY <1>13 DEF TestLeafAgain, NoSpace, dataVars
  <2> QED
    BY <2>1, <1>c DEF Phase
<1>14. CASE ResizeGraph(t)
  BY <1>14, <1>c DEF ResizeGraph, Resize, StartUnlock, Phase
<1> QED
  BY <1>1, <1>2, <1>3, <1>4, <1>5, <1>6, <1>7, <1>8, <1>9, <1>10, <1>11, <1>12, <1>13, <1>14
     DEF Proceed, LockStep, Spurious

\* CallOf by the phase of the call.
CallIn(p, a) ==
  IF Phase(p) = "out" THEN [busy |-> FALSE]
  ELSE [busy |-> TRUE, u |-> a.src, v |-> a.dst, added |-> Phase(p) = "after"]

\* The calls of the abstract store.
LEMMA CallsAre ==
  /\ [t \in Threads |-> CallOf(t)] = [t \in Threads |-> CallIn(pc[t], arg[t])]
  /\ [t \in Threads |-> CallOf(t)]' = [t \in Threads |-> CallIn(pc'[t], arg'[t])]
<1>1. \A p, a : CallIn(p, a) = IF p = "idle" THEN [busy |-> FALSE]
                               ELSE [busy |-> TRUE, u |-> a.src, v |-> a.dst,
                                     added |-> p \notin {"lock", "wait", "insert"}]
  BY DEF CallIn, Phase
<1>2. \A t \in Threads : CallOf(t) = CallIn(pc[t], arg[t])
  BY <1>1 DEF CallOf
<1>3. \A t \in Threads : CallOf(t)' = CallIn(pc'[t], arg'[t])
  BY <1>1 DEF CallOf
<1> QED
  BY <1>2, <1>3

\* The call that has added its edge.
LEMMA CallAdded ==
  ASSUME NEW k, NEW busy, NEW u, NEW v, NEW x, k = [busy |-> busy, u |-> u, v |-> v, added |-> x], NEW y
  PROVE  [k EXCEPT !.added = y] = [busy |-> busy, u |-> u, v |-> v, added |-> y]
OBVIOUS

\* The lists of the abstract store.
Lists(g) == [v \in Vertices |-> EdgeList(g, v)]

\* They are what out_neigh yields.
LEMMA ListsAre ==
  /\ GraphInv /\ ContentInv => [v \in Vertices |-> Adjacency(v)] = Lists(graph)
  /\ (GraphInv /\ ContentInv)' => [v \in Vertices |-> Adjacency(v)]' = Lists(graph')
<1>1. \A v \in Vertices : Adjacency(v) = AdjacencyIn(graph, v)
  BY DEF Adjacency, AdjacencyIn, TurnedAfter
<1>2. \A v \in Vertices : Adjacency(v)' = AdjacencyIn(graph', v)
  BY DEF Adjacency, AdjacencyIn, TurnedAfter
<1>3. ASSUME GraphInv, ContentInv PROVE [v \in Vertices |-> Adjacency(v)] = Lists(graph)
  <2>1. Typed(graph) /\ Sound(graph)
    BY <1>3 DEF GraphInv, ContentInv
  <2> QED
    BY <1>1, <2>1, AdjacencyIs DEF Lists
<1>4. ASSUME (GraphInv /\ ContentInv)' PROVE [v \in Vertices |-> Adjacency(v)]' = Lists(graph')
  <2>1. Typed(graph') /\ Sound(graph')
    BY <1>4 DEF GraphInv, ContentInv
  <2> QED
    BY <1>2, <2>1, AdjacencyIs DEF Lists
<1> QED
  BY <1>3, <1>4

\* A step of insertion is a step of the store, or leaves its lists and calls
\* alone.
LEMMA StoreStep ==
  ThreadsInv /\ GraphInv /\ ContentInv /\ (ThreadsInv /\ GraphInv /\ ContentInv)' /\ AssertionsHold /\ [Next]_vars
    => [Store!StoreNext]_(Store!storeVars)
<1> SUFFICES ASSUME ThreadsInv, GraphInv, ContentInv, AssertionsHold, [Next]_vars, (GraphInv /\ ContentInv)'
             PROVE  [Store!StoreNext]_(Store!storeVars)
  OBVIOUS
<1> DEFINE adj == [v \in Vertices |-> Adjacency(v)]
           calls == [t \in Threads |-> CallOf(t)]
<1>a. adj = Lists(graph) /\ adj' = Lists(graph')
  BY ListsAre
<1>b. /\ calls = [t \in Threads |-> CallIn(pc[t], arg[t])]
      /\ calls' = [t \in Threads |-> CallIn(pc'[t], arg'[t])]
  BY CallsAre
<1>c. /\ pc \in [Threads -> Labels] /\ arg = [t \in Threads |-> arg[t]]
      /\ \A t \in Threads : arg[t].src \in Vertices
      /\ \A v \in Vertices : graph.vertices_[v].degree \in Nat \ {0}
  <2>1. pc \in [Threads -> Labels]
    BY DEF ThreadsInv, LocksInv, LocksTypeOK
  <2>2. \A v \in Vertices : graph.vertices_[v].degree \in Nat \ {0}
    BY DEF GraphInv, Typed, Entry
  <2> QED
    BY <2>1, <2>2 DEF ThreadsInv, CallsOK
<1> HIDE DEF adj, calls
<1>0. CASE UNCHANGED vars
  <2>1. graph' = graph /\ pc' = pc /\ arg' = arg
    BY <1>0 DEF vars, dataVars, lockVars, locals
  <2>2. adj' = adj /\ calls' = calls
    BY <1>a, <1>b, <2>1
  <2> QED
    BY <2>2 DEF Store!storeVars, adj, calls
<1>1. ASSUME NEW t \in Threads, NEW src \in Sources[t], NEW dst \in Dsts, InsertCall(t, src, dst)
      PROVE  Store!StoreNext
  <2>1. /\ graph' = graph /\ pc[t] = "idle" /\ pc' = [pc EXCEPT ![t] = "lock"]
        /\ arg' = [arg EXCEPT ![t] = [src |-> src, dst |-> dst]]
    BY <1>1 DEF InsertCall, Call, Goto
  <2>2. adj' = adj
    BY <1>a, <2>1
  <2>3. calls[t] = [busy |-> FALSE]
    BY <1>b, <2>1 DEF CallIn, Phase
  <2> DEFINE c == [busy |-> TRUE, u |-> src, v |-> dst, added |-> FALSE]
  <2>4. CallIn(pc'[t], arg'[t]) = c
    <3>1. pc'[t] = "lock" /\ arg'[t] = [src |-> src, dst |-> dst]
      BY <1>c, <2>1
    <3>2. Phase("lock") = "before"
      BY DEF Phase
    <3>3. CallIn("lock", [src |-> src, dst |-> dst]) = c
      BY <3>2 DEF CallIn
    <3> QED
      BY <3>1, <3>3
  <2>5. \A u \in Threads : u # t => CallIn(pc'[u], arg'[u]) = CallIn(pc[u], arg[u])
    <3>1. \A u \in Threads : u # t => pc'[u] = pc[u] /\ arg'[u] = arg[u]
      BY <1>c, <2>1
    <3> QED
      BY <3>1
  <2> HIDE DEF c
  <2>6. calls' = [calls EXCEPT ![t] = c]
    BY <1>b, <2>4, <2>5
  <2>7. src \in Vertices
    BY DgapAssumption
  <2>8. Store!Invoke(t, src, dst)
    BY <2>2, <2>3, <2>6 DEF Store!Invoke, Store!NoCall, adj, calls, c
  <2> QED
    BY <2>7, <2>8 DEF Store!StoreNext
<1>2. ASSUME NEW t \in Threads, InsertEdge(t)
      PROVE  Store!StoreNext
  <2> DEFINE src == arg[t].src
             dst == arg[t].dst
  <2>1. /\ pc[t] = "insert" /\ arg' = arg
        /\ pc' = [pc EXCEPT ![t] = "register"] \/ pc' = [pc EXCEPT ![t] = "idle"]
    BY <1>2 DEF InsertEdge, DoInsertion, Goto
  <2>2. InsertsAt(t)
    BY <1>2, <2>1 DEF InsertEdge, InsertsAt
  <2>3. OneEdgeMore(graph, src, dst, graph')
    BY <2>2, InsertContent
  <2>4. /\ EdgeList(graph', src) = Append(EdgeList(graph, src), dst)
        /\ \A v \in Vertices \ {src} : EdgeList(graph', v) = EdgeList(graph, v)
    <3>1. src \in Vertices
      BY <1>c
    <3> HIDE DEF src, dst
    <3> QED
      BY <1>c, <2>3, <3>1, OneMoreInList
  <2>5. calls[t] = [busy |-> TRUE, u |-> src, v |-> dst, added |-> FALSE]
    <3>1. Phase("insert") = "before"
      BY DEF Phase
    <3>2. calls[t] = CallIn("insert", arg[t])
      BY <1>b, <2>1
    <3> QED
      BY <3>1, <3>2 DEF CallIn
  <2>6. adj' = [adj EXCEPT ![src] = Append(@, dst)]
    <3>1. src \in Vertices
      BY <1>c
    <3> HIDE DEF src, dst
    <3> QED
      BY <1>a, <2>4, <3>1 DEF Lists
  <2>7. \A u \in Threads : u # t => CallIn(pc'[u], arg'[u]) = CallIn(pc[u], arg[u])
    <3>1. \A u \in Threads : u # t => pc'[u] = pc[u] /\ arg'[u] = arg[u]
      BY <1>c, <2>1
    <3> QED
      BY <3>1
  <2>8. CASE pc'[t] = "register"
    <3> DEFINE c == [busy |-> TRUE, u |-> src, v |-> dst, added |-> TRUE]
    <3>1. CallIn(pc'[t], arg'[t]) = c
      <4>1. Phase("register") = "after"
        BY DEF Phase
      <4> QED
        BY <2>1, <2>8, <4>1 DEF CallIn
    <3>2. [calls[t] EXCEPT !.added = TRUE] = c
      <4> DEFINE k == calls[t]
                 yes == TRUE
                 no == FALSE
      <4>1. k = [busy |-> yes, u |-> src, v |-> dst, added |-> no]
        BY <2>5
      <4> HIDE DEF src, dst, k, yes, no
      <4>2. [k EXCEPT !.added = yes] = [busy |-> yes, u |-> src, v |-> dst, added |-> yes]
        BY <4>1, CallAdded
      <4> QED
        BY <4>2 DEF k, yes
    <3> HIDE DEF c
    <3>3. calls' = [calls EXCEPT ![t] = c]
      BY <1>b, <2>7, <3>1
    <3>4. calls' = [calls EXCEPT ![t].added = TRUE]
      BY <3>2, <3>3
    <3>5. /\ calls[t] # [busy |-> FALSE] /\ ~calls[t].added /\ calls[t].u = src /\ calls[t].v = dst
      BY <2>5
    <3>6. Store!AddEdge(t)
      <4>1. adj' = [adj EXCEPT ![calls[t].u] = Append(@, calls[t].v)]
        BY <2>6, <3>5
      <4> QED
        BY <3>4, <3>5, <4>1 DEF Store!AddEdge, Store!NoCall, adj, calls
    <3> QED
      BY <3>6 DEF Store!StoreNext
  <2>9. CASE pc'[t] = "idle"
    <3>1. CallIn(pc'[t], arg'[t]) = [busy |-> FALSE]
      BY <2>9 DEF CallIn, Phase
    <3>2. calls' = [calls EXCEPT ![t] = [busy |-> FALSE]]
      BY <1>b, <2>7, <3>1
    <3>5. /\ calls[t] # [busy |-> FALSE] /\ ~calls[t].added /\ calls[t].u = src /\ calls[t].v = dst
      BY <2>5
    <3>6. Store!AddAndReturn(t)
      <4>1. adj' = [adj EXCEPT ![calls[t].u] = Append(@, calls[t].v)]
        BY <2>6, <3>5
      <4> QED
        BY <3>2, <3>5, <4>1 DEF Store!AddAndReturn, Store!NoCall, adj, calls
    <3> QED
      BY <3>6 DEF Store!StoreNext
  <2>10. pc'[t] = "register" \/ pc'[t] = "idle"
    BY <1>c, <2>1
  <2> QED
    BY <2>8, <2>9, <2>10
<1>3. ASSUME NEW t \in Threads, Proceed(t) \/ Spurious(t), ~InsertEdge(t)
      PROVE  [Store!StoreNext]_(Store!storeVars)
  <2>1. PhaseKept(t)
    BY <1>3, PhaseStep
  <2>2. adj' = adj
    <3>1. UNCHANGED graph \/ SameEdges(graph, graph')
      BY <1>3, ThreadSteps, MoveContent
    <3>2. \A v \in Vertices : EdgeList(graph', v) = EdgeList(graph, v)
      <4>1. CASE UNCHANGED graph
        BY <4>1
      <4>2. CASE SameEdges(graph, graph')
        BY <1>c, <4>2, SameLists
      <4> QED
        BY <3>1, <4>1, <4>2
    <3> QED
      BY <1>a, <3>2 DEF Lists
  <2>3. \A u \in Threads : Phase(pc'[u]) = Phase(pc[u]) => CallIn(pc'[u], arg'[u]) = CallIn(pc[u], arg[u])
    BY <2>1 DEF PhaseKept, CallIn
  <2>4. CASE Phase(pc'[t]) = Phase(pc[t])
    <3>1. \A u \in Threads : Phase(pc'[u]) = Phase(pc[u])
      BY <2>1, <2>4 DEF PhaseKept
    <3>2. calls' = calls
      BY <1>b, <2>3, <3>1
    <3> QED
      BY <2>2, <3>2 DEF Store!storeVars, adj, calls
  <2>5. CASE Phase(pc[t]) = "after" /\ pc'[t] = "idle"
    <3>1. \A u \in Threads : u # t => CallIn(pc'[u], arg'[u]) = CallIn(pc[u], arg[u])
      BY <2>1, <2>3 DEF PhaseKept
    <3>2. CallIn(pc'[t], arg'[t]) = [busy |-> FALSE]
      BY <2>5 DEF CallIn, Phase
    <3>3. calls' = [calls EXCEPT ![t] = [busy |-> FALSE]]
      BY <1>b, <3>1, <3>2
    <3>4. calls[t] # [busy |-> FALSE] /\ calls[t].added
      <4>1. calls[t] = [busy |-> TRUE, u |-> arg[t].src, v |-> arg[t].dst, added |-> TRUE]
        BY <1>b, <2>5 DEF CallIn
      <4> QED
        BY <4>1
    <3>5. Store!Return(t)
      BY <2>2, <3>3, <3>4 DEF Store!Return, Store!NoCall, adj, calls
    <3> QED
      BY <3>5 DEF Store!StoreNext
  <2> QED
    BY <2>1, <2>4, <2>5 DEF PhaseKept
<1> QED
  BY <1>0, <1>1, <1>2, <1>3 DEF Next, Terminated, Proceed

\* As long as no assertion fails, insertion is the store's: every call appends
\* its edge to the list of its source exactly once between call and return, and
\* no rebalance, merge of a log, resize or interleaving loses, repeats, reorders
\* or invents an edge.
THEOREM InsertionRefinesStore == Spec /\ []AssertionsHold => StoreRefined
<1>1. Init => Store!StoreInit
  <2> SUFFICES ASSUME Init PROVE Store!StoreInit
    OBVIOUS
  <2>1. GraphInv /\ ContentInv /\ graph = BaseGraph
    BY BaseIs, BaseSound DEF Init, GraphInv, ContentInv
  <2>2. [v \in Vertices |-> Adjacency(v)] = [v \in Vertices |-> BaseAdjacency(v)]
    <3>1. [v \in Vertices |-> Adjacency(v)] = Lists(graph)
      BY <2>1, ListsAre
    <3> QED
      BY <2>1, <3>1, BaseLists DEF Lists
  <2>3. [t \in Threads |-> CallOf(t)] = [t \in Threads |-> [busy |-> FALSE]]
    BY DEF Init, LocksInit, CallOf
  <2> QED
    BY <2>2, <2>3 DEF Store!StoreInit, Store!NoCall
<1> QED
  BY <1>1, StoreStep, ContentInvariant, PTL DEF Spec, StoreRefined, Store!StoreSpec
=============================================================================
