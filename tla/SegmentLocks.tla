---------------------------- MODULE SegmentLocks ----------------------------
(***************************************************************************)
(* The concurrency control of DGAP's edge insertion (dgap/src/graph.h): one *)
(* PMALeafSegment per leaf of the PMA tree, holding a mutex, a condition    *)
(* variable and the counter on_rebalance, and the control flow of           *)
(* CSRGraph::insert(src, dst), lock_in_batch and unlock_in_batch over them. *)
(*                                                                         *)
(* What insert() decides from the densities of segments is a parameter of   *)
(* the actions (dense, fits), so this module allows every outcome; module   *)
(* Dgap conjoins the same actions with the edge array and computes them.    *)
(*                                                                         *)
(* Segments are numbered 0 .. segment_count - 1, as in leaf_segments[]; the *)
(* tree node of leaf s is s + segment_count.  span is 1 << height, the      *)
(* number of leaves below the current window.                               *)
(*                                                                         *)
(* A definition named Faulty... is a deliberately wrong variant of the one  *)
(* that follows it, a bug the code could plausibly have.  No action uses    *)
(* it; it documents which mistake a property of the module rules out.       *)
(***************************************************************************)
EXTENDS Integers

CONSTANTS
  Threads,        \* the OpenMP threads of the parallel insertion loop
  NoThread,       \* the owner of a free mutex
  segment_count,  \* number of PMA leaf segments
  Inserts         \* how many edges of the edge list each thread is handed

ASSUME LocksAssumption ==
  /\ NoThread \notin Threads
  /\ segment_count \in Nat \ {0}
  /\ Inserts \in Nat

VARIABLES
  lock,            \* leaf_segments[s].lock: its owner
  on_rebalance,    \* leaf_segments[s].on_rebalance
  pc,              \* where each thread is in insert()
  todo,            \* edges each thread has still to insert
  \* the locals of insert(), lock_in_batch() and unlock_in_batch()
  current_segment, window, span, left_segment, right_segment,
  seg_id,          \* the loop variable of lock_in_batch / unlock_in_batch
  ret,             \* where lock_in_batch / unlock_in_batch return to
  old_val          \* what "on_rebalance += 1" has read

shared == <<lock, on_rebalance>>
search == <<current_segment, window, span, left_segment, right_segment>>
locals == <<search, seg_id, ret, old_val>>
lockVars == <<shared, pc, todo, locals>>

Segments == 0 .. segment_count - 1

Labels == {"idle", "lock", "wait", "insert", "register", "unlock_leaf",
           "climb", "batch", "batch_lock", "decide", "rebalance", "resize",
           "uncount", "unlock"}

Goto(t, label) == pc' = [pc EXCEPT ![t] = label]

LocksInit ==
  /\ lock = [s \in Segments |-> NoThread]
  /\ on_rebalance = [s \in Segments |-> 0]
  /\ pc = [t \in Threads |-> "idle"]
  /\ todo = [t \in Threads |-> Inserts]
  /\ current_segment = [t \in Threads |-> 0]
  /\ window = [t \in Threads |-> 0]
  /\ span = [t \in Threads |-> 1]
  /\ left_segment = [t \in Threads |-> 0]
  /\ right_segment = [t \in Threads |-> 1]
  /\ seg_id = [t \in Threads |-> 0]
  /\ ret = [t \in Threads |-> "idle"]
  /\ old_val = [t \in Threads |-> 0]

-----------------------------------------------------------------------------
(***************************************************************************)
(* Entering the leaf segment of the source vertex.                          *)
(***************************************************************************)

\* The loop over the edge list calls insert(src, dst), src in segment s.
Call(t, s) ==
  /\ pc[t] = "idle"
  /\ todo[t] > 0
  /\ todo' = [todo EXCEPT ![t] = @ - 1]
  /\ current_segment' = [current_segment EXCEPT ![t] = s]
  /\ Goto(t, "lock")
  /\ UNCHANGED <<shared, window, span, left_segment, right_segment,
                 seg_id, ret, old_val>>

\* unique_lock takes the mutex and the predicate of cv.wait holds at once.
EnterLeaf(t) ==
  LET s == current_segment[t] IN
  /\ pc[t] = "lock"
  /\ lock[s] = NoThread
  /\ on_rebalance[s] = 0
  /\ lock' = [lock EXCEPT ![s] = t]
  /\ Goto(t, "insert")
  /\ UNCHANGED <<on_rebalance, todo, locals>>

\* The predicate fails: cv.wait gives the mutex back and blocks.
WaitForRebalance(t) ==
  LET s == current_segment[t] IN
  /\ pc[t] = "lock"
  /\ lock[s] = NoThread
  /\ on_rebalance[s] # 0
  /\ Goto(t, "wait")
  /\ UNCHANGED <<shared, todo, locals>>

\* A condition variable may wake a waiter that nobody notified.
SpuriousWakeup(t) ==
  /\ pc[t] = "wait"
  /\ Goto(t, "lock")
  /\ UNCHANGED <<shared, todo, locals>>

\* The leaf is unlocked before the counter is raised.
FaultyDoInsertion(t, dense) ==
  LET s == current_segment[t] IN
  /\ pc[t] = "insert"
  /\ lock' = [lock EXCEPT ![s] = NoThread]
  /\ window' = [window EXCEPT ![t] = s + segment_count]
  /\ span' = [span EXCEPT ![t] = 1]
  /\ Goto(t, IF dense THEN "register" ELSE "idle")
  /\ UNCHANGED <<on_rebalance, todo, current_segment, left_segment,
                 right_segment, seg_id, ret, old_val>>

\* do_insertion, then the test density >= up_0 of the leaf (dense).
DoInsertion(t, dense) ==
  LET s == current_segment[t] IN
  /\ pc[t] = "insert"
  /\ \/ /\ dense
        /\ window' = [window EXCEPT ![t] = s + segment_count]
        /\ span' = [span EXCEPT ![t] = 1]
        /\ Goto(t, "register")
        /\ UNCHANGED lock
     \/ /\ ~dense
        /\ lock' = [lock EXCEPT ![s] = NoThread]
        /\ Goto(t, "idle")
        /\ UNCHANGED <<window, span>>
  /\ UNCHANGED <<on_rebalance, todo, current_segment, left_segment,
                 right_segment, seg_id, ret, old_val>>

\* "on_rebalance += 1" is a plain read and write, and the other threads change
\* the counter by compare-and-swap without the mutex: two steps.
ReadCounter(t) ==
  /\ pc[t] = "register"
  /\ old_val' = [old_val EXCEPT ![t] = on_rebalance[current_segment[t]]]
  /\ Goto(t, "unlock_leaf")
  /\ UNCHANGED <<shared, todo, search, seg_id, ret>>

WriteCounter(t) ==
  LET s == current_segment[t] IN
  /\ pc[t] = "unlock_leaf"
  /\ on_rebalance' = [on_rebalance EXCEPT ![s] = old_val[t] + 1]
  /\ lock' = [lock EXCEPT ![s] = NoThread]
  /\ Goto(t, "climb")
  /\ UNCHANGED <<todo, locals>>

-----------------------------------------------------------------------------
(***************************************************************************)
(* Looking for a window that can be rebalanced.                             *)
(***************************************************************************)

LowerOf(x, y) == IF x <= y THEN x ELSE y

\* The segments of the window of n leaves that holds segment s.
WindowLeft(s, n) == (s \div n) * n
FaultyWindowRight(s, n) == WindowLeft(s, n) + n
WindowRight(s, n) == LowerOf(WindowLeft(s, n) + n, segment_count)

\* One turn of "while (window > 0)", up to the call of lock_in_batch.
Climb(t) ==
  LET n == 2 * span[t]
      s == current_segment[t]
  IN
  /\ pc[t] = "climb"
  /\ window[t] > 0
  /\ window' = [window EXCEPT ![t] = @ \div 2]
  /\ span' = [span EXCEPT ![t] = n]
  /\ left_segment' = [left_segment EXCEPT ![t] = WindowLeft(s, n)]
  /\ right_segment' = [right_segment EXCEPT ![t] = WindowRight(s, n)]
  /\ seg_id' = [seg_id EXCEPT ![t] = WindowLeft(s, n)]
  /\ ret' = [ret EXCEPT ![t] = "decide"]
  /\ Goto(t, "batch")
  /\ UNCHANGED <<shared, todo, current_segment, old_val>>

\* lock_in_batch: the compare-and-swap loop on the counter of seg_id ...
CountIn(t) ==
  LET s == seg_id[t] IN
  /\ pc[t] = "batch"
  /\ on_rebalance' = IF s = current_segment[t] THEN on_rebalance
                     ELSE [on_rebalance EXCEPT ![s] = @ + 1]
  /\ Goto(t, "batch_lock")
  /\ UNCHANGED <<lock, todo, locals>>

\* The source segment is left out of the locking as it is of the counting.
FaultyLockOne(t) ==
  LET s == seg_id[t] IN
  /\ pc[t] = "batch_lock"
  /\ s = current_segment[t] \/ lock[s] = NoThread
  /\ lock' = IF s = current_segment[t] THEN lock ELSE [lock EXCEPT ![s] = t]
  /\ seg_id' = IF s + 1 = right_segment[t] THEN seg_id ELSE [seg_id EXCEPT ![t] = s + 1]
  /\ Goto(t, IF s + 1 = right_segment[t] THEN ret[t] ELSE "batch")
  /\ UNCHANGED <<on_rebalance, todo, search, ret, old_val>>

\* ... and its mutex, in ascending order of segments.
LockOne(t) ==
  LET s == seg_id[t] IN
  /\ pc[t] = "batch_lock"
  /\ lock[s] = NoThread
  /\ lock' = [lock EXCEPT ![s] = t]
  /\ \/ /\ s + 1 = right_segment[t]
        /\ Goto(t, ret[t])
        /\ UNCHANGED seg_id
     \/ /\ s + 1 # right_segment[t]
        /\ seg_id' = [seg_id EXCEPT ![t] = s + 1]
        /\ Goto(t, "batch")
  /\ UNCHANGED <<on_rebalance, todo, search, ret, old_val>>

\* Calling unlock_in_batch on the window, to come back at label.
StartUnlock(t, label) ==
  /\ seg_id' = [seg_id EXCEPT ![t] = right_segment[t] - 1]
  /\ ret' = [ret EXCEPT ![t] = label]
  /\ Goto(t, "uncount")

\* The test density < up_height (fits) and the break out of the loop.  At the
\* last turn window is 0 and the break leaves with every mutex held.
Decide(t, fits) ==
  /\ pc[t] = "decide"
  /\ \/ /\ fits
        /\ Goto(t, IF window[t] > 0 THEN "rebalance" ELSE "climb")
        /\ UNCHANGED <<seg_id, ret>>
     \/ /\ ~fits
        /\ StartUnlock(t, "climb")
  /\ UNCHANGED <<shared, todo, search, old_val>>

-----------------------------------------------------------------------------
(***************************************************************************)
(* Rebalancing or resizing, and leaving.                                    *)
(***************************************************************************)

\* rebalance_weighted on the window (or nothing, if the leaf has room again).
Rebalance(t) ==
  /\ pc[t] = "rebalance"
  /\ StartUnlock(t, "idle")
  /\ UNCHANGED <<shared, todo, search, old_val>>

\* lock_in_batch is forgotten before resize_V1.
FaultyNoSpace(t, dense) ==
  /\ pc[t] = "climb"
  /\ window[t] = 0
  /\ left_segment' = [left_segment EXCEPT ![t] = 0]
  /\ right_segment' = [right_segment EXCEPT ![t] = segment_count]
  /\ Goto(t, IF dense THEN "resize" ELSE "idle")
  /\ UNCHANGED <<shared, todo, current_segment, window, span, seg_id, ret, old_val>>

\* No window fits.  The leaf is tested again, with no mutex taken for it: the
\* early return keeps on_rebalance[current_segment] as it is.
NoSpace(t, dense) ==
  /\ pc[t] = "climb"
  /\ window[t] = 0
  /\ left_segment' = [left_segment EXCEPT ![t] = 0]
  /\ right_segment' = [right_segment EXCEPT ![t] = segment_count]
  /\ \/ /\ ~dense
        /\ Goto(t, "idle")
        /\ UNCHANGED <<seg_id, ret>>
     \/ /\ dense
        /\ seg_id' = [seg_id EXCEPT ![t] = 0]
        /\ ret' = [ret EXCEPT ![t] = "resize"]
        /\ Goto(t, "batch")
  /\ UNCHANGED <<shared, todo, current_segment, window, span, old_val>>

\* resize_V1
Resize(t) ==
  /\ pc[t] = "resize"
  /\ StartUnlock(t, "idle")
  /\ UNCHANGED <<shared, todo, search, old_val>>

\* unlock_in_batch: the counter of seg_id goes down, except that the variant
\* with @src_segment (ret = "climb") keeps the caller's own registration ...
CountOut(t) ==
  LET s == seg_id[t] IN
  /\ pc[t] = "uncount"
  /\ on_rebalance' = IF ret[t] = "climb" /\ s = current_segment[t]
                     THEN on_rebalance
                     ELSE [on_rebalance EXCEPT ![s] = @ - 1]
  /\ Goto(t, "unlock")
  /\ UNCHANGED <<lock, todo, locals>>

\* The threads cv.notify_all of segment s would wake.
Waiters(s) == {u \in Threads : pc[u] = "wait" /\ current_segment[u] = s}

\* notify_all is forgotten.
FaultyUnlockOne(t) ==
  LET s == seg_id[t] IN
  /\ pc[t] = "unlock"
  /\ lock' = [lock EXCEPT ![s] = NoThread]
  /\ Goto(t, IF s = left_segment[t] THEN ret[t] ELSE "uncount")
  /\ seg_id' = [seg_id EXCEPT ![t] = IF s = left_segment[t] THEN s ELSE s - 1]
  /\ UNCHANGED <<on_rebalance, todo, search, ret, old_val>>

\* ... then the mutex is released, and the waiters are notified if the counter
\* has been read as 0; segments go in descending order.
UnlockOne(t) ==
  LET s == seg_id[t]
      woken == IF on_rebalance[s] = 0 THEN Waiters(s) ELSE {}
      next == IF s = left_segment[t] THEN ret[t] ELSE "uncount"
  IN
  /\ pc[t] = "unlock"
  /\ lock' = [lock EXCEPT ![s] = NoThread]
  /\ pc' = [u \in Threads |-> IF u = t THEN next
                              ELSE IF u \in woken THEN "lock" ELSE pc[u]]
  /\ seg_id' = [seg_id EXCEPT ![t] = IF s = left_segment[t] THEN s ELSE s - 1]
  /\ UNCHANGED <<on_rebalance, todo, search, ret, old_val>>

-----------------------------------------------------------------------------
LocksStep(t) ==
  \/ \E s \in Segments : Call(t, s)
  \/ EnterLeaf(t)
  \/ WaitForRebalance(t)
  \/ SpuriousWakeup(t)
  \/ \E dense \in BOOLEAN : DoInsertion(t, dense)
  \/ ReadCounter(t)
  \/ WriteCounter(t)
  \/ Climb(t)
  \/ CountIn(t)
  \/ LockOne(t)
  \/ \E fits \in BOOLEAN : Decide(t, fits)
  \/ Rebalance(t)
  \/ \E dense \in BOOLEAN : NoSpace(t, dense)
  \/ Resize(t)
  \/ CountOut(t)
  \/ UnlockOne(t)

LocksNext == \E t \in Threads : LocksStep(t)

LocksSpec == LocksInit /\ [][LocksNext]_lockVars

-----------------------------------------------------------------------------
(***************************************************************************)
(* Properties.                                                              *)
(***************************************************************************)

\* Every variable has its type; the counters are any integers, because an
\* increment can be lost (ReadCounter / WriteCounter).
LocksTypeOK ==
  /\ lock \in [Segments -> Threads \cup {NoThread}]
  /\ on_rebalance \in [Segments -> Int]
  /\ pc \in [Threads -> Labels]
  /\ todo \in [Threads -> Nat]
  /\ current_segment \in [Threads -> Segments]
  /\ window \in [Threads -> Nat]
  /\ span \in [Threads -> Nat \ {0}]
  /\ left_segment \in [Threads -> Segments]
  /\ right_segment \in [Threads -> 1 .. segment_count]
  /\ seg_id \in [Threads -> Segments]
  /\ ret \in [Threads -> {"idle", "climb", "decide", "resize"}]
  /\ old_val \in [Threads -> Int]

\* The segments whose vertices, edges, log and counts thread t may be reading
\* and writing at its current step.
DataSegments(t) ==
  CASE pc[t] = "insert" -> {current_segment[t]}
    [] pc[t] \in {"decide", "rebalance", "resize"} ->
         left_segment[t] .. right_segment[t] - 1
    [] OTHER -> {}

\* No two threads work on the data of one segment at the same time: insertion
\* into a leaf, the density sums of lock_in_batch, rebalance_weighted and
\* resize_V1 exclude each other, whatever densities they have read and although
\* the registration counter is not kept exactly.
DataExclusive ==
  \A t, u \in Threads :
    t # u => DataSegments(t) \cap DataSegments(u) = {}

\* The mutexes each step of insert() relies on: the leaf while inserting and
\* registering, the prefix of the batch already taken, the whole window while
\* deciding and rebalancing, and the part of the batch not yet released.
HeldSegments(t) ==
  CASE pc[t] \in {"insert", "register", "unlock_leaf"} -> {current_segment[t]}
    [] pc[t] \in {"batch", "batch_lock"} -> left_segment[t] .. seg_id[t] - 1
    [] pc[t] \in {"decide", "rebalance", "resize"} ->
         left_segment[t] .. right_segment[t] - 1
    [] pc[t] \in {"uncount", "unlock"} -> left_segment[t] .. seg_id[t]
    [] OTHER -> {}

\* unlock_in_batch and unique_lock never release a mutex the thread does not
\* own, and no step works on a segment whose mutex it has not taken.
HoldsWhatItUses ==
  \A t \in Threads : \A s \in HeldSegments(t) : lock[s] = t

\* A mutex is released only in a step of the thread that owns it, and never
\* changes hands without being released: what std::mutex requires of its
\* users.  unlock_in_batch releases by segment number, so it is up to insert()
\* to name only segments that it has locked.
OwnerReleases ==
  [][\A s \in Segments :
       lock[s] \in Threads /\ lock'[s] # lock[s] =>
         lock'[s] = NoThread /\ pc'[lock[s]] # pc[lock[s]]]_lockVars

\* Positions of a thread in its loops; together with the type invariant and
\* HoldsWhatItUses this is inductive.
LoopBound(t) ==
  /\ pc[t] \in {"batch", "batch_lock", "decide", "rebalance", "resize",
                "uncount", "unlock"} =>
       left_segment[t] < right_segment[t]
  /\ pc[t] \in {"batch", "batch_lock", "uncount", "unlock"} =>
       left_segment[t] <= seg_id[t] /\ seg_id[t] < right_segment[t]
  /\ pc[t] \in {"batch", "batch_lock"} => ret[t] \in {"decide", "resize"}
  /\ pc[t] \in {"uncount", "unlock"} => ret[t] \in {"idle", "climb"}

LoopBounds == \A t \in Threads : LoopBound(t)

LocksInv == LocksTypeOK /\ LoopBounds /\ HoldsWhatItUses
=============================================================================
