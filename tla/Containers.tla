---------------------------- MODULE Containers ----------------------------
(***************************************************************************)
(* The containers of the analysis kernels: SlidingQueue and QueueBuffer     *)
(* (sliding_queue.h) and Bitmap (bitmap.h), as operators, cut where threads *)
(* can meet: a QueueBuffer reserves its place in the shared array and       *)
(* copies in separate steps, and a bit is set by a load and a store (or a   *)
(* compare-and-swap) of its word.                                           *)
(***************************************************************************)
EXTENDS Integers, Sequences, FiniteSets

CONSTANTS
  kBitsPerWord,  \* bits of a word of a Bitmap
  local_size,    \* capacity of a QueueBuffer
  Unset          \* an entry of the shared array that was never written

ASSUME ContainersAssumption ==
  /\ kBitsPerWord \in Nat \ {0}
  /\ local_size \in Nat \ {0}

-----------------------------------------------------------------------------
(***************************************************************************)
(* SlidingQueue: the window shared_out_start .. shared_out_end - 1 is read, *)
(* shared_in is where the next entry goes.                                  *)
(***************************************************************************)
NewQueue(shared_size) ==
  [shared |-> [i \in 0 .. shared_size - 1 |-> Unset],
   shared_in |-> 0, shared_out_start |-> 0, shared_out_end |-> 0]

push_back(q, x) ==
  [q EXCEPT !.shared[q.shared_in] = x, !.shared_in = @ + 1]

slide_window(q) ==
  [q EXCEPT !.shared_out_start = q.shared_out_end, !.shared_out_end = q.shared_in]

EmptyWindow(q) == q.shared_out_start = q.shared_out_end
WindowSize(q) == q.shared_out_end - q.shared_out_start
WindowPositions(q) == q.shared_out_start .. q.shared_out_end - 1
Window(q) == {q.shared[i] : i \in WindowPositions(q)}

\* flush(), first step: fetch_and_add(sq.shared_in, in).
ReserveSpace(q, n) == [q EXCEPT !.shared_in = @ + n]

\* flush(), second step: the local queue is copied to copy_start.
CopyToShared(q, local, copy_start) ==
  [q EXCEPT !.shared =
     [i \in DOMAIN @ |-> IF i - copy_start \in 0 .. Len(local) - 1
                         THEN local[i - copy_start + 1] ELSE @[i]]]

-----------------------------------------------------------------------------
(***************************************************************************)
(* Bitmap, as the set of its bits that are set.                             *)
(***************************************************************************)
\* The value of the word of bit pos.
WordOf(bitmap, pos) == {n \in bitmap : n \div kBitsPerWord = pos \div kBitsPerWord}

\* The word of bit pos is stored: old_val and the bit.
StoreWord(bitmap, pos, old_val) ==
  (bitmap \ WordOf(bitmap, pos)) \cup old_val \cup {pos}
=============================================================================
