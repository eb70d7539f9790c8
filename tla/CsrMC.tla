------------------------------- MODULE CsrMC -------------------------------
(***************************************************************************)
(* Csr for TLC: three threads, five vertices in blocks of two (the last one *)
(* short), edges of one vertex in several shares, an edge twice, a          *)
(* self-loop, and a vertex without edges in the middle.                     *)
(***************************************************************************)
EXTENDS Csr, TLC

CONSTANTS t1, t2, t3

e(x, y) == [u |-> x, v |-> y]

Lists ==
  {t1 :> <<e(0, 4), e(2, 1), e(0, 1)>> @@ t2 :> <<e(0, 3), e(4, 4), e(2, 3)>>
     @@ t3 :> <<e(0, 4), e(1, 0), e(4, 0)>>,
   t1 :> <<e(3, 3), e(3, 0)>> @@ t2 :> <<e(3, 0)>> @@ t3 :> <<e(2, 0)>>,
   t1 :> <<e(4, 0)>> @@ t2 :> <<>> @@ t3 :> <<>>}
=============================================================================
