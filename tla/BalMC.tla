------------------------------- MODULE BalMC -------------------------------
(***************************************************************************)
(* Bal for TLC: chains of up to three blocks of two edges, a vertex that    *)
(* has no base edge, and two threads that meet at a vertex in both loops.   *)
(***************************************************************************)
EXTENDS Bal, TLC

CONSTANTS t1, t2

e(x, y) == [u |-> x, v |-> y]

BaseParts == t1 :> <<e(0, 1), e(0, 2)>> @@ t2 :> <<e(0, 0), e(2, 1)>>
DynamicParts == t1 :> <<e(0, 1), e(1, 2)>> @@ t2 :> <<e(0, 2), e(1, 0), e(2, 0)>>

OnePlace == {0}
SeveralPlaces == {0, 100}
=============================================================================
