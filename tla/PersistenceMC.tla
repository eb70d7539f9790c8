--------------------------- MODULE PersistenceMC ---------------------------
(***************************************************************************)
(* Persistence for TLC.                                                     *)
(***************************************************************************)
EXTENDS Persistence

\* The smallest base graph with n_vertices vertices: one edge to the last one.
OneEdge == <<[u |-> 0, v |-> n_vertices - 1]>>

\* A file whose array is lost is of no use to anyone.
MCDone == phase = "failed" /\ UNCHANGED persistVars

MCSpec == PersistInit /\ [][PersistNext \/ MCDone]_persistVars
=============================================================================
