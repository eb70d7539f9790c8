----------------------------- MODULE BrandesMC -----------------------------
(***************************************************************************)
(* Brandes for TLC: graphs with several shortest paths to a vertex.         *)
(***************************************************************************)
EXTENDS Brandes, SequencesExt

\* The lists, in ascending order, of the undirected graph with these edges.
Lists(edges) ==
  [u \in Nodes |-> SetToSortSeq({v \in Nodes : {u, v} \in edges}, LAMBDA a, b : a < b)]

SmallGraphs ==
  {Lists({{0, 1}, {0, 2}, {1, 3}, {2, 3}, {3, 4}}),           \* two paths go on
   Lists({{0, 1}, {0, 2}, {1, 3}, {1, 4}, {2, 3}, {2, 4}}),   \* races for two vertices
   Lists({{0, 1}, {0, 2}, {1, 2}, {1, 3}, {2, 3}}),           \* an edge inside a level
   [n \in Nodes |-> CASE n = 0 -> <<1, 1>> [] n = 1 -> <<0, 0, 2>> [] n = 2 -> <<1>>
                       [] OTHER -> <<>>]}                     \* an edge twice

TwoSources == <<0, 1>>
=============================================================================
