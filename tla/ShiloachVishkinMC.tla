------------------------- MODULE ShiloachVishkinMC -------------------------
(***************************************************************************)
(* ShiloachVishkin for TLC: graphs whose components have many vertices with *)
(* a smaller neighbour, so that hooks compete.                              *)
(***************************************************************************)
EXTENDS ShiloachVishkin

\* The lists of a graph given by its edges <<u, v>>; a list need not be
\* matched by one in the other direction.
Lists(edges) == [u \in Nodes |-> {v \in Nodes : <<u, v>> \in edges}]
Both(edges) == Lists(edges \cup {<<e[2], e[1]>> : e \in edges})

SmallGraphs ==
  {Both({<<0, 3>>, <<1, 3>>, <<2, 3>>}),        \* one root, three hooks on it
   Both({<<0, 2>>, <<2, 1>>, <<1, 3>>}),        \* a path that needs rounds
   Both({<<0, 1>>, <<2, 3>>}),                  \* two components
   Lists({<<3, 0>>, <<3, 1>>, <<2, 1>>})}       \* edges in one direction
=============================================================================
