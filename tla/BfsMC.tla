------------------------------- MODULE BfsMC -------------------------------
(***************************************************************************)
(* Bfs for TLC: small graphs, and parameters of DOBFS that bring about every *)
(* alternation of steps.                                                    *)
(***************************************************************************)
EXTENDS Bfs

\* The graph with the given edges, symmetrized or not.
Undirected(edges) == [u \in Nodes |-> {v \in Nodes : {u, v} \in edges}]
Directed(edges) == [u \in Nodes |-> {v \in Nodes : <<u, v>> \in edges}]

Search(adj, directed, source, alphas, betas) ==
  {[adj |-> adj, directed |-> directed, source |-> source, alpha |-> a, beta |-> b] :
     a \in alphas, b \in betas}

Path == {{n, n + 1} : n \in 0 .. num_nodes - 2}
Ring == Path \cup {{0, num_nodes - 1}}

\* Two vertices at distance 1, joined to the others, of which one has two
\* possible parents.
Fan == {{0, 1}, {0, 2}, {1, 3}, {2, 3}, {2, 4}, {4, 5}}

\* Vertices that cannot be reached.
Split == {{0, 1}, {0, 2}, {1, 2}, {3, 4}, {4, 5}}

\* alpha decides when the bottom-up steps begin, beta when they end.
SmallGraphs ==
  UNION {Search(Undirected(g), FALSE, 0, {1, 3, 6, 15}, {1, 3, 18}) : g \in {Path, Ring, Fan, Split}}

\* Bottom-up, top-down and bottom-up again: front holds bits of the first phase
\* when the second begins.
Alternating == Search(Undirected(Path), FALSE, 1, {32}, {1})

Searches == SmallGraphs \cup Alternating

\* Vertex 1 has an edge to 0, and 0 has one to 2.
OneWay == Search(Directed({<<1, 0>>, <<0, 2>>, <<2, 0>>}), TRUE, 0, {15}, {18})
=============================================================================
