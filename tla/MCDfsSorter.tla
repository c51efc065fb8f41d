---------------------------- MODULE MCDfsSorter ----------------------------
(***************************************************************************)
(* The search alone, on every graph of three inner configurations and a     *)
(* target: dead ends, cycles, moves that undo each other, targets that no   *)
(* move reaches.  A configuration is a node of its graph; the generator     *)
(* yields a move to every node, the target last, after one that would leave *)
(* the graph; the validators accept those the graph has an edge for.        *)
(***************************************************************************)
EXTENDS DfsSorter

Goal == 4
Inner == 1..(Goal - 1)
Nodes == 1..Goal

Graphs == {g \in [Inner -> SUBSET Nodes] : \A n \in Inner : n \notin g[n]}

MCConfigs == [node : Nodes, graph : Graphs]
Outside == 0
MCMoves == {Outside} \cup Nodes
MCProblems ==
    {<<[node |-> n, graph |-> g], [node |-> Goal, graph |-> g]>> : n \in {1, Goal}, g \in Graphs}

EveryNode(c, t) == [n \in 1..(Goal + 1) |-> n - 1]
HasEdge(m, c, t) == c.node # Goal /\ m \in c.graph[c.node]
Follow(m, c) == [c EXCEPT !.node = m]

============================================================================
