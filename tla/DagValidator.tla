----------------------------- MODULE DagValidator -----------------------------
(***************************************************************************)
(* validateDAG (dag-validator.ts), which every execution and every saved   *)
(* workflow goes through: the edges are read into an adjacency list and a  *)
(* count of incoming edges, and Kahn's algorithm takes the nodes that have *)
(* no incoming edge left from a queue.  One action is one turn of a loop.  *)
(*                                                                         *)
(* The edges of a workflow are a list drawn by a user: an edge may occur   *)
(* twice, start and end at the same node, or name a node that is gone.     *)
(*                                                                         *)
(* The names leave room for those of the engine beside them.               *)
(***************************************************************************)
EXTENDS Integers, Sequences, FiniteSets

CONSTANTS
    NodeList,       \* ids of the nodes, in the order of the workflow
    Unknown,        \* an id that no node has
    MaxEdges        \* bound: length of the list of edges

NodeIds == {NodeList[i] : i \in DOMAIN NodeList}

ASSUME GraphAssumption ==
    /\ NodeList \in Seq(NodeIds)
    /\ \A i, j \in DOMAIN NodeList : NodeList[i] = NodeList[j] => i = j
    /\ Unknown \notin NodeIds
    /\ MaxEdges \in Nat

Edge == [source : NodeIds \cup {Unknown}, target : NodeIds \cup {Unknown}]

VARIABLES
    edges,          \* the list of edges, an input
    phase,          \* "edges", "seed", "sort" or "done"
    next,           \* index of the edge to read, or of the node to queue
    adjacency,      \* edges that leave each node, by index
    inDegree,       \* incoming edges not yet taken away
    errors,         \* whether an edge was refused
    queue, executionOrder,
    neighbors,      \* edges of the current node not yet taken away
    valid           \* the answer

dagVars == <<edges, phase, next, adjacency, inDegree, errors, queue, executionOrder,
             neighbors, valid>>

Known(e) == e.source \in NodeIds /\ e.target \in NodeIds /\ e.source # e.target

DagInit ==
    /\ \E k \in 0..MaxEdges : edges \in [1..k -> Edge]
    /\ phase = "edges"
    /\ next = 1
    /\ adjacency = [n \in NodeIds |-> <<>>]
    /\ inDegree = [n \in NodeIds |-> 0]
    /\ errors = FALSE
    /\ queue = <<>>
    /\ executionOrder = <<>>
    /\ neighbors = <<>>
    /\ valid = FALSE

\* An edge that names an unknown node or its own source is an error, and is left out.
ReadEdge ==
    /\ phase = "edges"
    /\ next <= Len(edges)
    /\ next' = next + 1
    /\ LET e == edges[next] IN
          IF Known(e)
          THEN /\ adjacency' = [adjacency EXCEPT ![e.source] = Append(@, next)]
               /\ inDegree' = [inDegree EXCEPT ![e.target] = @ + 1]
               /\ UNCHANGED errors
          ELSE /\ errors' = TRUE
               /\ UNCHANGED <<adjacency, inDegree>>
    /\ UNCHANGED <<edges, phase, queue, executionOrder, neighbors, valid>>

\* With an error the graph is refused.
CheckEdges ==
    /\ phase = "edges"
    /\ next > Len(edges)
    /\ phase' = IF errors THEN "done" ELSE "seed"
    /\ next' = 1
    /\ UNCHANGED <<edges, adjacency, inDegree, errors, queue, executionOrder, neighbors, valid>>

\* The nodes without incoming edges are queued, in the order of the list of nodes.
Seed ==
    /\ phase = "seed"
    /\ next <= Len(NodeList)
    /\ next' = next + 1
    /\ queue' = IF inDegree[NodeList[next]] = 0 THEN Append(queue, NodeList[next]) ELSE queue
    /\ UNCHANGED <<edges, phase, adjacency, inDegree, errors, executionOrder, neighbors, valid>>

\* The queue is complete: the walk begins.
Sort ==
    /\ phase = "seed"
    /\ next > Len(NodeList)
    /\ phase' = "sort"
    /\ UNCHANGED <<edges, next, adjacency, inDegree, errors, queue, executionOrder, neighbors,
                   valid>>

\* Variant: the node is taken from the end of the queue.
ShiftLast ==
    /\ phase = "sort"
    /\ neighbors = <<>>
    /\ queue # <<>>
    /\ executionOrder' = Append(executionOrder, queue[Len(queue)])
    /\ queue' = SubSeq(queue, 1, Len(queue) - 1)
    /\ neighbors' = adjacency[queue[Len(queue)]]
    /\ UNCHANGED <<edges, phase, next, adjacency, inDegree, errors, valid>>

\* The first node of the queue comes next in the order.
Shift ==
    /\ phase = "sort"
    /\ neighbors = <<>>
    /\ queue # <<>>
    /\ executionOrder' = Append(executionOrder, Head(queue))
    /\ queue' = Tail(queue)
    /\ neighbors' = adjacency[Head(queue)]
    /\ UNCHANGED <<edges, phase, next, adjacency, inDegree, errors, valid>>

\* An edge of the node just taken goes; its target is queued when it was the last.
Relax ==
    /\ neighbors # <<>>
    /\ LET neighbor == edges[Head(neighbors)].target IN
          /\ inDegree' = [inDegree EXCEPT ![neighbor] = @ - 1]
          /\ queue' = IF inDegree[neighbor] = 1 THEN Append(queue, neighbor) ELSE queue
    /\ neighbors' = Tail(neighbors)
    /\ UNCHANGED <<edges, phase, next, adjacency, errors, executionOrder, valid>>

\* Variant: the number of nodes in the order is not compared.
FinishUncounted ==
    /\ phase = "sort"
    /\ neighbors = <<>>
    /\ queue = <<>>
    /\ phase' = "done"
    /\ valid' = TRUE
    /\ UNCHANGED <<edges, next, adjacency, inDegree, errors, queue, executionOrder, neighbors>>

\* The queue is empty: the graph has a cycle unless every node was taken.
Finish ==
    /\ phase = "sort"
    /\ neighbors = <<>>
    /\ queue = <<>>
    /\ phase' = "done"
    /\ valid' = (Len(executionOrder) = Cardinality(NodeIds))
    /\ executionOrder' = IF valid' THEN executionOrder ELSE <<>>
    /\ UNCHANGED <<edges, next, adjacency, inDegree, errors, queue, neighbors>>

DagNext == ReadEdge \/ CheckEdges \/ Seed \/ Sort \/ Shift \/ Relax \/ Finish

DagSpec == DagInit /\ [][DagNext]_dagVars

(***************************************************************************)
(* What the answer should be.                                              *)
(***************************************************************************)
\* Every edge joins two different nodes, and in every set of nodes there is one no
\* edge from the set leads to: a definition of acyclic without paths.
Acyclic ==
    /\ \A i \in DOMAIN edges : Known(edges[i])
    /\ \A S \in SUBSET NodeIds : S # {} =>
          \E n \in S : \A i \in DOMAIN edges : edges[i].target = n => edges[i].source \notin S

\* A workflow is accepted exactly when it is a directed acyclic graph, whatever
\* edges occur twice.
ValidIffAcyclic == phase = "done" => (valid <=> Acyclic)

\* The order of an accepted workflow has each node once, after the nodes with an edge to
\* it: what the walk of the engine takes for granted.
OrderLeadsForward ==
    phase = "done" /\ valid =>
        /\ \A n \in NodeIds : \E k \in DOMAIN executionOrder : executionOrder[k] = n
        /\ \A j, k \in DOMAIN executionOrder : executionOrder[j] = executionOrder[k] => j = k
        /\ \A i \in DOMAIN edges : \A j, k \in DOMAIN executionOrder :
              executionOrder[j] = edges[i].source /\ executionOrder[k] = edges[i].target => j < k

==============================================================================
