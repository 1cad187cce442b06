---------------------------- MODULE ExecutionWaves ----------------------------
(***************************************************************************)
(* buildExecutionWaves (execution-engine.ts): the nodes of the execution   *)
(* order grouped by their level, the length of the longest path that leads *)
(* to them.  The engine walks the waves, but skips by position in the      *)
(* execution order: the two have to agree.                                 *)
(***************************************************************************)
EXTENDS DagValidator, SequencesExt

ParentsOf(n) == {edges[i].source : i \in {j \in DOMAIN edges : edges[j].target = n}}

\* Variant: a node is one level below the first of its parents.
LevelBelowAny(levels, n) ==
    IF ParentsOf(n) = {} THEN 0 ELSE Min({levels[p] + 1 : p \in ParentsOf(n)})

\* One below the deepest parent; a parent without a level yet counts as 0.
LevelBelow(levels, n) == Max({0} \cup {levels[p] + 1 : p \in ParentsOf(n)})

\* The levels after the first k nodes of the order.
LevelsAfter[k \in 0..Len(executionOrder)] ==
    IF k = 0 THEN [n \in NodeIds |-> 0]
    ELSE LET levels == LevelsAfter[k - 1]
             n == executionOrder[k]
         IN  [levels EXCEPT ![n] = LevelBelow(levels, n)]

LevelOf(n) == LevelsAfter[Len(executionOrder)][n]

\* The numbers of a set, from the least to the greatest.
Ascending(S) ==
    CHOOSE f \in [1..Cardinality(S) -> S] : \A i, j \in DOMAIN f : i < j => f[i] < f[j]

\* The nodes of a level, in the order in which the loop over the order pushes them.
Wave(level) ==
    LET places == Ascending({k \in DOMAIN executionOrder : LevelOf(executionOrder[k]) = level})
    IN  [i \in DOMAIN places |-> executionOrder[places[i]]]

Waves ==
    LET used == Ascending({LevelOf(n) : n \in ToSet(executionOrder)})
    IN  [i \in DOMAIN used |-> Wave(used[i])]

WaveOf(n) == CHOOSE i \in DOMAIN Waves : Contains(Waves[i], n)

\* The waves, one after the other, are the execution order itself.  The steps that
\* appendSkippedSteps adds by position in the execution order are therefore exactly
\* the nodes the walk over the waves has not reached.
WavesKeepTheOrder == phase = "done" /\ valid => FlattenSeq(Waves) = executionOrder

\* "A wave contains nodes whose prerequisites are satisfied": each node comes in the
\* wave after the last of its parents'.
WavesAreReady ==
    phase = "done" /\ valid =>
        \A n \in NodeIds : WaveOf(n) = Max({0} \cup {WaveOf(p) : p \in ParentsOf(n)}) + 1
==============================================================================
