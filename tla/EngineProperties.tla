--------------------------- MODULE EngineProperties ---------------------------
(* What the walk of module Engine should do. *)
EXTENDS Engine, FiniteSetsExt

\* Even a hook that throws leaves at most one node recorded twice: the skipped one
\* whose hook threw, as skipped and then as failed.
TwiceOnlyIfSkipped ==
    \A i, j \in DOMAIN steps : i < j /\ steps[i].node = steps[j].node =>
        j = i + 1 /\ steps[i].status = "skipped" /\ steps[j].status = "failed"

\* An execution reported completed had no failed step, has a step for each node, and
\* ends within its limits.
CompletedIsClean ==
    pc = "done" /\ finalStatus = "completed" =>
        /\ Len(steps) = NumNodes
        /\ \A i \in DOMAIN steps : steps[i].status # "failed"
        /\ ~Exceeded(control)

\* The nodes that a chain of satisfied edges leads to from a root that ran.
Reached[n \in Nodes] ==
    /\ output[n] # "none"
    /\ Parents(n) = {} \/ \E m \in Parents(n) : Satisfied(m, n) /\ Reached[m]

\* A completed execution that nobody terminated ran exactly the nodes on the branches
\* taken: each root, each node with a satisfied edge from a node that ran, no other.
BranchesDecide ==
    pc = "done" /\ finalStatus = "completed" /\ ~control.terminate =>
        \A n \in Nodes :
            /\ output[n] # "none" <=> Reached[n]
            /\ output[n] # "none" <=> steps[n].status = "completed"
            /\ output[n] = "none" =>
                  Parents(n) # {} /\ \A m \in Parents(n) : ~Satisfied(m, n)

\* Without control nodes that move the counters, all nodes together are executed again
\* at most maxRetries times in an execution, whatever their own policies allow.
Reruns == MapThenSumSet(LAMBDA n : IF runs[n] = 0 THEN 0 ELSE runs[n] - 1, Nodes)

RerunsWithinLimit == (\A n \in Nodes : wf.kind[n] = "task") => Reruns <= MaxRetries

\* The walk ends, whatever the nodes and the hooks answer.
Ends == <>(pc = "done")

(***************************************************************************)
(* The engine implements the walk its caller relies on.                    *)
(***************************************************************************)
WalkPoint ==
    CASE pc = "plan" -> "begin"
      [] pc = "start" -> "stepStart"
      [] pc \in {"resolve", "attempt", "caught"} -> "runNode"
      [] pc \in {"skipHook", "record"} -> "record"
      [] pc = "skipRest" -> "skipRest"
      [] pc = "done" -> "end"

\* Nodes dealt with: up to the current one while the rest is skipped, up to the one
\* before while the current one has its turn.
WalkCursor ==
    CASE WalkPoint \in {"stepStart", "runNode", "record"} -> current - 1
      [] WalkPoint = "skipRest" -> current
      [] OTHER -> 0

WalkOutcome ==
    CASE WalkPoint # "record" -> "completed"
      [] WalkPoint = "record" /\ outcome = "completed" /\ Exceeded(control) -> "limit"
      [] WalkPoint = "record" /\ outcome = "completed" /\ ~Exceeded(control)
            /\ control.terminate -> "terminate"
      [] OTHER -> outcome

WalkResult == IF WalkPoint \in {"skipRest", "end"} THEN finalStatus ELSE "completed"

Walk == INSTANCE EngineWalk WITH
            point <- WalkPoint, cursor <- WalkCursor, outcome <- WalkOutcome,
            result <- WalkResult

\* Every run of the engine is a walk as its caller sees it.
ImplementsWalk == Walk!Spec
==============================================================================
