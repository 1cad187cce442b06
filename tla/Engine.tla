-------------------------------- MODULE Engine --------------------------------
(***************************************************************************)
(* executeWorkflow (execution-engine.ts): the walk over the nodes of one   *)
(* workflow, with the retries of a node, the counters that limit them, the *)
(* conditions on the edges and the hooks of the caller.  One action is     *)
(* what happens up to the next await on a node or a hook.                  *)
(*                                                                         *)
(* A node is known by its place in the execution order.  A node of kind    *)
(* "control" is an ExecutionControlNode (execution-control.ts), the one    *)
(* node type that changes the control state; a "task" is any other node,   *)
(* which returns an output, asks for a retry (evaluation.ts, llm.ts) or    *)
(* throws.                                                                 *)
(***************************************************************************)
EXTENDS Integers, Sequences

CONSTANTS
    NumNodes,       \* nodes of a workflow
    Workflows,      \* the workflows to be executed
    Values,         \* values in the configuration of control nodes
    MaxRetries,     \* control.maxRetries at the start
    MaxLoops        \* control.maxLoops at the start

Nodes == 1..NumNodes

Conditions == {"none", "always", "route"}
Policies == [enabled : BOOLEAN, maxAttempts : Nat \ {0}, onError : BOOLEAN,
             onDirective : BOOLEAN, failOnMax : BOOLEAN, countLoop : BOOLEAN]

\* edge[m][n] is the condition of the edge from m to n, "none" without an edge.
Workflow == [edge : [Nodes -> [Nodes -> Conditions]],
             kind : [Nodes -> {"task", "control"}],
             policy : [Nodes -> Policies]]

ASSUME EngineAssumption ==
    /\ NumNodes \in Nat
    /\ Workflows \subseteq Workflow
    /\ \A w \in Workflows : \A m, n \in Nodes : w.edge[m][n] # "none" => m < n
    /\ Values \subseteq Nat
    /\ MaxRetries \in Nat
    /\ MaxLoops \in Nat

VARIABLES
    wf,             \* the workflow, an input
    pc,             \* what the engine does next
    current,        \* the node it is at, or the last one it was at
    attempt,        \* attempts of the current node
    attempts,       \* what was noted of them
    output,         \* outputMap: whether an output takes the routed edges
    control,        \* executionContext.control
    outcome,        \* stepStatus of the current node
    steps,          \* the results recorded so far
    finalStatus,
    runs,           \* history: how often each node was executed
    hookThrew       \* history: a hook has thrown

vars == <<wf, pc, current, attempt, attempts, output, control, outcome, steps, finalStatus,
          runs, hookThrew>>

Points == {"plan", "start", "resolve", "skipHook", "attempt", "caught", "record", "skipRest",
           "done"}
StepStatuses == {"completed", "failed", "skipped"}
Control == [retryCount : Nat, loopCount : Nat, maxRetries : Nat, maxLoops : Nat,
            terminate : BOOLEAN]

TypeOK ==
    /\ wf \in Workflows
    /\ pc \in Points
    /\ current \in 0..NumNodes
    /\ attempt \in Nat
    /\ pc = "attempt" => attempt < wf.policy[current].maxAttempts
    /\ attempts \in Seq([attempt : Nat, status : {"completed", "retry", "failed"}])
    /\ output \in [Nodes -> {"none", "plain", "routed"}]
    /\ control \in Control
    /\ outcome \in StepStatuses
    /\ steps \in Seq([node : Nodes, status : StepStatuses])
    /\ finalStatus \in {"completed", "failed"}
    /\ runs \in [Nodes -> Nat]
    /\ hookThrew \in BOOLEAN

Init ==
    /\ wf \in Workflows
    /\ pc = "plan"
    /\ current = 0
    /\ attempt = 0
    /\ attempts = <<>>
    /\ output = [n \in Nodes |-> "none"]
    /\ control = [retryCount |-> 0, loopCount |-> 0, maxRetries |-> MaxRetries,
                  maxLoops |-> MaxLoops, terminate |-> FALSE]
    /\ outcome = "completed"
    /\ steps = <<>>
    /\ finalStatus = "completed"
    /\ runs = [n \in Nodes |-> 0]
    /\ hookThrew = FALSE

Policy == wf.policy[current]

\* getControlLimitViolation.
Exceeded(c) == c.retryCount > c.maxRetries \/ c.loopCount > c.maxLoops

\* registerNodeRetry.
Retried(c, countLoop) ==
    [c EXCEPT !.retryCount = @ + 1, !.loopCount = IF countLoop THEN @ + 1 ELSE @]

Parents(n) == {m \in Nodes : wf.edge[m][n] # "none"}

\* A parent that ran and whose output satisfies the condition of the edge.
Satisfied(m, n) ==
    \/ wf.edge[m][n] = "always" /\ output[m] # "none"
    \/ wf.edge[m][n] = "route" /\ output[m] = "routed"

(***************************************************************************)
(* How a node's turn ends.                                                 *)
(***************************************************************************)
\* The next node's turn, with its own count of attempts, or the end.
Advance ==
    /\ current' = IF current = NumNodes THEN current ELSE current + 1
    /\ pc' = IF current = NumNodes THEN "done" ELSE "start"
    /\ attempt' = 0
    /\ attempts' = <<>>

\* The catch block around a node's turn: whatever was thrown in it fails the node
\* and the execution, and counts as one more retry.
FailNode(c) ==
    /\ outcome' = "failed"
    /\ finalStatus' = "failed"
    /\ control' = [c EXCEPT !.terminate = TRUE, !.retryCount = @ + 1]
    /\ pc' = "record"

\* The catch block around the walk: a hook threw, and there are no more steps.
Abort ==
    /\ hookThrew' = TRUE
    /\ finalStatus' = "failed"
    /\ control' = [control EXCEPT !.terminate = TRUE]
    /\ pc' = "done"

(***************************************************************************)
(* The walk.                                                               *)
(***************************************************************************)
\* validateDAG accepts the graph.
Plan ==
    /\ pc = "plan"
    /\ Advance
    /\ UNCHANGED <<wf, output, control, outcome, steps, finalStatus, runs, hookThrew>>

\* validateDAG refuses the graph.
Reject ==
    /\ pc = "plan"
    /\ finalStatus' = "failed"
    /\ control' = [control EXCEPT !.terminate = TRUE]
    /\ pc' = "done"
    /\ UNCHANGED <<wf, current, attempt, attempts, output, outcome, steps, runs, hookThrew>>

\* onStepStart.
StepStart ==
    /\ pc = "start"
    /\ \/ /\ pc' = "resolve"
          /\ UNCHANGED <<control, finalStatus, hookThrew>>
       \/ Abort
    /\ UNCHANGED <<wf, current, attempt, attempts, output, outcome, steps, runs>>

\* The node's type is unknown, its configuration invalid, or its retrieval fails.
Refuse ==
    /\ pc = "resolve"
    /\ FailNode(control)
    /\ UNCHANGED <<wf, current, attempt, attempts, output, steps, runs, hookThrew>>

\* No parent satisfies its edge to the node.
SkipNode ==
    /\ pc = "resolve"
    /\ Parents(current) # {}
    /\ \A m \in Parents(current) : ~Satisfied(m, current)
    /\ steps' = Append(steps, [node |-> current, status |-> "skipped"])
    /\ outcome' = "skipped"
    /\ pc' = "skipHook"
    /\ UNCHANGED <<wf, current, attempt, attempts, output, control, finalStatus, runs, hookThrew>>

\* onStepComplete for a skipped node, called inside the node's try block.
SkipHook ==
    /\ pc = "skipHook"
    /\ \/ Advance /\ UNCHANGED <<control, finalStatus, outcome, hookThrew>>
       \/ FailNode(control) /\ hookThrew' = TRUE /\ UNCHANGED <<current, attempt, attempts>>
    /\ UNCHANGED <<wf, output, steps, runs>>

\* Variant: a node runs unless one of its edges is unsatisfied.
ResolveAll ==
    /\ pc = "resolve"
    /\ \A m \in Parents(current) : wf.edge[m][current] = "route" => Satisfied(m, current)
    /\ pc' = "attempt"
    /\ UNCHANGED <<wf, current, attempt, attempts, output, control, outcome, steps, finalStatus,
                   runs, hookThrew>>

\* A root, or a node that some parent leads to.
Resolve ==
    /\ pc = "resolve"
    /\ Parents(current) = {} \/ \E m \in Parents(current) : Satisfied(m, current)
    /\ pc' = "attempt"
    /\ UNCHANGED <<wf, current, attempt, attempts, output, control, outcome, steps, finalStatus,
                   runs, hookThrew>>

(***************************************************************************)
(* The attempts of a node.                                                 *)
(***************************************************************************)
Note(status) == attempts' = Append(attempts, [attempt |-> attempt', status |-> status])

Executed ==
    /\ pc = "attempt"
    /\ attempt' = attempt + 1
    /\ runs' = [runs EXCEPT ![current] = @ + 1]

HeedsDirective == Policy.enabled /\ Policy.onDirective

\* The node returns, and its output is kept.  A directive to retry is ignored when
\* the policy says so, or when no attempt is left and the policy lets it pass.
Succeed ==
    /\ Executed
    /\ wf.kind[current] = "task"
    /\ Note("completed")
    /\ \E o \in {"plain", "routed"} : output' = [output EXCEPT ![current] = o]
    /\ outcome' = "completed"
    /\ pc' = "record"
    /\ UNCHANGED <<wf, current, control, steps, finalStatus, hookThrew>>

\* Variant: the limits of the execution are not looked at.
AskRetryUnlimited ==
    /\ Executed
    /\ wf.kind[current] = "task"
    /\ HeedsDirective
    /\ attempt' < Policy.maxAttempts
    /\ control' = Retried(control, Policy.countLoop)
    /\ Note("retry")
    /\ pc' = "attempt"
    /\ UNCHANGED <<wf, current, output, outcome, steps, finalStatus, hookThrew>>

\* The node returns with a directive to retry, and an attempt is left: it is
\* counted, and thrown over when a limit is passed.
AskRetry ==
    /\ Executed
    /\ wf.kind[current] = "task"
    /\ HeedsDirective
    /\ attempt' < Policy.maxAttempts
    /\ control' = Retried(control, Policy.countLoop)
    /\ Note("retry")
    /\ pc' = IF Exceeded(control') THEN "caught" ELSE "attempt"
    /\ UNCHANGED <<wf, current, output, outcome, steps, finalStatus, hookThrew>>

\* The node throws, or asks for one retry too many.
AttemptThrows ==
    /\ Executed
    /\ wf.kind[current] = "task"
    /\ pc' = "caught"
    /\ UNCHANGED <<wf, current, attempts, output, control, outcome, steps, finalStatus, hookThrew>>

\* buildControlPatch.
Patched(c) ==
    UNION {
        {[c EXCEPT !.retryCount = @ + v] : v \in Values},
        {[c EXCEPT !.loopCount = @ + v] : v \in Values},
        {[c EXCEPT !.maxRetries = IF v = 0 THEN 1 ELSE v] : v \in Values},
        {[c EXCEPT !.maxLoops = IF v = 0 THEN 1 ELSE v] : v \in Values},
        {[c EXCEPT !.retryCount = 0], [c EXCEPT !.loopCount = 0],
         [c EXCEPT !.terminate = TRUE], [c EXCEPT !.terminate = FALSE]}}

\* A control node passes its input on.
RunControl ==
    /\ Executed
    /\ wf.kind[current] = "control"
    /\ control' \in Patched(control)
    /\ Note("completed")
    /\ \E o \in {"plain", "routed"} : output' = [output EXCEPT ![current] = o]
    /\ outcome' = "completed"
    /\ pc' = "record"
    /\ UNCHANGED <<wf, current, steps, finalStatus, hookThrew>>

\* Variant: the number of attempts is not compared.
AttemptErrorUnbounded ==
    /\ pc = "caught"
    /\ attempts' = Append(attempts, [attempt |-> attempt, status |-> "failed"])
    /\ pc' = "attempt"
    /\ UNCHANGED <<wf, current, attempt, output, control, outcome, steps, finalStatus, runs, hookThrew>>

\* The catch block around an attempt: another one, when the policy and the limits
\* of the execution allow it.  What the attempt itself threw over a limit is caught
\* here as well, and counted again.
AttemptError ==
    /\ pc = "caught"
    /\ attempts' = Append(attempts, [attempt |-> attempt, status |-> "failed"])
    /\ IF Policy.enabled /\ Policy.onError /\ attempt < Policy.maxAttempts
       THEN LET counted == Retried(control, FALSE) IN
            \/ Exceeded(counted) /\ FailNode(counted)
            \/ /\ ~Exceeded(counted)
               /\ control' = counted
               /\ pc' = "attempt"
               /\ UNCHANGED <<outcome, finalStatus>>
       ELSE FailNode(control)
    /\ UNCHANGED <<wf, current, attempt, output, steps, runs, hookThrew>>

(***************************************************************************)
(* After a node's turn.                                                    *)
(***************************************************************************)
\* Variant: a failed node does not end the walk.
RecordAndGoOn ==
    /\ pc = "record"
    /\ steps' = Append(steps, [node |-> current, status |-> outcome])
    /\ Advance
    /\ UNCHANGED <<wf, output, control, outcome, runs, finalStatus, hookThrew>>

\* The step is kept and handed to onStepComplete; then a limit, a request to
\* terminate or a failure ends the walk.
Record ==
    /\ pc = "record"
    /\ steps' = Append(steps, [node |-> current, status |-> outcome])
    /\ \/ Abort /\ UNCHANGED <<current, attempt, attempts>>
       \/ /\ outcome = "completed" /\ Exceeded(control)
          /\ finalStatus' = "failed"
          /\ control' = [control EXCEPT !.terminate = TRUE]
          /\ pc' = "skipRest"
          /\ UNCHANGED <<current, attempt, attempts, hookThrew>>
       \/ /\ outcome = "completed" => ~Exceeded(control) /\ control.terminate
          /\ pc' = "skipRest"
          /\ UNCHANGED <<current, attempt, attempts, control, finalStatus, hookThrew>>
       \/ /\ outcome = "completed" /\ ~Exceeded(control) /\ ~control.terminate
          /\ Advance
          /\ UNCHANGED <<control, finalStatus, hookThrew>>
    /\ UNCHANGED <<wf, output, outcome, runs>>

\* Variant: the node that ended the walk is among those skipped.
SkipRestInclusive ==
    /\ pc = "skipRest"
    /\ steps' = Append(steps, [node |-> current, status |-> "skipped"])
    /\ current' = IF current = NumNodes THEN current ELSE current + 1
    /\ pc' = IF current = NumNodes THEN "done" ELSE "skipRest"
    /\ UNCHANGED <<wf, attempt, attempts, output, control, outcome, runs, finalStatus, hookThrew>>

\* Variant: the loop over the remaining nodes has no end.
SkipRestForever ==
    /\ pc = "skipRest"
    /\ current < NumNodes
    /\ current' = current + 1
    /\ steps' = Append(steps, [node |-> current', status |-> "skipped"])
    /\ UNCHANGED <<wf, pc, attempt, attempts, output, control, outcome, runs, finalStatus,
                   hookThrew>>

\* appendSkippedSteps: one more node that was not reached, or the end.
SkipRest ==
    /\ pc = "skipRest"
    /\ \/ /\ current < NumNodes
          /\ current' = current + 1
          /\ steps' = Append(steps, [node |-> current', status |-> "skipped"])
          /\ \/ Abort
             \/ UNCHANGED <<pc, control, finalStatus, hookThrew>>
       \/ /\ current = NumNodes
          /\ pc' = "done"
          /\ UNCHANGED <<current, steps, control, finalStatus, hookThrew>>
    /\ UNCHANGED <<wf, attempt, attempts, output, outcome, runs>>

Next ==
    \/ Plan \/ Reject \/ StepStart \/ Refuse \/ SkipNode \/ SkipHook \/ Resolve
    \/ Succeed \/ AskRetry \/ AttemptThrows \/ RunControl \/ AttemptError
    \/ Record \/ SkipRest

Spec == Init /\ [][Next]_vars

\* Nodes and hooks answer, one way or another, and the function runs on.
FairSpec == Spec /\ WF_vars(Next)
==============================================================================
