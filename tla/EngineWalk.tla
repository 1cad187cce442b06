------------------------------ MODULE EngineWalk ------------------------------
(***************************************************************************)
(* What the engine promises the job handler that calls it: the calls of    *)
(* the hooks, in order, and the result.  The nodes are taken in execution  *)
(* order; each is announced, run or skipped, and recorded; a failure, a    *)
(* limit or a request to terminate records the rest as skipped; a hook     *)
(* that throws ends the walk.                                              *)
(*                                                                         *)
(* Module Engine implements this, and so does each handler of module       *)
(* Execution while it is inside executeWorkflow: the two models agree on   *)
(* what passes between them.                                               *)
(***************************************************************************)
EXTENDS Integers

CONSTANT NumNodes       \* nodes of the workflow

VARIABLES
    point,              \* where the walk is
    cursor,             \* nodes it has recorded or skipped; 0 at the end
    outcome,            \* how the node it is about to record ended
    result              \* finalStatus, once no node will run any more

walk == <<point, cursor, outcome, result>>

At(c) == IF c = NumNodes THEN "end" ELSE "stepStart"

Init == point = "begin" /\ cursor = 0 /\ outcome = "completed" /\ result = "completed"

Begin ==
    /\ point = "begin"
    /\ point' = At(0)
    /\ UNCHANGED <<cursor, outcome, result>>

\* The graph is refused, or a hook throws.
GiveUp ==
    /\ \/ point \in {"begin", "stepStart"}
       \/ point = "record" /\ outcome # "skipped"
       \/ point = "skipRest" /\ cursor < NumNodes
    /\ point' = "end"
    /\ outcome' = "completed"
    /\ result' = "failed"
    /\ cursor' = 0

Announce ==
    /\ point = "stepStart"
    /\ point' = "runNode"
    /\ UNCHANGED <<cursor, outcome, result>>

\* A first node has no parents that could make it skipped.
Run ==
    /\ point = "runNode"
    /\ point' = "record"
    /\ outcome' \in {"completed", "failed", "terminate", "limit"} \cup
                    (IF cursor > 0 THEN {"skipped"} ELSE {})
    /\ UNCHANGED <<cursor, result>>

\* The hook throws for a skipped node, which is then recorded as failed.
SkipRefused ==
    /\ point = "record"
    /\ outcome = "skipped"
    /\ outcome' = "failed"
    /\ UNCHANGED <<point, cursor, result>>

Record ==
    /\ point = "record"
    /\ point' = IF outcome \in {"completed", "skipped"} THEN At(cursor + 1) ELSE "skipRest"
    /\ cursor' = IF point' = "end" THEN 0 ELSE cursor + 1
    /\ outcome' = "completed"
    /\ result' = IF outcome \in {"failed", "limit"} THEN "failed" ELSE result

SkipRest ==
    /\ point = "skipRest"
    /\ IF cursor < NumNodes
       THEN cursor' = cursor + 1 /\ UNCHANGED point
       ELSE point' = "end" /\ cursor' = 0
    /\ UNCHANGED <<outcome, result>>

\* The caller takes the result, or its process dies; another walk may follow.
Leave ==
    /\ point # "begin"
    /\ Init'

Next == Begin \/ GiveUp \/ Announce \/ Run \/ SkipRefused \/ Record \/ SkipRest \/ Leave

Spec == Init /\ [][Next]_walk
==============================================================================
