------------------------------- MODULE MCEngine -------------------------------
(* The workflows on which TLC checks the engine. *)
EXTENDS EngineProperties, TLC

NoRetry == [enabled |-> FALSE, maxAttempts |-> 1, onError |-> TRUE, onDirective |-> TRUE,
            failOnMax |-> TRUE, countLoop |-> TRUE]
Retry   == [NoRetry EXCEPT !.enabled = TRUE, !.maxAttempts = 3]
Lenient == [Retry EXCEPT !.maxAttempts = 2, !.onError = FALSE, !.countLoop = FALSE]

\* Every graph whose edges go forward.
Graphs ==
    {[m \in Nodes |-> [n \in Nodes |-> IF m < n THEN g[<<m, n>>] ELSE "none"]] :
        g \in [{p \in Nodes \X Nodes : p[1] < p[2]} -> Conditions]}

\* At most one control node; one policy in the workflow, or one for the last node.
Small ==
    [edge : Graphs,
     kind : {[n \in Nodes |-> IF n = c THEN "control" ELSE "task"] : c \in 0..NumNodes},
     policy : {[n \in Nodes |-> IF n = NumNodes THEN p ELSE q] :
                  p \in {NoRetry, Retry, Lenient}, q \in {NoRetry, Retry}}]

\* Nodes that may ask for more retries than an execution allows.
Eager ==
    [edge : Graphs, kind : [Nodes -> {"task"}],
     policy : [Nodes -> {[Retry EXCEPT !.maxAttempts = 5]}]]
==============================================================================
