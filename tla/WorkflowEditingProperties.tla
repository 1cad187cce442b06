---------------------- MODULE WorkflowEditingProperties ----------------------
(* What scores and fixes promise while the workflow is edited.             *)
EXTENDS WorkflowEditing

(* The step in which a fix writes the graph it has made of the one it read.*)
Fixes(k) == pc[k] = "write" /\ pc'[k] = "readGraph" /\ graph' # None

(* A fix closes the gaps it was asked to close on its node, and opens none *)
(* on any node there was: with each check passed in addition the total grows.  The   *)
(* insertion of an anonymiser is the exception: its check looks at the     *)
(* configuration of the node, which the fix does not change                *)
(* (scorer.ts:191-193, rex-autofix.service.ts:156-176).                    *)
FixHelps ==
    [][\A k \in Requests : Fixes(k) =>
          LET before(n) == Passed(read[k], n, setting)
              after(n) == Passed(graph', n, setting)
          IN  /\ AutoFixes(after(target[k])) \cap actions[k]
                    \subseteq {"INSERT_PII_ANONYMISER_DOWNSTREAM"}
              /\ \A n \in Present(read[k]) :
                    /\ before(n) \subseteq after(n)
                    /\ before(n) # after(n) => Total(before(n)) < Total(after(n))]_vars

(* What validateDAG accepts: edges join nodes, and no set of nodes is      *)
(* closed under having a predecessor (dag-validator.ts).                   *)
Valid(g) ==
    /\ \A e \in g.edges : {e.source, e.target} \subseteq Present(g)
    /\ \A S \in (SUBSET Present(g)) \ {{}} : \E n \in S : Parents(g, {n}) \cap S = {}

(* A fix of a workflow that validateDAG accepts leaves one it accepts,     *)
(* however many fixes came before and whatever they inserted.  That is not *)
(* to say it runs: the engine fails at an inserted helper, whose type it   *)
(* does not know (nodes/index.ts:31-55).                                   *)
FixKeepsItValid ==
    [][\A k \in Requests : Fixes(k) /\ Valid(read[k]) => Valid(graph')]_vars

(* A scoring nobody interfered with has stored, when it ends, the score of *)
(* each node of the graph as it is: also where the graph was saved between *)
(* the write of a fix and its scoring (rex-autofix.service.ts:350).        *)
ScoresAreOfTheGraph ==
    [][\A k \in Requests :
          pc[k] = "upsert" /\ pc'[k] = "idle" /\ calm[k] /\ graph # None
            => \A n \in Present(graph) : scores'[n] = Passed(graph, n, setting)]_vars

(* docs/LLD.md:44 says a fix mutates the graph "with autofix helper        *)
(* nodes/flags": what was in the graph stays in it.                        *)
FixOnlyAdds ==
    [][\A k \in Requests : Fixes(k) =>
          /\ Present(read[k]) \subseteq Present(graph')
          /\ read[k].edges \subseteq graph'.edges]_vars
=============================================================================
