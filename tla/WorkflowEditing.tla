--------------------------- MODULE WorkflowEditing ---------------------------
(***************************************************************************)
(* One workflow while its editors save it (workflow.service.ts), ask for   *)
(* the scores of its nodes and apply fixes (rex-autofix.service.ts).       *)
(*                                                                         *)
(* A save is one UPDATE that counts the version in the database.  A fix is *)
(* a SELECT and an UPDATE with what was read: graph and version.  Scoring, *)
(* alone or after a fix, is a SELECT of the graph, one of the retention    *)
(* policy, one of the manifests and an upsert for each node, all on their  *)
(* own.                                                                    *)
(***************************************************************************)
EXTENDS RexScorer

CONSTANTS
    Requests,       \* requests for scores or fixes at work at once
    Starts,         \* graphs a workflow is created with
    None,           \* no graph, no node
    MaxSaves,       \* bound: saves
    Asked,          \* bound: the sets of actions a request may ask for
    MaxRequests,    \* bound: requests
    Switchable,     \* bound: types whose manifest an administrator may switch
    MaxSettings     \* bound: changes of the settings

ASSUME EditingAssumption ==
    /\ Asked \subseteq (SUBSET Actions) \ {{}}
    /\ Ids \subseteq Nat /\ IsFiniteSet(Ids) /\ \A n \in Nodes, h \in Helpers : n < h
    /\ {HelperType[a] : a \in Inserts} \cup LawfulBasis \cup Personal \subseteq Slugs \ {"none"}
    /\ None \notin Ids \cup Graphs \cup Requests
    /\ \A g \in Starts : g \in Graphs /\ Present(g) \subseteq Nodes
    /\ Switchable \subseteq Slugs
    /\ {MaxSaves, MaxRequests, MaxSettings} \subseteq Nat

VARIABLES
    (* the database *)
    graph, version, \* the row of the workflow; graph = None once it is deleted
    scores,         \* the checks a stored score says passed, or None
    setting,        \* retention policy of the tenant, active manifests
    (* a request *)
    pc, target, actions, read, readVersion, policy, todo,
    (* history *)
    issued,         \* ids given to helper nodes so far
    calm,           \* nobody has interfered since the request began to score
    saves, requests, settings

row     == <<graph, version>>
request == <<pc, target, actions, read, readVersion, policy, todo>>
history == <<issued, calm, saves, requests, settings>>
vars == <<row, scores, setting, request, history>>

(* What a request knows of the settings before it has read any. *)
NoPolicy == [retention |-> FALSE, active |-> {}]

Init ==
    /\ graph \in Starts /\ version = 1
    /\ scores = [x \in Ids |-> None]
    /\ setting = [retention |-> FALSE, active |-> Slugs]
    /\ pc = [k \in Requests |-> "idle"] /\ target = [k \in Requests |-> None]
    /\ actions = [k \in Requests |-> {}] /\ read = [k \in Requests |-> None]
    /\ readVersion = [k \in Requests |-> 0] /\ policy = [k \in Requests |-> NoPolicy]
    /\ todo = [k \in Requests |-> {}]
    /\ issued = {} /\ calm = [k \in Requests |-> TRUE] /\ saves = 0 /\ requests = 0 /\ settings = 0

(* Who has read the graph and not yet stored the last score. *)
Scoring(k) == pc[k] \in {"readPolicy", "readManifests", "upsert"}
Disturb(k) == calm' = [j \in Requests |-> calm[j] /\ (j = k \/ ~Scoring(j))]

-----------------------------------------------------------------------------
(* The editors. *)

(* What an editor may do to a graph before saving it: a node is removed    *)
(* with its edges, or given a weighty decision; an edge to it is drawn, or *)
(* an edge is removed.                                                     *)
Without(g, x) ==
    [type |-> [g.type EXCEPT ![x] = "none"], config |-> [g.config EXCEPT ![x] = {}],
     edges |-> {e \in g.edges : x \notin {e.source, e.target}}]
Configured(g, x) == [g EXCEPT !.config[x] = @ \cup {"highImpact"}]
WithEdges(g, edges) == [g EXCEPT !.edges = edges]

Edits(g) ==
    {Without(g, x) : x \in Present(g)}
    \cup {Configured(g, x) : x \in Present(g) \cap Nodes}
    \cup {WithEdges(g, g.edges \cup {Edge(s, t)}) : s \in Present(g), t \in Present(g) \cap Nodes}
    \cup {WithEdges(g, g.edges \ {e}) : e \in g.edges}

(* update: a save of nodes and edges. *)
Save ==
    /\ graph # None
    /\ saves < MaxSaves /\ saves' = saves + 1
    /\ graph' \in {g \in Edits(graph) : Present(g) # {}}
    /\ version' = version + 1
    /\ Disturb(None)
    /\ UNCHANGED <<scores, setting, request, issued, requests, settings>>

(* The scores go with the workflow. *)
Delete ==
    /\ graph # None
    /\ graph' = None
    /\ scores' = [x \in Ids |-> None]
    /\ Disturb(None)
    /\ UNCHANGED <<version, setting, request, issued, saves, requests, settings>>

SetRetention ==
    /\ settings < MaxSettings /\ settings' = settings + 1
    /\ setting' = [setting EXCEPT !.retention = ~@]
    /\ Disturb(None)
    /\ UNCHANGED <<row, scores, request, issued, saves, requests>>

(* An administrator withdraws a plugin or brings it back. *)
SwitchManifest(slug) ==
    /\ settings < MaxSettings /\ settings' = settings + 1
    /\ setting' = [setting EXCEPT !.active = IF slug \in @ THEN @ \ {slug} ELSE @ \cup {slug}]
    /\ Disturb(None)
    /\ UNCHANGED <<row, scores, request, issued, saves, requests>>

-----------------------------------------------------------------------------
(* Requests. *)

Goto(k, next) == pc' = [pc EXCEPT ![k] = next]

(* What was asked for and read for it is not needed any more. *)
Forget(k) ==
    /\ target' = [target EXCEPT ![k] = None] /\ actions' = [actions EXCEPT ![k] = {}]
    /\ readVersion' = [readVersion EXCEPT ![k] = 0]

(* The request has ended, with an answer or an error. *)
End(k) ==
    /\ Goto(k, "idle")
    /\ Forget(k) /\ read' = [read EXCEPT ![k] = None]
    /\ policy' = [policy EXCEPT ![k] = NoPolicy] /\ todo' = [todo EXCEPT ![k] = {}]

Counted == requests < MaxRequests /\ requests' = requests + 1

AskForScores(k) ==
    /\ pc[k] = "idle" /\ graph # None /\ Counted
    /\ Goto(k, "readGraph")
    /\ UNCHANGED <<row, scores, setting, target, actions, read, readVersion,
                   policy, todo, issued, calm, saves, settings>>

AskForFixes(k, n, wanted) ==
    /\ pc[k] = "idle" /\ graph # None /\ Counted
    /\ Goto(k, "read")
    /\ target' = [target EXCEPT ![k] = n]
    /\ actions' = [actions EXCEPT ![k] = wanted]
    /\ UNCHANGED <<row, scores, setting, read, readVersion, policy, todo, issued, calm,
                   saves, settings>>

(* "Workflow not found" or "Node not found" end the request. *)
Read(k) ==
    /\ pc[k] = "read"
    /\ IF graph = None THEN End(k)
       ELSE IF graph.type[target[k]] = "none" THEN End(k)
       ELSE /\ read' = [read EXCEPT ![k] = graph]
            /\ readVersion' = [readVersion EXCEPT ![k] = version]
            /\ Goto(k, "write")
            /\ UNCHANGED <<target, actions, policy, todo>>
    /\ UNCHANGED <<row, scores, setting, history>>

(* The ids of the helpers: fresh, and one for each action. *)
Fresh(wanted) ==
    LET unused == Helpers \ issued
        next == {x \in unused : Cardinality({y \in unused : y < x}) < Cardinality(wanted \cap Inserts)}
    IN  {f \in [wanted \cap Inserts -> next] :
            \A a, b \in wanted \cap Inserts : f[a] = f[b] => a = b}

Write(k) ==
    /\ pc[k] = "write"
    /\ \E helper \in Fresh(actions[k]) :
          /\ graph' = IF graph = None THEN None
                      ELSE ApplyFixes(read[k], target[k], actions[k], helper)
          /\ issued' = issued \cup {helper[a] : a \in DOMAIN helper}
    /\ version' = IF graph = None THEN version ELSE readVersion[k] + 1
    /\ Goto(k, "readGraph") /\ Forget(k)
    /\ Disturb(k)
    /\ UNCHANGED <<scores, setting, read, policy, todo, saves, requests, settings>>

\* Variant: the scoring of a fix trusts the graph the fix has read.
ReadGraphOnce(k) ==
    /\ pc[k] = "readGraph" /\ graph # None
    /\ read' = [read EXCEPT ![k] = IF @ = None THEN graph ELSE @]
    /\ todo' = [todo EXCEPT ![k] = Present(read'[k])]
    /\ Goto(k, "readPolicy")
    /\ UNCHANGED <<target, actions, readVersion, policy, row, scores, setting, history>>
ReadGraph(k) ==
    /\ pc[k] = "readGraph"
    /\ IF graph = None
       THEN End(k)
       ELSE /\ read' = [read EXCEPT ![k] = graph]
            /\ todo' = [todo EXCEPT ![k] = Present(graph)]
            /\ Goto(k, "readPolicy")
            /\ UNCHANGED <<target, actions, readVersion, policy>>
    /\ UNCHANGED <<row, scores, setting, history>>

ReadPolicy(k) ==
    /\ pc[k] = "readPolicy"
    /\ policy' = [policy EXCEPT ![k].retention = setting.retention]
    /\ Goto(k, "readManifests")
    /\ UNCHANGED <<row, scores, setting, target, actions, read, readVersion, todo,
                   history>>

ReadManifests(k) ==
    /\ pc[k] = "readManifests"
    /\ policy' = [policy EXCEPT ![k].active = setting.active]
    /\ Goto(k, "upsert")
    /\ UNCHANGED <<row, scores, setting, target, actions, read, readVersion, todo,
                   history>>

(* One node after the other, in the order of the array; a fix appends its  *)
(* helpers.  A score has the workflow for a foreign key, but not the node. *)
Upsert(k, n) ==
    /\ pc[k] = "upsert" /\ n \in todo[k] /\ \A x \in todo[k] : n <= x
    /\ IF graph = None
       THEN End(k) /\ UNCHANGED scores
       ELSE /\ scores' = [scores EXCEPT ![n] = Passed(read[k], n, policy[k])]
            /\ IF todo[k] = {n} THEN End(k)
               ELSE /\ todo' = [todo EXCEPT ![k] = @ \ {n}]
                    /\ UNCHANGED <<pc, target, actions, read, readVersion, policy>>
    /\ calm' = [j \in Requests |-> IF j = k THEN calm[k] \/ pc'[k] = "idle"
                                   ELSE calm[j] /\ pc[j] # "upsert"]
    /\ UNCHANGED <<row, setting, issued, saves, requests, settings>>

Next ==
    \/ Save \/ Delete \/ SetRetention
    \/ \E slug \in Switchable : SwitchManifest(slug)
    \/ \E k \in Requests, n \in Ids, wanted \in Asked : AskForFixes(k, n, wanted)
    \/ \E k \in Requests :
          \/ AskForScores(k) \/ Read(k) \/ Write(k)
          \/ ReadGraph(k) \/ ReadPolicy(k) \/ ReadManifests(k)
    \/ \E k \in Requests, n \in Ids : Upsert(k, n)

Spec == Init /\ [][Next]_vars
=============================================================================
