------------------------- MODULE WorkflowEditingProofs -------------------------
(* Fixes keep a workflow valid and help the scores of its nodes, and the  *)
(* stored scores are of the graph: for every graph, every set of nodes     *)
(* and any number of editors and requests.                                 *)
EXTENDS WorkflowEditingProperties, FiniteSetTheorems, TLAPS

\* A graph of the row: what is in it is a node of the editor or a helper that has been
\* given out.
Grown(g) == g \in Graphs /\ Present(g) \subseteq Nodes \cup issued

\* The ids that are still to be given are in no graph that a fix works on.
EditingInv ==
    /\ graph # None => Grown(graph)
    /\ DOMAIN pc = Requests /\ DOMAIN target = Requests /\ DOMAIN read = Requests
    /\ issued \subseteq Helpers
    /\ \A k \in Requests : pc[k] = "read" => target[k] \in Ids
    /\ \A k \in Requests : pc[k] = "write" => Grown(read[k]) /\ target[k] \in Present(read[k])

\* Helpers for a fix of graph g: an unused id for each, and no two the same.
HelpersFor(g, A, helper) ==
    /\ helper \in [A \cap Inserts -> Helpers \ Present(g)]
    /\ \A a, b \in A \cap Inserts : helper[a] = helper[b] => a = b

-----------------------------------------------------------------------------
(* What a fix makes of a graph. *)

LEMMA HelperTypes ==
    \A a \in Inserts : HelperType[a] \in Slugs /\ HelperType[a] # "none"
  BY EditingAssumption

LEMMA FixedNodes ==
    ASSUME NEW g \in Graphs, NEW n \in Present(g), NEW A, NEW helper, HelpersFor(g, A, helper)
    PROVE  LET f == ApplyFixes(g, n, A, helper)
               new == {helper[a] : a \in A \cap Inserts}
           IN  Present(f) = Present(g) \cup new
<1>. DEFINE f == ApplyFixes(g, n, A, helper)
            madeBy(x) == {a \in A \cap Inserts : helper[a] = x}
            new == {helper[a] : a \in A \cap Inserts}
<1>1. \A x \in Ids : f.type[x] = IF madeBy(x) = {} THEN g.type[x]
                                 ELSE HelperType[CHOOSE a \in madeBy(x) : TRUE]
  BY DEF ApplyFixes
<1>2. \A x \in Ids : madeBy(x) # {} => f.type[x] # "none"
  <2>. SUFFICES ASSUME NEW x \in Ids, madeBy(x) # {} PROVE f.type[x] # "none"
    OBVIOUS
  <2>1. (CHOOSE a \in madeBy(x) : TRUE) \in madeBy(x)
    OBVIOUS
  <2>. QED
    BY <1>1, <2>1, HelperTypes
<1>3. new \subseteq Ids /\ \A x \in Ids : madeBy(x) # {} <=> x \in new
  BY DEF HelpersFor, Ids
<1>. QED
  BY <1>1, <1>2, <1>3 DEF Present

LEMMA FixedGraph ==
    ASSUME NEW g \in Graphs, NEW n \in Present(g), NEW A, NEW helper, HelpersFor(g, A, helper)
    PROVE  ApplyFixes(g, n, A, helper) \in Graphs
<1>. DEFINE f == ApplyFixes(g, n, A, helper)
            madeBy(x) == {a \in A \cap Inserts : helper[a] = x}
<1>1. \A x \in Ids : f.type[x] \in Slugs \cup {"none"}
  <2>. SUFFICES ASSUME NEW x \in Ids PROVE f.type[x] \in Slugs \cup {"none"}
    OBVIOUS
  <2>1. f.type[x] = IF madeBy(x) = {} THEN g.type[x]
                    ELSE HelperType[CHOOSE a \in madeBy(x) : TRUE]
    BY DEF ApplyFixes
  <2>2. madeBy(x) # {} => (CHOOSE a \in madeBy(x) : TRUE) \in madeBy(x)
    OBVIOUS
  <2>. QED
    BY <2>1, <2>2, HelperTypes DEF Graphs
<1>2. f.type \in [Ids -> Slugs \cup {"none"}]
  BY <1>1 DEF ApplyFixes
<1>3. f.config \in [Ids -> SUBSET Facts]
  BY DEF ApplyFixes, Graphs, Switched, Facts
<1>4. AsEdges(g.edges) \subseteq [source : Ids, target : Ids, condition : Conditions]
  BY DEF AsEdges, Edge, Graphs, Conditions
<1>5. n \in Ids /\ \A a \in A \cap Inserts : helper[a] \in Ids
  BY DEF HelpersFor, Ids, Present
<1>6. \A a \in A \cap Inserts :
          HelperEdge(a, helper[a], n) \in [source : Ids, target : Ids, condition : Conditions]
  BY <1>5 DEF HelperEdge, Edge, Conditions
<1>7. f.edges \subseteq [source : Ids, target : Ids, condition : Conditions]
  BY <1>4, <1>6 DEF ApplyFixes
<1>. QED
  BY <1>2, <1>3, <1>7 DEF ApplyFixes, Graphs

\* The edges of the fixed graph, as pairs: those there were, and one for each helper.
LEMMA FixedParents ==
    ASSUME NEW g \in Graphs, NEW n \in Present(g), NEW A, NEW helper, HelpersFor(g, A, helper),
           NEW x
    PROVE  Parents(ApplyFixes(g, n, A, helper), {x}) =
              Parents(g, {x})
              \cup {helper[a] : a \in {b \in A \cap Inserts : IsUpstream(b) /\ x = n}}
              \cup {n : a \in {b \in A \cap Inserts : ~IsUpstream(b) /\ x = helper[b]}}
<1>. DEFINE f == ApplyFixes(g, n, A, helper)
<1>1. f.edges = AsEdges(g.edges) \cup {HelperEdge(a, helper[a], n) : a \in A \cap Inserts}
  BY DEF ApplyFixes
<1>2. Parents(f, {x}) = {e.source : e \in {d \in AsEdges(g.edges) : d.target = x}}
          \cup {e.source : e \in {d \in {HelperEdge(a, helper[a], n) : a \in A \cap Inserts} :
                                     d.target = x}}
  BY <1>1 DEF Parents
<1>3. {e.source : e \in {d \in AsEdges(g.edges) : d.target = x}} = Parents(g, {x})
  <2>1. \A e : Edge(e.source, e.target).source = e.source
                /\ Edge(e.source, e.target).target = e.target
    BY DEF Edge
  <2>2. \A y : y \in {e.source : e \in {d \in AsEdges(g.edges) : d.target = x}}
               <=> \E e \in g.edges : e.target = x /\ y = e.source
    BY <2>1 DEF AsEdges
  <2>3. \A y : y \in Parents(g, {x}) <=> \E e \in g.edges : e.target = x /\ y = e.source
    BY DEF Parents
  <2>. QED
    BY <2>2, <2>3
<1>4. \A a \in A \cap Inserts :
          LET e == HelperEdge(a, helper[a], n)
          IN  IF IsUpstream(a) THEN e.source = helper[a] /\ e.target = n
              ELSE e.source = n /\ e.target = helper[a]
  BY DEF HelperEdge, Edge
<1>5. {e.source : e \in {d \in {HelperEdge(a, helper[a], n) : a \in A \cap Inserts} :
                            d.target = x}}
          = {helper[a] : a \in {b \in A \cap Inserts : IsUpstream(b) /\ x = n}}
            \cup {n : a \in {b \in A \cap Inserts : ~IsUpstream(b) /\ x = helper[b]}}
  BY <1>4
<1>. QED
  BY <1>2, <1>3, <1>5

LEMMA FixKeepsValid ==
    ASSUME NEW g \in Graphs, NEW n \in Present(g), NEW A, NEW helper, HelpersFor(g, A, helper),
           Valid(g)
    PROVE  Valid(ApplyFixes(g, n, A, helper))
<1>. DEFINE f == ApplyFixes(g, n, A, helper)
            new == {helper[a] : a \in A \cap Inserts}
            sources == {helper[a] : a \in {b \in A \cap Inserts : IsUpstream(b)}}
<1>1. Present(f) = Present(g) \cup new
  BY FixedNodes
<1>2. new \cap Present(g) = {} /\ sources \subseteq new
  BY DEF HelpersFor
<1>3. \A e \in f.edges : {e.source, e.target} \subseteq Present(f)
  <2>1. \A e \in AsEdges(g.edges) : {e.source, e.target} \subseteq Present(g)
    BY DEF AsEdges, Edge, Valid
  <2>2. \A a \in A \cap Inserts :
            LET e == HelperEdge(a, helper[a], n) IN {e.source, e.target} \subseteq {n} \cup new
    BY DEF HelperEdge, Edge
  <2>3. f.edges = AsEdges(g.edges) \cup {HelperEdge(a, helper[a], n) : a \in A \cap Inserts}
    BY DEF ApplyFixes
  <2>. QED
    BY <1>1, <2>1, <2>2, <2>3
<1>4. \A x : Parents(g, {x}) \subseteq Present(g)
             /\ (x \notin Present(g) => Parents(g, {x}) = {})
  BY DEF Parents, Valid
\* A helper upstream has no predecessor, one downstream has the node alone, and an old
\* node has gained none but helpers upstream.
<1>5. \A h \in sources : Parents(f, {h}) = {}
  <2>. SUFFICES ASSUME NEW h \in sources PROVE Parents(f, {h}) = {}
    OBVIOUS
  <2>1. h # n /\ Parents(g, {h}) = {}
    BY <1>2, <1>4
  <2>2. \A b \in A \cap Inserts : h = helper[b] => IsUpstream(b)
    BY DEF HelpersFor
  <2>3. /\ {helper[a] : a \in {b \in A \cap Inserts : IsUpstream(b) /\ h = n}} = {}
        /\ {n : a \in {b \in A \cap Inserts : ~IsUpstream(b) /\ h = helper[b]}} = {}
    BY <2>1, <2>2
  <2>. QED
    BY <2>1, <2>3, FixedParents
<1>6. \A h \in new \ sources : Parents(f, {h}) \subseteq {n}
  <2>. SUFFICES ASSUME NEW h \in new \ sources PROVE Parents(f, {h}) \subseteq {n}
    OBVIOUS
  <2>1. h # n /\ Parents(g, {h}) = {}
    BY <1>2, <1>4
  <2>. QED
    BY <2>1, FixedParents
<1>7. \A m \in Present(g) : Parents(f, {m}) \subseteq Parents(g, {m}) \cup sources
  <2>. SUFFICES ASSUME NEW m \in Present(g)
                PROVE  Parents(f, {m}) \subseteq Parents(g, {m}) \cup sources
    OBVIOUS
  <2>1. \A b \in A \cap Inserts : m # helper[b]
    BY <1>2
  <2>. QED
    BY <2>1, FixedParents
<1>8. ASSUME NEW S \in SUBSET Present(f), S # {}
      PROVE  \E x \in S : Parents(f, {x}) \cap S = {}
  <2>1. CASE S \cap sources # {}
    BY <2>1, <1>5
  <2>2. CASE S \cap Present(g) = {}
    <3>1. PICK h \in S : h \in new
      BY <1>1, <2>2, <1>8
    <3>2. Parents(f, {h}) \subseteq {n}
      BY <3>1, <1>5, <1>6
    <3>. QED
      BY <2>2, <3>1, <3>2
  <2>3. CASE S \cap sources = {} /\ S \cap Present(g) # {}
    <3>1. PICK m \in S \cap Present(g) : Parents(g, {m}) \cap (S \cap Present(g)) = {}
      BY <2>3 DEF Valid
    <3>2. Parents(g, {m}) \cap S = {}
      BY <3>1, <1>4
    <3>. QED
      BY <2>3, <3>1, <3>2, <1>7
  <2>. QED
    BY <2>1, <2>2, <2>3
<1>. QED
  BY <1>3, <1>8 DEF Valid

-----------------------------------------------------------------------------
(* The requests. *)

LEMMA HelpersAreNew == Nodes \cap Helpers = {} /\ Helpers \subseteq Ids
<1>1. \A n \in Nodes, h \in Helpers : n # h
  BY EditingAssumption DEF Ids
<1>. QED
  BY <1>1 DEF Ids

\* A save keeps a graph a graph, and adds no node.
LEMMA EditedGraph ==
    ASSUME NEW g \in Graphs, NEW f \in Edits(g)
    PROVE  f \in Graphs /\ Present(f) \subseteq Present(g)
<1>. DEFINE Good(h) == h \in Graphs /\ Present(h) \subseteq Present(g)
<1>1. \A x \in Present(g) : Good(Without(g, x))
  BY DEF Without, Graphs, Present
<1>2. \A x \in Present(g) : Good(Configured(g, x))
  BY DEF Configured, Graphs, Present, Facts
<1>3. \A edges \in SUBSET [source : Ids, target : Ids, condition : Conditions] :
          Good(WithEdges(g, edges))
  BY DEF WithEdges, Graphs, Present
<1>4. g.edges \subseteq [source : Ids, target : Ids, condition : Conditions]
  BY DEF Graphs
<1>5. \A s, t \in Present(g) : Good(WithEdges(g, g.edges \cup {Edge(s, t)}))
  <2>1. \A s, t \in Present(g) : Edge(s, t) \in [source : Ids, target : Ids, condition : Conditions]
    BY DEF Edge, Conditions, Present
  <2>. QED
    BY <1>3, <1>4, <2>1
<1>6. \A e \in g.edges : Good(WithEdges(g, g.edges \ {e}))
  BY <1>3, <1>4
<1>7. \/ \E x \in Present(g) : f = Without(g, x)
      \/ \E x \in Present(g) \cap Nodes : f = Configured(g, x)
      \/ \E s \in Present(g), t \in Present(g) \cap Nodes :
            f = WithEdges(g, g.edges \cup {Edge(s, t)})
      \/ \E e \in g.edges : f = WithEdges(g, g.edges \ {e})
  BY DEF Edits
<1>. QED
  BY <1>1, <1>2, <1>5, <1>6, <1>7

LEMMA EditingInit == Init => EditingInv
  BY EditingAssumption DEF Init, EditingInv, Grown

\* The fix that writes has its helpers, and what it writes is in order.
LEMMA WriteStep ==
    ASSUME EditingInv, NEW k \in Requests, Write(k), graph # None
    PROVE  /\ \E helper : /\ HelpersFor(read[k], actions[k], helper)
                          /\ graph' = ApplyFixes(read[k], target[k], actions[k], helper)
           /\ Grown(graph)'
           /\ issued \subseteq issued' /\ issued' \subseteq Helpers
<1>1. PICK helper \in Fresh(actions[k]) :
          /\ graph' = ApplyFixes(read[k], target[k], actions[k], helper)
          /\ issued' = issued \cup {helper[a] : a \in DOMAIN helper}
  BY DEF Write
<1>2. /\ helper \in [actions[k] \cap Inserts -> Helpers \ issued]
      /\ \A a, b \in actions[k] \cap Inserts : helper[a] = helper[b] => a = b
  BY <1>1 DEF Fresh
<1>3. Grown(read[k]) /\ target[k] \in Present(read[k])
  BY DEF EditingInv, Write
<1>4. HelpersFor(read[k], actions[k], helper)
  BY <1>2, <1>3, HelpersAreNew DEF HelpersFor, Grown
<1>5. graph' \in Graphs
  BY <1>1, <1>3, <1>4, FixedGraph DEF Grown
<1>6. Present(graph') = Present(read[k]) \cup {helper[a] : a \in actions[k] \cap Inserts}
  BY <1>1, <1>3, <1>4, FixedNodes DEF Grown
<1>7. issued' = issued \cup {helper[a] : a \in actions[k] \cap Inserts}
  BY <1>1, <1>2
<1>8. Grown(graph)'
  BY <1>3, <1>5, <1>6, <1>7 DEF Grown, Present
<1>9. issued' \subseteq Helpers
  BY <1>2, <1>7 DEF EditingInv
<1>. QED
  BY <1>1, <1>4, <1>7, <1>8, <1>9

\* A step of request k that gives out no id, leaves the row alone and does not bring the
\* request before a read or a write.
Elsewhere(k) ==
    /\ UNCHANGED <<graph, issued>>
    /\ DOMAIN pc' = DOMAIN pc /\ DOMAIN target' = DOMAIN target /\ DOMAIN read' = DOMAIN read
    /\ pc'[k] \notin {"read", "write"}
    /\ \A j \in Requests \ {k} :
          pc'[j] = pc[j] /\ target'[j] = target[j] /\ read'[j] = read[j]

LEMMA EndIsElsewhere ==
    ASSUME EditingInv, NEW k \in Requests, End(k), UNCHANGED <<graph, issued>>
    PROVE  Elsewhere(k)
  BY DEF EditingInv, End, Goto, Forget, Elsewhere

\* What no step but Write does: give out ids.  What none but Read does: bring a request
\* before its write.
LEMMA EditingStep == EditingInv /\ [Next]_vars => EditingInv'
<1>. SUFFICES ASSUME EditingInv, [Next]_vars PROVE EditingInv'
  OBVIOUS
<1>. USE DEF EditingInv
<1>0. ASSUME NEW k \in Requests, Elsewhere(k) PROVE EditingInv'
  BY <1>0 DEF Elsewhere, Grown, Present
<1>1. CASE Save
  BY <1>1, EditedGraph DEF Save, row, request, history, Grown, Present
<1>2. CASE Delete
  BY <1>2 DEF Delete, row, request, Grown, Present
<1>3. CASE SetRetention \/ \E slug \in Switchable : SwitchManifest(slug)
  BY <1>3 DEF SetRetention, SwitchManifest, row, request, Grown, Present
<1>4. ASSUME NEW k \in Requests, NEW n \in Ids, NEW wanted \in Asked, AskForFixes(k, n, wanted)
      PROVE  EditingInv'
  BY <1>4 DEF AskForFixes, Goto, row, Grown, Present
<1>5. ASSUME NEW k \in Requests, AskForScores(k) PROVE EditingInv'
  BY <1>0, <1>5 DEF AskForScores, Goto, row, Elsewhere
<1>6. ASSUME NEW k \in Requests, Read(k) PROVE EditingInv'
  <2>1. CASE End(k)
    BY <1>0, <1>6, <2>1, EndIsElsewhere DEF Read, row, history
  <2>2. CASE /\ graph # None /\ graph.type[target[k]] # "none"
             /\ read' = [read EXCEPT ![k] = graph]
             /\ pc' = [pc EXCEPT ![k] = "write"] /\ UNCHANGED <<target, graph, issued>>
    <3>1. target[k] \in Present(graph)
      BY <1>6, <2>2 DEF Read, Present
    <3>. QED
      BY <2>2, <3>1 DEF Grown, Present
  <2>. QED
    BY <1>6, <2>1, <2>2 DEF Read, Goto, row, history
<1>7. ASSUME NEW k \in Requests, Write(k) PROVE EditingInv'
  <2>1. \A j \in Requests : pc'[j] \in {"read", "write"} => pc'[j] = pc[j]
    BY <1>7 DEF Write, Goto
  <2>2. CASE graph = None
    <3>1. graph' = None /\ issued \subseteq issued' /\ issued' \subseteq Helpers
      BY <1>7, <2>2 DEF Write, Fresh
    <3>. QED
      BY <1>7, <2>1, <3>1 DEF Write, Goto, Forget, Grown, Present
  <2>3. CASE graph # None
    <3>1. Grown(graph)' /\ issued \subseteq issued' /\ issued' \subseteq Helpers
      BY <1>7, <2>3, WriteStep
    <3>. QED
      BY <1>7, <2>1, <3>1 DEF Write, Goto, Forget, Grown, Present
  <2>. QED
    BY <2>2, <2>3
<1>8. ASSUME NEW k \in Requests, ReadGraph(k) PROVE EditingInv'
  BY <1>0, <1>8, EndIsElsewhere DEF ReadGraph, Goto, row, history, Elsewhere
<1>9. ASSUME NEW k \in Requests, ReadPolicy(k) \/ ReadManifests(k) PROVE EditingInv'
  BY <1>0, <1>9 DEF ReadPolicy, ReadManifests, Goto, row, history, Elsewhere
<1>10. ASSUME NEW k \in Requests, NEW n \in Ids, Upsert(k, n) PROVE EditingInv'
  <2>1. CASE End(k)
    BY <1>0, <1>10, <2>1, EndIsElsewhere DEF Upsert, row
  <2>2. CASE UNCHANGED <<pc, target, read>>
    BY <1>10, <2>2 DEF Upsert, row, Grown, Present
  <2>. QED
    BY <1>10, <2>1, <2>2 DEF Upsert
<1>11. CASE UNCHANGED vars
  BY <1>11 DEF vars, row, request, history, Grown, Present
<1>. QED
  BY <1>1, <1>2, <1>3, <1>4, <1>5, <1>6, <1>7, <1>8, <1>9, <1>10, <1>11 DEF Next

\* The step of a fix is Write of its request.
LEMMA FixesAreWrites ==
    ASSUME EditingInv, [Next]_vars, NEW k \in Requests, Fixes(k)
    PROVE  Write(k) /\ graph # None
<1>. USE DEF EditingInv, Fixes
<1>1. \A j \in Requests : Write(j) /\ j # k => pc'[k] = pc[k]
  BY DEF Write, Goto
<1>2. ~UNCHANGED pc
  OBVIOUS
<1>3. /\ ~Save /\ ~Delete /\ ~SetRetention /\ ~UNCHANGED vars
      /\ \A slug \in Switchable : ~SwitchManifest(slug)
  BY <1>2 DEF Save, Delete, SetRetention, SwitchManifest, request, vars
<1>4. \A j \in Requests, n \in Ids, wanted \in Asked : ~AskForFixes(j, n, wanted)
  BY DEF AskForFixes, Goto
<1>5. \A j \in Requests : ~AskForScores(j)
  BY DEF AskForScores, Goto
<1>6. \A j \in Requests : ~Read(j)
  BY DEF Read, End, Goto
<1>7. \A j \in Requests : ~ReadGraph(j) /\ ~ReadPolicy(j) /\ ~ReadManifests(j)
  BY DEF ReadGraph, ReadPolicy, ReadManifests, End, Goto
<1>8. \A j \in Requests, n \in Ids : ~Upsert(j, n)
  BY DEF Upsert, End, Goto
<1>9. Write(k)
  BY <1>1, <1>3, <1>4, <1>5, <1>6, <1>7, <1>8 DEF Next
<1>. QED
  BY <1>9 DEF Write

\* However many editors save and requests fix, and whatever the graphs a workflow is
\* created with: a fix that read a graph the engine would run writes one it would run
\* (applyRexFixesToGraph puts each helper, under an id of its own, at the outer edge).
THEOREM FixesKeepItValid ==
    Spec => FixKeepsItValid
<1>1. EditingInv /\ [Next]_vars =>
          \A k \in Requests : Fixes(k) /\ Valid(read[k]) => Valid(graph')
  <2>. SUFFICES ASSUME EditingInv, [Next]_vars, NEW k \in Requests, Fixes(k), Valid(read[k])
                PROVE  Valid(graph')
    OBVIOUS
  <2>1. Write(k) /\ graph # None
    BY FixesAreWrites
  <2>2. PICK helper : /\ HelpersFor(read[k], actions[k], helper)
                      /\ graph' = ApplyFixes(read[k], target[k], actions[k], helper)
    BY <2>1, WriteStep
  <2>3. read[k] \in Graphs /\ target[k] \in Present(read[k])
    BY <2>1 DEF EditingInv, Write, Grown
  <2>. QED
    BY <2>2, <2>3, FixKeepsValid
<1>. QED
  BY <1>1, EditingInit, EditingStep, PTL DEF Spec, FixKeepsItValid

-----------------------------------------------------------------------------
(* The scores. *)

LEMMA NoPolicyType == NoPolicy \in Settings
  BY DEF NoPolicy, Settings

\* Until somebody interferes, a request that scores has what is in the database, and the
\* nodes it is through with have their scores.
ScoringInv ==
    /\ \A f \in {pc, calm, read, todo, policy} : DOMAIN f = Requests
    /\ DOMAIN scores = Ids
    /\ setting \in Settings /\ \A k \in Requests : policy[k] \in Settings
    /\ \A k \in Requests : calm[k] =>
          /\ Scoring(k) => read[k] = graph /\ graph # None
          /\ pc[k] = "readManifests" => policy[k].retention = setting.retention
          /\ pc[k] = "upsert" =>
                /\ policy[k] = setting
                /\ \A n \in Present(graph) \ todo[k] : scores[n] = Passed(graph, n, setting)
          /\ pc[k] \in {"readPolicy", "readManifests"} => todo[k] = Present(graph)

\* A step that disturbs everybody who scores, and moves nobody.
LEMMA DisturbedAll ==
    ASSUME ScoringInv, Disturb(None), UNCHANGED request,
           DOMAIN scores' = Ids, setting' \in Settings
    PROVE  ScoringInv'
  BY EditingAssumption DEF ScoringInv, Disturb, Scoring, request

\* A step of a request that is not scoring before or after it, and touches nothing of
\* the others.
LEMMA NotScoring ==
    ASSUME ScoringInv, NEW k \in Requests, UNCHANGED <<graph, scores, setting, calm>>,
           \A f \in {pc', calm', read', todo', policy'} : DOMAIN f = Requests,
           pc'[k] \notin {"readPolicy", "readManifests", "upsert"}, policy'[k] \in Settings,
           \A j \in Requests \ {k} : /\ pc'[j] = pc[j] /\ read'[j] = read[j]
                                     /\ todo'[j] = todo[j] /\ policy'[j] = policy[j]
    PROVE  ScoringInv'
<1>1. \A j \in Requests : Scoring(j)' => j # k /\ Scoring(j)
  BY DEF Scoring
<1>. QED
  BY <1>1 DEF ScoringInv, Scoring, Present

LEMMA EndIsNotScoring ==
    ASSUME ScoringInv, NEW k \in Requests, End(k), UNCHANGED <<graph, scores, setting, calm>>
    PROVE  ScoringInv'
  BY NotScoring, NoPolicyType DEF End, Goto, Forget, ScoringInv

LEMMA ScoringInit == Init => ScoringInv
<1>1. [retention |-> FALSE, active |-> Slugs] \in Settings
  BY DEF Settings
<1>. QED
  BY <1>1, NoPolicyType DEF Init, ScoringInv, Scoring

\* One more score is stored, and disturbs the others who store.
LEMMA UpsertStep ==
    ASSUME ScoringInv, NEW k \in Requests, NEW n \in Ids, Upsert(k, n)
    PROVE  ScoringInv'
<1>. USE DEF ScoringInv
<1>1. /\ UNCHANGED <<graph, setting>> /\ pc[k] = "upsert"
      /\ DOMAIN calm' = Requests /\ DOMAIN scores' = Ids
      /\ \A j \in Requests \ {k} : calm'[j] => calm[j] /\ pc[j] # "upsert"
  BY DEF Upsert, row
<1>2. CASE End(k)
  <2>1. /\ \A f \in {pc', read', todo', policy'} : DOMAIN f = Requests
        /\ pc'[k] = "idle" /\ policy'[k] \in Settings
        /\ \A j \in Requests \ {k} : /\ pc'[j] = pc[j] /\ read'[j] = read[j]
                                     /\ todo'[j] = todo[j] /\ policy'[j] = policy[j]
    BY <1>2, NoPolicyType DEF End, Goto, Forget
  <2>. QED
    BY <1>1, <2>1 DEF Scoring, Present
<1>3. CASE /\ graph # None /\ scores' = [scores EXCEPT ![n] = Passed(read[k], n, policy[k])]
           /\ todo' = [todo EXCEPT ![k] = @ \ {n}] /\ UNCHANGED <<pc, read, policy>>
  <2>1. calm'[k] <=> calm[k]
    BY <1>1, <1>3 DEF Upsert
  <2>2. ASSUME calm[k]
        PROVE  \A x \in Present(graph) \ todo'[k] : scores'[x] = Passed(graph, x, setting)
    <3>1. read[k] = graph /\ policy[k] = setting
      BY <1>1, <2>2 DEF Scoring
    <3>2. todo'[k] = todo[k] \ {n}
      BY <1>3
    <3>3. \A x \in Present(graph) : x \in Ids
      BY DEF Present
    <3>. QED
      BY <1>1, <1>3, <2>2, <3>1, <3>2, <3>3
  <2>. QED
    BY <1>1, <1>3, <2>1, <2>2 DEF Scoring, Present
<1>. QED
  BY <1>2, <1>3 DEF Upsert

LEMMA ScoringStep == ScoringInv /\ [Next]_vars => ScoringInv'
<1>. SUFFICES ASSUME ScoringInv, [Next]_vars PROVE ScoringInv'
  OBVIOUS
<1>1. CASE Save
  BY <1>1, DisturbedAll DEF Save, ScoringInv
<1>2. CASE Delete
  BY <1>2, DisturbedAll DEF Delete, ScoringInv
<1>3. CASE SetRetention \/ \E slug \in Switchable : SwitchManifest(slug)
  <2>1. setting' \in Settings
    <3>1. setting.retention \in BOOLEAN /\ setting.active \subseteq Slugs
             /\ setting = [retention |-> setting.retention, active |-> setting.active]
      BY DEF ScoringInv, Settings
    <3>2. CASE SetRetention
      <4>1. setting' = [retention |-> ~setting.retention, active |-> setting.active]
        BY <3>1, <3>2 DEF SetRetention
      <4>. QED
        BY <3>1, <4>1 DEF Settings
    <3>3. ASSUME NEW slug \in Switchable, SwitchManifest(slug) PROVE setting' \in Settings
      <4>1. PICK active \in SUBSET Slugs :
                setting' = [retention |-> setting.retention, active |-> active]
        BY <3>1, <3>3, EditingAssumption DEF SwitchManifest
      <4>. QED
        BY <3>1, <4>1 DEF Settings
    <3>. QED
      BY <1>3, <3>2, <3>3
  <2>. QED
    BY <1>3, <2>1, DisturbedAll DEF SetRetention, SwitchManifest, ScoringInv
<1>4. ASSUME NEW k \in Requests, NEW n \in Ids, NEW wanted \in Asked, AskForFixes(k, n, wanted)
      PROVE  ScoringInv'
  BY <1>4, NotScoring DEF AskForFixes, Goto, row, ScoringInv
<1>5. ASSUME NEW k \in Requests, AskForScores(k) PROVE ScoringInv'
  BY <1>5, NotScoring DEF AskForScores, Goto, row, ScoringInv
<1>6. ASSUME NEW k \in Requests, Read(k) PROVE ScoringInv'
  <2>1. CASE End(k)
    BY <1>6, <2>1, EndIsNotScoring DEF Read, row, history
  <2>2. CASE ~End(k)
    BY <1>6, <2>2, NotScoring DEF Read, Goto, row, history, ScoringInv
  <2>. QED
    BY <2>1, <2>2
<1>7. ASSUME NEW k \in Requests, Write(k) PROVE ScoringInv'
  <2>1. \A j \in Requests : Scoring(j)' => j # k /\ Scoring(j)
    BY <1>7 DEF Write, Goto, Forget, Scoring, ScoringInv
  <2>2. \A j \in Requests : calm'[j] => ~Scoring(j)'
    BY <1>7, <2>1 DEF Write, Disturb, ScoringInv
  <2>. QED
    BY <1>7, <2>2 DEF Write, Goto, Forget, Disturb, ScoringInv, Scoring
<1>8. ASSUME NEW k \in Requests, ReadGraph(k) PROVE ScoringInv'
  <2>1. CASE graph = None
    BY <1>8, <2>1, EndIsNotScoring DEF ReadGraph, row, history
  <2>2. CASE graph # None
    BY <1>8, <2>2 DEF ReadGraph, Goto, row, history, ScoringInv, Scoring, Present
  <2>. QED
    BY <2>1, <2>2
<1>9. ASSUME NEW k \in Requests, ReadPolicy(k) \/ ReadManifests(k) PROVE ScoringInv'
  <2>1. /\ UNCHANGED <<graph, scores, setting, read, todo, calm>>
        /\ DOMAIN pc' = Requests /\ DOMAIN policy' = Requests
        /\ \A j \in Requests \ {k} : pc'[j] = pc[j] /\ policy'[j] = policy[j]
    BY <1>9 DEF ReadPolicy, ReadManifests, Goto, row, history, ScoringInv
  <2>2. CASE ReadPolicy(k)
    <3>1. /\ pc[k] = "readPolicy" /\ pc'[k] = "readManifests"
          /\ policy'[k] = [policy[k] EXCEPT !.retention = setting.retention]
      BY <2>2 DEF ReadPolicy, Goto, ScoringInv
    <3>2. policy'[k] \in Settings /\ policy'[k].retention = setting.retention
      BY <3>1 DEF ScoringInv, Settings
    <3>3. \A j \in Requests : policy'[j] \in Settings
      BY <2>1, <3>2 DEF ScoringInv
    <3>4. \A j \in Requests : calm'[j] =>
             /\ Scoring(j)' => read'[j] = graph' /\ graph' # None
             /\ pc'[j] = "readManifests" => policy'[j].retention = setting'.retention
             /\ pc'[j] = "upsert" =>
                   /\ policy'[j] = setting'
                   /\ \A n \in Present(graph') \ todo'[j] : scores'[n] = Passed(graph', n, setting')
             /\ pc'[j] \in {"readPolicy", "readManifests"} => todo'[j] = Present(graph')
      <4>. SUFFICES ASSUME NEW j \in Requests, calm'[j] PROVE
             /\ Scoring(j)' => read'[j] = graph' /\ graph' # None
             /\ pc'[j] = "readManifests" => policy'[j].retention = setting'.retention
             /\ pc'[j] = "upsert" =>
                   /\ policy'[j] = setting'
                   /\ \A n \in Present(graph') \ todo'[j] : scores'[n] = Passed(graph', n, setting')
             /\ pc'[j] \in {"readPolicy", "readManifests"} => todo'[j] = Present(graph')
        OBVIOUS
      <4>1. CASE j = k
        BY <2>1, <3>1, <3>2, <4>1 DEF ScoringInv, Scoring
      <4>2. CASE j # k
        BY <2>1, <4>2 DEF ScoringInv, Scoring
      <4>. QED
        BY <4>1, <4>2
    <3>. QED
      BY <2>1, <3>3, <3>4 DEF ScoringInv, Present
  <2>3. CASE ReadManifests(k)
    <3>1. /\ pc[k] = "readManifests" /\ pc'[k] = "upsert"
          /\ policy'[k] = [policy[k] EXCEPT !.active = setting.active]
      BY <2>3 DEF ReadManifests, Goto, ScoringInv
    <3>2. policy'[k] \in Settings
      BY <3>1 DEF ScoringInv, Settings
    <3>3. policy[k].retention = setting.retention => policy'[k] = setting
      BY <3>1 DEF ScoringInv, Settings
    <3>. QED
      BY <2>1, <3>1, <3>2, <3>3 DEF ScoringInv, Scoring, Present
  <2>. QED
    BY <1>9, <2>2, <2>3
<1>10. ASSUME NEW k \in Requests, NEW n \in Ids, Upsert(k, n) PROVE ScoringInv'
  BY <1>10, UpsertStep
<1>11. CASE UNCHANGED vars
  BY <1>11 DEF vars, row, request, history, ScoringInv, Scoring, Present
<1>. QED
  BY <1>1, <1>2, <1>3, <1>4, <1>5, <1>6, <1>7, <1>8, <1>9, <1>10, <1>11 DEF Next

\* The step that stores the last score of a request is Upsert of it.
LEMMA LastIsUpsert ==
    ASSUME ScoringInv, [Next]_vars, NEW k \in Requests, pc[k] = "upsert", pc'[k] = "idle"
    PROVE  \E n \in Ids : Upsert(k, n)
<1>. USE DEF ScoringInv
<1>1. /\ ~Save /\ ~Delete /\ ~SetRetention /\ ~UNCHANGED vars
      /\ \A slug \in Switchable : ~SwitchManifest(slug)
  BY DEF Save, Delete, SetRetention, SwitchManifest, request, vars
<1>2. \A j \in Requests, n \in Ids, wanted \in Asked : ~AskForFixes(j, n, wanted)
  BY DEF AskForFixes, Goto
<1>3. \A j \in Requests : ~AskForScores(j) /\ ~Write(j) /\ ~ReadPolicy(j) /\ ~ReadManifests(j)
  BY DEF AskForScores, Write, ReadPolicy, ReadManifests, Goto
<1>4. \A j \in Requests : ~Read(j) /\ ~ReadGraph(j)
  BY DEF Read, ReadGraph, End, Goto
<1>5. \A j \in Requests, n \in Ids : Upsert(j, n) => j = k
  BY DEF Upsert, End, Goto
<1>. QED
  BY <1>1, <1>2, <1>3, <1>4, <1>5 DEF Next

\* However editors, fixes and scorings interleave: a scoring nobody interfered with has
\* stored the score of each node of the graph as it is (computeAndPersistScores reads the
\* graph again after a fix has written it).
THEOREM StoredScoresAreOfTheGraph ==
    Spec => ScoresAreOfTheGraph
<1>1. ScoringInv /\ [Next]_vars =>
          \A k \in Requests :
             pc[k] = "upsert" /\ pc'[k] = "idle" /\ calm[k] /\ graph # None
               => \A n \in Present(graph) : scores'[n] = Passed(graph, n, setting)
  <2>. SUFFICES ASSUME ScoringInv, [Next]_vars, NEW k \in Requests,
                       pc[k] = "upsert", pc'[k] = "idle", calm[k], graph # None,
                       NEW x \in Present(graph)
                PROVE  scores'[x] = Passed(graph, x, setting)
    OBVIOUS
  <2>1. PICK n \in Ids : Upsert(k, n)
    BY LastIsUpsert
  <2>2. scores' = [scores EXCEPT ![n] = Passed(read[k], n, policy[k])] /\ todo[k] = {n}
    BY <2>1 DEF Upsert, ScoringInv
  <2>3. read[k] = graph /\ policy[k] = setting
        /\ \A m \in Present(graph) \ {n} : scores[m] = Passed(graph, m, setting)
    BY <2>2 DEF ScoringInv, Scoring
  <2>. QED
    BY <2>2, <2>3 DEF ScoringInv, Present
<1>. QED
  BY <1>1, ScoringInit, ScoringStep, PTL DEF Spec, ScoresAreOfTheGraph

-----------------------------------------------------------------------------
(* Least counterexamples. *)

\* Each set of naturals that is not empty has a least number: what replaces induction.
LEMMA LeastNumber ==
    ASSUME NEW S \in SUBSET Nat, S # {}
    PROVE  \E n \in S : \A m \in S : n <= m
<1>. DEFINE T == {1..x : x \in S}
<1>1. T \subseteq FiniteSubsetsOf(Nat) /\ T # {}
  <2>1. \A x \in S : 1..x \in SUBSET Nat /\ IsFiniteSet(1..x)
    BY FS_Interval
  <2>. QED
    BY <2>1 DEF FiniteSubsetsOf
<1>2. PICK t \in T : \A u \in T : ~(<<u, t>> \in StrictSubsetOrdering(Nat))
  <2>. HIDE DEF T
  <2>. QED
    BY <1>1, FS_StrictSubsetOrderingWellFounded, WFMin
<1>3. PICK x \in S : t = 1..x
  BY <1>2
<1>4. ASSUME NEW y \in S PROVE x <= y
  <2>1. 1..y \in T /\ 1..y \in SUBSET Nat /\ 1..x \in SUBSET Nat
    OBVIOUS
  <2>2. ~(<<1..y, 1..x>> \in StrictSubsetOrdering(Nat))
    <3>. HIDE DEF T
    <3>. QED
      BY <1>2, <1>3, <2>1
  <2>3. ~(1..y \subseteq 1..x /\ 1..y # 1..x)
    BY <2>1, <2>2 DEF StrictSubsetOrdering
  <2>4. y < x => 1..y \subseteq 1..x /\ 1..y # 1..x
    OBVIOUS
  <2>. QED
    BY <2>3, <2>4
<1>. QED
  BY <1>4

-----------------------------------------------------------------------------
(* The search upstream. *)

\* What is found one step further than S.
Wider(g, S) == S \cup Parents(g, S)

\* Level k of the search is f[k], for the first m levels.
SearchTo(g, n, m, f) ==
    \A k \in 0..m : f[k] = IF k = 0 THEN {n} ELSE Wider(g, f[k - 1])

\* The levels of the search upstream of n.
Levels(g, n) ==
    CHOOSE level : level = [k \in Nat |-> IF k = 0 THEN {n}
                                          ELSE level[k - 1] \cup Parents(g, level[k - 1])]

LEMMA UpstreamIsSearched ==
    ASSUME NEW g, NEW n
    PROVE  Upstream(g, n) = Parents(g, Levels(g, n)[Cardinality(Ids)])
  BY DEF Upstream, Levels

LEMMA SearchesExist ==
    ASSUME NEW g, NEW n
    PROVE  \A m \in Nat : \E f : SearchTo(g, n, m, f)
<1>. DEFINE Missing == {m \in Nat : ~\E f : SearchTo(g, n, m, f)}
<1>. SUFFICES ASSUME Missing # {} PROVE FALSE
  OBVIOUS
<1>1. PICK m \in Missing : \A l \in Missing : m <= l
  <2>. Missing \in SUBSET Nat
    OBVIOUS
  <2>. HIDE DEF Missing
  <2>. QED
    BY LeastNumber
<1>2. m \in Nat /\ ~\E f : SearchTo(g, n, m, f)
  BY <1>1
<1>3. CASE m = 0
  <2>1. SearchTo(g, n, 0, [k \in 0..0 |-> {n}])
    BY DEF SearchTo
  <2>. QED
    BY <1>2, <1>3, <2>1
<1>4. CASE m # 0
  <2>1. m - 1 \in Nat /\ m - 1 \notin Missing
    BY <1>1, <1>2, <1>4
  <2>2. PICK f : SearchTo(g, n, m - 1, f)
    BY <2>1
  <2>. DEFINE h == [k \in 0..m |-> IF k = m THEN Wider(g, f[m - 1]) ELSE f[k]]
  <2>3. \A k \in 0..(m - 1) : f[k] = IF k = 0 THEN {n} ELSE Wider(g, f[k - 1])
    BY <2>2 DEF SearchTo
  <2>4. \A k \in 0..m : h[k] = IF k = 0 THEN {n} ELSE Wider(g, h[k - 1])
    <3>. SUFFICES ASSUME NEW k \in 0..m
                  PROVE  h[k] = IF k = 0 THEN {n} ELSE Wider(g, h[k - 1])
      OBVIOUS
    <3>1. k # 0 => k - 1 \in 0..m /\ h[k - 1] = f[k - 1]
      BY <1>2
    <3>2. k # m => k \in 0..(m - 1) /\ h[k] = f[k]
      BY <1>2
    <3>3. h[m] = Wider(g, f[m - 1])
      BY <1>2
    <3>. HIDE DEF h
    <3>. QED
      BY <1>4, <2>3, <3>1, <3>2, <3>3
  <2>5. SearchTo(g, n, m, h)
    BY <2>4 DEF SearchTo
  <2>. QED
    BY <1>2, <2>5
<1>. QED
  BY <1>3, <1>4

LEMMA SearchesAgree ==
    ASSUME NEW g, NEW n, NEW l \in Nat, NEW m \in Nat, NEW f, NEW h,
           SearchTo(g, n, l, f), SearchTo(g, n, m, h)
    PROVE  \A k \in 0..l : k <= m => f[k] = h[k]
<1>. DEFINE Apart == {k \in 0..l : k <= m /\ f[k] # h[k]}
<1>. SUFFICES ASSUME Apart # {} PROVE FALSE
  OBVIOUS
<1>1. PICK k \in Apart : \A j \in Apart : k <= j
  <2>. Apart \in SUBSET Nat
    OBVIOUS
  <2>. HIDE DEF Apart
  <2>. QED
    BY LeastNumber
<1>2. /\ f[k] = IF k = 0 THEN {n} ELSE Wider(g, f[k - 1])
      /\ h[k] = IF k = 0 THEN {n} ELSE Wider(g, h[k - 1])
  <2>1. k \in 0..l /\ k \in 0..m
    BY <1>1
  <2>. HIDE DEF Apart
  <2>. QED
    BY <2>1 DEF SearchTo
<1>3. k # 0 /\ k \in Nat
  BY <1>1, <1>2
<1>4. k - 1 \in 0..l /\ k - 1 <= m /\ k - 1 \notin Apart
  BY <1>1, <1>3
<1>. QED
  BY <1>1, <1>2, <1>3, <1>4

\* The definition of the levels is one: the search does go level by level.
LEMMA LevelByLevel ==
    ASSUME NEW g, NEW n
    PROVE  /\ Levels(g, n)[0] = {n}
           /\ \A k \in Nat : Levels(g, n)[k + 1] = Wider(g, Levels(g, n)[k])
<1>. DEFINE to(k) == CHOOSE f : SearchTo(g, n, k, f)
            all == [k \in Nat |-> to(k)[k]]
            Step(f, k) == IF k = 0 THEN {n} ELSE f[k - 1] \cup Parents(g, f[k - 1])
<1>1. \A k \in Nat : SearchTo(g, n, k, to(k))
  BY SearchesExist
<1>. HIDE DEF to
<1>2. \A k \in Nat : all[k] = Step(all, k)
  <2>. SUFFICES ASSUME NEW k \in Nat PROVE to(k)[k] = Step(all, k)
    OBVIOUS
  <2>1. to(k)[k] = IF k = 0 THEN {n} ELSE Wider(g, to(k)[k - 1])
    <3>1. k \in 0..k
      OBVIOUS
    <3>. QED
      BY <1>1, <3>1 DEF SearchTo
  <2>2. CASE k = 0
    BY <2>1, <2>2
  <2>3. CASE k # 0
    <3>1. k - 1 \in Nat /\ k - 1 \in 0..k /\ k - 1 <= k - 1
      BY <2>3
    <3>2. to(k)[k - 1] = to(k - 1)[k - 1]
      BY <1>1, <3>1, SearchesAgree
    <3>. QED
      BY <2>1, <2>3, <3>1, <3>2 DEF Wider
  <2>. QED
    BY <2>2, <2>3
<1>3. all = [k \in Nat |-> Step(all, k)]
  BY <1>2
<1>4. Levels(g, n) = [k \in Nat |-> Step(Levels(g, n), k)]
  <2>1. \E level : level = [k \in Nat |-> Step(level, k)]
    <3>. HIDE DEF all, Step
    <3>. QED
      BY <1>3
  <2>. QED
    BY <2>1 DEF Levels
<1>5. \A k \in Nat : Levels(g, n)[k] = Step(Levels(g, n), k)
  <2>. HIDE DEF Step
  <2>. QED
    BY <1>4
<1>6. \A k \in Nat : k + 1 \in Nat /\ k + 1 # 0 /\ k + 1 - 1 = k
  OBVIOUS
<1>7. Levels(g, n)[0] = Step(Levels(g, n), 0)
      /\ \A k \in Nat : Levels(g, n)[k + 1] = Step(Levels(g, n), k + 1)
  <2>. HIDE DEF Step
  <2>. QED
    BY <1>5, <1>6
<1>8. \A k \in Nat : Step(Levels(g, n), k + 1) = Wider(g, Levels(g, n)[k])
  BY <1>6 DEF Wider
<1>. QED
  BY <1>7, <1>8

\* Where each node keeps its parents, a search finds what it found, and the parents of
\* the node it starts at are among it.
LEMMA SearchGrows ==
    ASSUME NEW g, NEW f, NEW n, \A x : Parents(g, {x}) \subseteq Parents(f, {x})
    PROVE  /\ Upstream(g, n) \subseteq Upstream(f, n)
           /\ Parents(f, {n}) \subseteq Upstream(f, n)
<1>. DEFINE N == Cardinality(Ids)
            Behind == {k \in Nat : ~(/\ Levels(g, n)[k] \subseteq Levels(f, n)[k]
                                     /\ n \in Levels(f, n)[k])}
<1>1. \A S, T : S \subseteq T => Parents(g, S) \subseteq Parents(f, T)
  <2>1. \A h, S, y : y \in Parents(h, S) <=> \E x \in S : y \in Parents(h, {x})
    BY DEF Parents
  <2>. QED
    BY <2>1
<1>2. \A S, T : S \subseteq T => Wider(g, S) \subseteq Wider(f, T)
  BY <1>1 DEF Wider
<1>3. Behind = {}
  <2>. SUFFICES ASSUME Behind # {} PROVE FALSE
    OBVIOUS
  <2>1. PICK k \in Behind : \A j \in Behind : k <= j
    <3>. Behind \in SUBSET Nat
      OBVIOUS
    <3>. HIDE DEF Behind
    <3>. QED
      BY LeastNumber
  <2>2. k # 0
    BY <2>1, LevelByLevel
  <2>3. k - 1 \in Nat /\ k - 1 \notin Behind /\ k - 1 + 1 = k
    BY <2>1, <2>2
  <2>4. Levels(g, n)[k] = Wider(g, Levels(g, n)[k - 1])
        /\ Levels(f, n)[k] = Wider(f, Levels(f, n)[k - 1])
    BY <2>3, LevelByLevel
  <2>. QED
    BY <1>2, <2>1, <2>3, <2>4 DEF Wider
<1>4. N \in Nat
  BY EditingAssumption, FS_CardinalityType
<1>5. Levels(g, n)[N] \subseteq Levels(f, n)[N] /\ {n} \subseteq Levels(f, n)[N]
  BY <1>3, <1>4
<1>6. \A S, T : S \subseteq T => Parents(f, S) \subseteq Parents(f, T)
  BY DEF Parents
<1>. HIDE DEF N
<1>. QED
  BY <1>1, <1>5, <1>6, UpstreamIsSearched DEF N

-----------------------------------------------------------------------------
(* What a fix does to the checks. *)

\* Nodes keep their types and, but for what is switched on, their facts; and parents.
LEMMA FixedFacts ==
    ASSUME NEW g \in Graphs, NEW n \in Present(g), NEW A, NEW helper, HelpersFor(g, A, helper)
    PROVE  LET f == ApplyFixes(g, n, A, helper)
           IN  /\ \A x \in Present(g) :
                     /\ f.type[x] = g.type[x]
                     /\ f.config[x] = g.config[x] \cup (IF x = n THEN Switched(A) ELSE {})
               /\ \A a \in A \cap Inserts : /\ helper[a] \in Present(f)
                                            /\ f.type[helper[a]] = HelperType[a]
<1>. DEFINE f == ApplyFixes(g, n, A, helper)
            madeBy(x) == {a \in A \cap Inserts : helper[a] = x}
<1>1. \A x \in Ids : f.type[x] = IF madeBy(x) = {} THEN g.type[x]
                                 ELSE HelperType[CHOOSE a \in madeBy(x) : TRUE]
  BY DEF ApplyFixes
<1>2. \A x \in Ids : f.config[x] = IF x = n THEN g.config[x] \cup Switched(A)
                                   ELSE IF madeBy(x) = {} THEN g.config[x] ELSE {}
  BY DEF ApplyFixes
<1>3. \A x \in Present(g) : x \in Ids /\ madeBy(x) = {}
  BY DEF HelpersFor, Present
<1>4. \A a \in A \cap Inserts : helper[a] \in Ids /\ madeBy(helper[a]) = {a}
  BY DEF HelpersFor, Ids
<1>5. \A a \in A \cap Inserts : f.type[helper[a]] = HelperType[a]
  <2>. SUFFICES ASSUME NEW a \in A \cap Inserts PROVE f.type[helper[a]] = HelperType[a]
    OBVIOUS
  <2>1. (CHOOSE b \in madeBy(helper[a]) : TRUE) = a
    BY <1>4
  <2>. QED
    BY <1>1, <1>4, <2>1
<1>6. \A a \in A \cap Inserts : helper[a] \in Present(f)
  BY FixedNodes
<1>. HIDE DEF f, madeBy
<1>. QED
  BY <1>1, <1>2, <1>3, <1>5, <1>6 DEF f

LEMMA FixedUpstream ==
    ASSUME NEW g \in Graphs, NEW n \in Present(g), NEW A, NEW helper, HelpersFor(g, A, helper)
    PROVE  LET f == ApplyFixes(g, n, A, helper)
           IN  /\ \A x, slug : UpstreamHas(g, x, slug) /\ slug # "none" => UpstreamHas(f, x, slug)
               /\ \A slug : AnyHas(g, slug) => AnyHas(f, slug)
               /\ \A a \in A \cap Inserts : AnyHas(f, HelperType[a])
               /\ \A a \in A \cap Inserts : IsUpstream(a) => UpstreamHas(f, n, HelperType[a])
<1>. DEFINE f == ApplyFixes(g, n, A, helper)
<1>1. \A x : Parents(g, {x}) \subseteq Parents(f, {x})
  <2>. SUFFICES ASSUME NEW x PROVE Parents(g, {x}) \subseteq Parents(f, {x})
    OBVIOUS
  <2>1. Parents(f, {x}) =
            Parents(g, {x})
            \cup {helper[a] : a \in {b \in A \cap Inserts : IsUpstream(b) /\ x = n}}
            \cup {n : a \in {b \in A \cap Inserts : ~IsUpstream(b) /\ x = helper[b]}}
    BY FixedParents
  <2>. QED
    BY <2>1
<1>2. \A x : Upstream(g, x) \subseteq Upstream(f, x) /\ Parents(f, {x}) \subseteq Upstream(f, x)
  <2>. HIDE DEF f
  <2>. QED
    BY <1>1, SearchGrows
<1>3. \A x : Upstream(g, x) \subseteq Ids
  BY UpstreamIsSearched DEF Parents, Graphs
<1>4. \A x \in Present(g) : f.type[x] = g.type[x]
  BY FixedFacts
<1>5. \A a \in A \cap Inserts : helper[a] \in Present(f) /\ f.type[helper[a]] = HelperType[a]
  BY FixedFacts
<1>6. \A a \in A \cap Inserts : IsUpstream(a) => helper[a] \in Parents(f, {n})
  <2>1. Parents(f, {n}) =
            Parents(g, {n})
            \cup {helper[a] : a \in {b \in A \cap Inserts : IsUpstream(b) /\ n = n}}
            \cup {n : a \in {b \in A \cap Inserts : ~IsUpstream(b) /\ n = helper[b]}}
    BY FixedParents
  <2>. QED
    BY <2>1
<1>7. Present(g) \subseteq Present(f)
  BY FixedNodes
<1>. HIDE DEF f
<1>8. \A x, slug : UpstreamHas(g, x, slug) /\ slug # "none" => UpstreamHas(f, x, slug)
  BY <1>2, <1>3, <1>4 DEF UpstreamHas, Present
<1>9. \A slug : AnyHas(g, slug) => AnyHas(f, slug)
  BY <1>4, <1>7 DEF AnyHas
<1>10. \A a \in A \cap Inserts : AnyHas(f, HelperType[a])
  BY <1>5 DEF AnyHas
<1>11. \A a \in A \cap Inserts : IsUpstream(a) => UpstreamHas(f, n, HelperType[a])
  BY <1>2, <1>5, <1>6 DEF UpstreamHas
<1>. QED
  BY <1>8, <1>9, <1>10, <1>11 DEF f

\* The checks, one by one.
LEMMA PassesByName ==
    ASSUME NEW g, NEW n, NEW r
    PROVE  /\ Passes("data_minimisation", g, n, r) = ("manyFields" \notin g.config[n])
           /\ Passes("consent_gate_present", g, n, r)
                 = (g.type[n] \notin LawfulBasis \cap r.active \/ UpstreamHas(g, n, "consent-gate"))
           /\ Passes("pii_handling_configured", g, n, r)
                 = (g.type[n] \notin Personal \cap r.active \/ "piiHandling" \in g.config[n])
           /\ Passes("retention_policy", g, n, r) = r.retention
           /\ Passes("guardrail_present", g, n, r) = UpstreamHas(g, n, "guardrail")
           /\ Passes("human_loop_for_high_impact", g, n, r)
                 = ("highImpact" \in g.config[n] =>
                        AnyHas(g, "human-in-the-loop") \/ AnyHas(g, "approval-gate"))
           /\ Passes("bias_check_configured", g, n, r) = AnyHas(g, "bias-checker")
           /\ Passes("audit_logging_enabled", g, n, r) = ("audited" \in g.config[n])
           /\ Passes("node_description_set", g, n, r) = ("described" \in g.config[n])
           /\ Passes("output_justification", g, n, r) = ("justified" \in g.config[n])
  BY DEF Passes

\* A fix opens no gap on any node.
LEMMA FixKeepsChecks ==
    ASSUME NEW g \in Graphs, NEW n \in Present(g), NEW A, NEW helper, HelpersFor(g, A, helper),
           NEW x \in Present(g), NEW r
    PROVE  Passed(g, x, r) \subseteq Passed(ApplyFixes(g, n, A, helper), x, r)
<1>. DEFINE f == ApplyFixes(g, n, A, helper)
<1>1. /\ f.type[x] = g.type[x]
      /\ g.config[x] \subseteq f.config[x]
      /\ f.config[x] \subseteq g.config[x] \cup {"audited", "justified"}
  BY FixedFacts DEF Switched
<1>2. /\ \A slug : UpstreamHas(g, x, slug) /\ slug # "none" => UpstreamHas(f, x, slug)
      /\ \A slug : AnyHas(g, slug) => AnyHas(f, slug)
  BY FixedUpstream
<1>. HIDE DEF f
<1>3. ASSUME NEW c \in AllChecks, Passes(c, g, x, r) PROVE Passes(c, f, x, r)
  <2>1. CASE c = "data_minimisation"
    BY <1>1, <1>3, <2>1, PassesByName
  <2>2. CASE c = "consent_gate_present"
    BY <1>1, <1>2, <1>3, <2>2, PassesByName
  <2>3. CASE c = "pii_handling_configured"
    BY <1>1, <1>3, <2>3, PassesByName
  <2>4. CASE c = "retention_policy"
    BY <1>3, <2>4, PassesByName
  <2>5. CASE c = "guardrail_present"
    BY <1>2, <1>3, <2>5, PassesByName
  <2>6. CASE c = "human_loop_for_high_impact"
    BY <1>1, <1>2, <1>3, <2>6, PassesByName
  <2>7. CASE c = "bias_check_configured"
    BY <1>2, <1>3, <2>7, PassesByName
  <2>8. CASE c = "audit_logging_enabled"
    <3>1. \A h : Passes(c, h, x, r) = ("audited" \in h.config[x])
      BY <2>8, PassesByName
    <3>. QED
      BY <1>1, <1>3, <3>1
  <2>9. CASE c = "node_description_set"
    BY <1>1, <1>3, <2>9, PassesByName
  <2>10. CASE c = "output_justification"
    <3>1. \A h : Passes(c, h, x, r) = ("justified" \in h.config[x])
      BY <2>10, PassesByName
    <3>. QED
      BY <1>1, <1>3, <3>1
  <2>. QED
    BY <2>1, <2>2, <2>3, <2>4, <2>5, <2>6, <2>7, <2>8, <2>9, <2>10
    DEF AllChecks, Responsible, Ethical, Explainable
<1>. QED
  BY <1>3 DEF Passed, f

\* A fix closes the gaps it was asked to close on its node, but for the anonymiser's.
LEMMA FixClosesGaps ==
    ASSUME NEW g \in Graphs, NEW n \in Present(g), NEW A, NEW helper, HelpersFor(g, A, helper),
           NEW r
    PROVE  AutoFixes(Passed(ApplyFixes(g, n, A, helper), n, r)) \cap A
              \subseteq {"INSERT_PII_ANONYMISER_DOWNSTREAM"}
<1>. DEFINE f == ApplyFixes(g, n, A, helper)
<1>1. /\ \A a \in A \cap Inserts : AnyHas(f, HelperType[a])
      /\ \A a \in A \cap Inserts : IsUpstream(a) => UpstreamHas(f, n, HelperType[a])
  BY FixedUpstream
<1>2. f.config[n] = g.config[n] \cup Switched(A)
  BY FixedFacts
<1>. HIDE DEF f
<1>3. "INSERT_CONSENT_GATE_UPSTREAM" \in A => Passes("consent_gate_present", f, n, r)
  <2>1. /\ "INSERT_CONSENT_GATE_UPSTREAM" \in Inserts
        /\ HelperType["INSERT_CONSENT_GATE_UPSTREAM"] = "consent-gate"
        /\ IsUpstream("INSERT_CONSENT_GATE_UPSTREAM")
    BY DEF Inserts, HelperType, IsUpstream
  <2>2. UpstreamHas(f, n, "consent-gate") => Passes("consent_gate_present", f, n, r)
    BY PassesByName DEF Passes
  <2>. QED
    BY <1>1, <2>1, <2>2
<1>4. "INSERT_GUARDRAIL_UPSTREAM" \in A => Passes("guardrail_present", f, n, r)
  <2>1. /\ "INSERT_GUARDRAIL_UPSTREAM" \in Inserts
        /\ HelperType["INSERT_GUARDRAIL_UPSTREAM"] = "guardrail"
        /\ IsUpstream("INSERT_GUARDRAIL_UPSTREAM")
    BY DEF Inserts, HelperType, IsUpstream
  <2>2. Passes("guardrail_present", f, n, r) = UpstreamHas(f, n, "guardrail")
    BY PassesByName
  <2>. QED
    BY <1>1, <2>1, <2>2
<1>5. "INSERT_HUMAN_LOOP_DOWNSTREAM" \in A => Passes("human_loop_for_high_impact", f, n, r)
  <2>1. /\ "INSERT_HUMAN_LOOP_DOWNSTREAM" \in Inserts
        /\ HelperType["INSERT_HUMAN_LOOP_DOWNSTREAM"] = "human-in-the-loop"
    BY DEF Inserts, HelperType
  <2>2. AnyHas(f, "human-in-the-loop") => Passes("human_loop_for_high_impact", f, n, r)
    BY PassesByName DEF Passes
  <2>. QED
    BY <1>1, <2>1, <2>2
<1>6. "INSERT_BIAS_CHECKER_DOWNSTREAM" \in A => Passes("bias_check_configured", f, n, r)
  <2>1. /\ "INSERT_BIAS_CHECKER_DOWNSTREAM" \in Inserts
        /\ HelperType["INSERT_BIAS_CHECKER_DOWNSTREAM"] = "bias-checker"
    BY DEF Inserts, HelperType
  <2>2. Passes("bias_check_configured", f, n, r) = AnyHas(f, "bias-checker")
    BY PassesByName
  <2>. QED
    BY <1>1, <2>1, <2>2
<1>7. "ENABLE_AUDIT_LOGGING" \in A => Passes("audit_logging_enabled", f, n, r)
  <2>1. "ENABLE_AUDIT_LOGGING" \in A => "audited" \in f.config[n]
    BY <1>2 DEF Switched
  <2>. QED
    BY <2>1, PassesByName
<1>8. "ENABLE_OUTPUT_JUSTIFICATION" \in A => Passes("output_justification", f, n, r)
  <2>1. "ENABLE_OUTPUT_JUSTIFICATION" \in A => "justified" \in f.config[n]
    BY <1>2 DEF Switched
  <2>. QED
    BY <2>1, PassesByName
<1>9. ASSUME NEW c \in Fixable, ~Passes(c, f, n, r), FixOf(c) \in A
      PROVE  FixOf(c) = "INSERT_PII_ANONYMISER_DOWNSTREAM"
  <2>1. c \in {"consent_gate_present", "pii_handling_configured", "guardrail_present",
               "human_loop_for_high_impact", "bias_check_configured",
               "audit_logging_enabled", "output_justification"}
    BY DEF Fixable, AllChecks, Responsible, Ethical, Explainable
  <2>2. c = "pii_handling_configured"
    BY <1>3, <1>4, <1>5, <1>6, <1>7, <1>8, <1>9, <2>1 DEF FixOf
  <2>. QED
    BY <2>2 DEF FixOf
<1>. QED
  BY <1>9 DEF AutoFixes, Passed, Fixable, f

-----------------------------------------------------------------------------
(* The total grows with each check passed. *)

\* The points of a part: no less for more checks, and 25 more for one in the part.
LEMMA PointsGrow ==
    ASSUME NEW p, NEW q, p \subseteq q, NEW part
    PROVE  /\ Points(p, part) \in Nat /\ Points(q, part) \in Nat
           /\ Points(p, part) <= Points(q, part)
           /\ \A c \in AllChecks : c \in part /\ c \in q /\ c \notin p
                 => Points(p, part) + 25 <= Points(q, part)
<1>. DEFINE of(s, c) == IF c \in s \cap part THEN Weight(c) ELSE 0
<1>1. \A c : Weight(c) \in 25..34
  BY DEF Weight
<1>2. \A c : /\ of(p, c) \in Nat /\ of(q, c) \in Nat /\ of(p, c) <= of(q, c)
             /\ c \in part /\ c \in q /\ c \notin p => of(p, c) + 25 <= of(q, c)
  BY <1>1
<1>3. \A s : Points(s, part) =
          of(s, "data_minimisation") + of(s, "consent_gate_present")
          + of(s, "pii_handling_configured") + of(s, "retention_policy")
          + of(s, "guardrail_present") + of(s, "human_loop_for_high_impact")
          + of(s, "bias_check_configured") + of(s, "audit_logging_enabled")
          + of(s, "node_description_set") + of(s, "output_justification")
  BY DEF Points
<1>. HIDE DEF of
<1>. QED
  BY <1>2, <1>3 DEF AllChecks, Responsible, Ethical, Explainable

LEMMA TotalGrows ==
    ASSUME NEW p \in SUBSET AllChecks, NEW q \in SUBSET AllChecks, p \subseteq q, p # q
    PROVE  Total(p) < Total(q)
<1>1. PICK c \in AllChecks : c \in q /\ c \notin p
  OBVIOUS
<1>2. c \in Responsible \/ c \in Ethical \/ c \in Explainable
  BY DEF AllChecks
<1>3. /\ Points(p, Responsible) \in Nat /\ Points(q, Responsible) \in Nat
      /\ Points(p, Responsible) <= Points(q, Responsible)
      /\ c \in Responsible => Points(p, Responsible) + 25 <= Points(q, Responsible)
  BY <1>1, PointsGrow
<1>4. /\ Points(p, Ethical) \in Nat /\ Points(q, Ethical) \in Nat
      /\ Points(p, Ethical) <= Points(q, Ethical)
      /\ c \in Ethical => Points(p, Ethical) + 25 <= Points(q, Ethical)
  BY <1>1, PointsGrow
<1>5. /\ Points(p, Explainable) \in Nat /\ Points(q, Explainable) \in Nat
      /\ Points(p, Explainable) <= Points(q, Explainable)
      /\ c \in Explainable => Points(p, Explainable) + 25 <= Points(q, Explainable)
  BY <1>1, PointsGrow
<1>6. \A i, j \in Nat : i + 10 <= j => i \div 10 < j \div 10
  OBVIOUS
<1>. DEFINE P == 4 * Points(p, Responsible) + 3 * Points(p, Ethical)
                     + 3 * Points(p, Explainable) + 5
            Q == 4 * Points(q, Responsible) + 3 * Points(q, Ethical)
                     + 3 * Points(q, Explainable) + 5
<1>7. P \in Nat /\ Q \in Nat /\ P + 10 <= Q
  BY <1>2, <1>3, <1>4, <1>5
<1>. HIDE DEF P, Q
<1>8. P \div 10 < Q \div 10
  BY <1>6, <1>7
<1>. QED
  BY <1>8 DEF Total, P, Q

\* Whatever is asked of a fix and whatever was fixed before, on every graph: it closes
\* the gaps it was asked to close on its node, but for the one the insertion of an
\* anonymiser stands for, opens none on any node, and raises the total wherever it
\* closes one (applyRexFixesToGraph against computeNodeRexScore).
THEOREM FixesHelp ==
    Spec => FixHelps
<1>1. EditingInv /\ [Next]_vars =>
          \A k \in Requests : Fixes(k) =>
             LET before(n) == Passed(read[k], n, setting)
                 after(n) == Passed(graph', n, setting)
             IN  /\ AutoFixes(after(target[k])) \cap actions[k]
                       \subseteq {"INSERT_PII_ANONYMISER_DOWNSTREAM"}
                 /\ \A n \in Present(read[k]) :
                       /\ before(n) \subseteq after(n)
                       /\ before(n) # after(n) => Total(before(n)) < Total(after(n))
  <2>. SUFFICES ASSUME EditingInv, [Next]_vars, NEW k \in Requests, Fixes(k)
                PROVE  /\ AutoFixes(Passed(graph', target[k], setting)) \cap actions[k]
                             \subseteq {"INSERT_PII_ANONYMISER_DOWNSTREAM"}
                       /\ \A n \in Present(read[k]) :
                             LET before == Passed(read[k], n, setting)
                                 after == Passed(graph', n, setting)
                             IN  /\ before \subseteq after
                                 /\ before # after => Total(before) < Total(after)
    OBVIOUS
  <2>1. Write(k) /\ graph # None
    BY FixesAreWrites
  <2>2. PICK helper : /\ HelpersFor(read[k], actions[k], helper)
                      /\ graph' = ApplyFixes(read[k], target[k], actions[k], helper)
    BY <2>1, WriteStep
  <2>3. read[k] \in Graphs /\ target[k] \in Present(read[k])
    BY <2>1 DEF EditingInv, Write, Grown
  <2>4. AutoFixes(Passed(graph', target[k], setting)) \cap actions[k]
            \subseteq {"INSERT_PII_ANONYMISER_DOWNSTREAM"}
    BY <2>2, <2>3, FixClosesGaps
  <2>5. \A n \in Present(read[k]) :
            Passed(read[k], n, setting) \subseteq Passed(graph', n, setting)
    BY <2>2, <2>3, FixKeepsChecks
  <2>6. \A g, n : Passed(g, n, setting) \in SUBSET AllChecks
    BY DEF Passed
  <2>. QED
    BY <2>4, <2>5, <2>6, TotalGrows
<1>. QED
  BY <1>1, EditingInit, EditingStep, PTL DEF Spec, FixHelps
=============================================================================
