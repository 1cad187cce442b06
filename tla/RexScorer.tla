------------------------------ MODULE RexScorer ------------------------------
(***************************************************************************)
(* The graph of a workflow as its row keeps it, the checks of              *)
(* packages/engine/src/rex/scorer.ts on a node of it, and what             *)
(* applyRexFixesToGraph makes of it.                                       *)
(*                                                                         *)
(* A graph maps ids to types ("none": no such node) and to the facts of    *)
(* their configuration the checks ask for, and has a set of edges.         *)
(***************************************************************************)
EXTENDS Integers, FiniteSets

CONSTANTS
    Nodes,          \* ids the editor of a workflow gives, numbered as in its array
    Helpers,        \* ids a fix gives, each a fresh UUID; numbered as they are given
    Slugs,          \* types of nodes: those an editor gives, for which the engine has an
                    \* implementation, and those a fix inserts, for which it has none
    LawfulBasis,    \* types whose manifest wants a lawful basis
    Personal        \* types whose manifest states a medium or high PII risk

Ids == Nodes \cup Helpers
Facts == {"manyFields", "piiHandling", "highImpact", "audited", "described", "justified"}
Conditions == {"none", "true", "false"}

Graphs == [type : [Ids -> Slugs \cup {"none"}], config : [Ids -> SUBSET Facts],
           edges : SUBSET [source : Ids, target : Ids, condition : Conditions]]

Present(g) == {n \in Ids : g.type[n] # "none"}

Parents(g, S) == {e.source : e \in {x \in g.edges : x.target \in S}}

(* The search of checkUpstreamNodeBySlug, level by level. *)
Upstream(g, n) ==
    LET level[k \in Nat] == IF k = 0 THEN {n} ELSE level[k - 1] \cup Parents(g, level[k - 1])
    IN  Parents(g, level[Cardinality(Ids)])

UpstreamHas(g, n, slug) == \E p \in Upstream(g, n) : g.type[p] = slug
AnyHas(g, slug) == \E p \in Present(g) : g.type[p] = slug

Responsible == {"data_minimisation", "consent_gate_present", "pii_handling_configured",
                "retention_policy"}
Ethical == {"guardrail_present", "human_loop_for_high_impact", "bias_check_configured"}
Explainable == {"audit_logging_enabled", "node_description_set", "output_justification"}
AllChecks == Responsible \cup Ethical \cup Explainable

(* What a tenant and the catalogue of plugins have set: whether there is an*)
(* active retention policy for executions, and whose manifests are active; *)
(* a node without one counts as harmless.                                  *)
Settings == [retention : BOOLEAN, active : SUBSET Slugs]

Passes(check, g, n, setting) ==
    LET has(fact) == fact \in g.config[n]
        says(slugs) == g.type[n] \in slugs \cap setting.active
    IN  CASE check = "data_minimisation" -> ~has("manyFields")
          [] check = "consent_gate_present" ->
                ~says(LawfulBasis) \/ UpstreamHas(g, n, "consent-gate")
          [] check = "pii_handling_configured" ->
                ~says(Personal) \/ has("piiHandling")
          [] check = "retention_policy" -> setting.retention
          [] check = "guardrail_present" -> UpstreamHas(g, n, "guardrail")
          [] check = "human_loop_for_high_impact" ->
                has("highImpact") => AnyHas(g, "human-in-the-loop") \/ AnyHas(g, "approval-gate")
          [] check = "bias_check_configured" -> AnyHas(g, "bias-checker")
          [] check = "audit_logging_enabled" -> has("audited")
          [] check = "node_description_set" -> has("described")
          [] check = "output_justification" -> has("justified")

Passed(g, n, setting) == {c \in AllChecks : Passes(c, g, n, setting)}

(* Four checks of 25 points, three of 34, 33 and 33 twice. *)
Weight(check) ==
    IF check \in Responsible THEN 25
    ELSE IF check \in {"guardrail_present", "audit_logging_enabled"} THEN 34 ELSE 33

Points(passed, part) ==
    LET of(c) == IF c \in passed \cap part THEN Weight(c) ELSE 0
    IN  of("data_minimisation") + of("consent_gate_present") + of("pii_handling_configured")
        + of("retention_policy") + of("guardrail_present") + of("human_loop_for_high_impact")
        + of("bias_check_configured") + of("audit_logging_enabled")
        + of("node_description_set") + of("output_justification")

(* Math.round of 0.4 R + 0.3 E + 0.3 X. *)
Total(passed) ==
    (4 * Points(passed, Responsible) + 3 * Points(passed, Ethical)
        + 3 * Points(passed, Explainable) + 5) \div 10

-----------------------------------------------------------------------------
(* The fixes. *)

FixOf(check) ==
    CASE check = "consent_gate_present" -> "INSERT_CONSENT_GATE_UPSTREAM"
      [] check = "pii_handling_configured" -> "INSERT_PII_ANONYMISER_DOWNSTREAM"
      [] check = "guardrail_present" -> "INSERT_GUARDRAIL_UPSTREAM"
      [] check = "human_loop_for_high_impact" -> "INSERT_HUMAN_LOOP_DOWNSTREAM"
      [] check = "bias_check_configured" -> "INSERT_BIAS_CHECKER_DOWNSTREAM"
      [] check = "audit_logging_enabled" -> "ENABLE_AUDIT_LOGGING"
      [] check = "output_justification" -> "ENABLE_OUTPUT_JUSTIFICATION"

Fixable == AllChecks \ {"data_minimisation", "retention_policy", "node_description_set"}
Actions == {FixOf(c) : c \in Fixable}
AutoFixes(passed) == {FixOf(c) : c \in Fixable \ passed}

HelperType ==
    [INSERT_CONSENT_GATE_UPSTREAM |-> "consent-gate",
     INSERT_PII_ANONYMISER_DOWNSTREAM |-> "pii-anonymiser",
     INSERT_GUARDRAIL_UPSTREAM |-> "guardrail",
     INSERT_HUMAN_LOOP_DOWNSTREAM |-> "human-in-the-loop",
     INSERT_BIAS_CHECKER_DOWNSTREAM |-> "bias-checker"]

Inserts == DOMAIN HelperType
IsUpstream(action) == action \in {"INSERT_CONSENT_GATE_UPSTREAM", "INSERT_GUARDRAIL_UPSTREAM"}

Edge(s, t) == [source |-> s, target |-> t, condition |-> "none"]

(* asEdges takes source and target of an edge and nothing else. *)
AsEdges(edges) == {Edge(e.source, e.target) : e \in edges}

\* Variant: the helper is put on the wrong side.
HelperEdgeReversed(action, helper, n) ==
    IF IsUpstream(action) THEN Edge(n, helper) ELSE Edge(helper, n)
HelperEdge(action, helper, n) ==
    IF IsUpstream(action) THEN Edge(helper, n) ELSE Edge(n, helper)

(* The facts the other two actions switch on. *)
Switched(actions) ==
    {"audited" : a \in actions \cap {"ENABLE_AUDIT_LOGGING"}}
    \cup {"justified" : a \in actions \cap {"ENABLE_OUTPUT_JUSTIFICATION"}}

\* Variant: a helper that is there already is used again.
ApplyFixesReusing(g, n, actions, helper) ==
    LET inserted == actions \cap Inserts
        old(a) == {x \in Present(g) : g.type[x] = HelperType[a]}
        used(a) == IF old(a) = {} THEN helper[a] ELSE CHOOSE x \in old(a) : TRUE
    IN  [type |-> [x \in Ids |-> IF \E a \in inserted : used(a) = x
                                 THEN HelperType[CHOOSE a \in inserted : used(a) = x]
                                 ELSE g.type[x]],
         config |-> [g.config EXCEPT ![n] = @ \cup Switched(actions)],
         edges |-> AsEdges(g.edges) \cup {HelperEdge(a, used(a), n) : a \in inserted}]
(* "helper" gives each inserting action the id of its new node. *)
ApplyFixes(g, n, actions, helper) ==
    LET inserted == actions \cap Inserts
        madeBy(x) == {a \in inserted : helper[a] = x}
    IN  [type |-> [x \in Ids |-> IF madeBy(x) = {} THEN g.type[x]
                                 ELSE HelperType[CHOOSE a \in madeBy(x) : TRUE]],
         config |-> [x \in Ids |-> IF x = n THEN g.config[x] \cup Switched(actions)
                                   ELSE IF madeBy(x) = {} THEN g.config[x] ELSE {}],
         edges |-> AsEdges(g.edges) \cup {HelperEdge(a, helper[a], n) : a \in inserted}]
=============================================================================
