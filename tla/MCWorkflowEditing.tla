-------------------------- MODULE MCWorkflowEditing --------------------------
EXTENDS WorkflowEditingProperties, TLC

(* A branch and, under one of its outcomes, a node that handles persons.   *)
Branch ==
    [type |-> [x \in Ids |-> IF x = 1 THEN "evaluation" ELSE IF x = 2 THEN "llm" ELSE "none"],
     config |-> [x \in Ids |-> IF x = 2 THEN {"highImpact"} ELSE {}],
     edges |-> {[source |-> 1, target |-> 2, condition |-> "true"]}]
MCStarts == {Branch}

MCSlugs == {"evaluation", "llm", "consent-gate", "pii-anonymiser", "guardrail",
            "human-in-the-loop", "bias-checker"}

MCAsked == {{"INSERT_GUARDRAIL_UPSTREAM"},
            {"INSERT_PII_ANONYMISER_DOWNSTREAM", "ENABLE_AUDIT_LOGGING"}}

Symmetry == Permutations(Requests)
=============================================================================
