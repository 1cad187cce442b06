-------------------------- MODULE RetrievalProperties --------------------------
(* What the retrievals of module Retrieval should do. *)
EXTENDS Retrieval

Branch == [pc : Points, query : {1, 2}, attempt : Nat, asked : Nat,
           last : Seq(UNION {Range(a) : a \in Answers}),
           satisfied : BOOLEAN, refused : BOOLEAN, failed : BOOLEAN]

TypeOK ==
    /\ budget \in [requests : Nat, successes : Nat, empties : Nat, failures : Nat, duration : Nat]
    /\ mode \in {"walking", "retrieving", "failed"}
    /\ config \in Configs
    /\ branches \in Seq(Branch) /\ Len(branches) <= MaxPlans
    /\ mode = "retrieving" => DOMAIN branches = DOMAIN Plans(config)
    /\ outcome.kind \in {"none", "result", "error"} /\ outcome.selected \in 0..MaxPlans
    /\ visits \in 0..MaxVisits

Asking == {i \in DOMAIN branches : branches[i].pc = "asking"}

\* Branches that run side by side each look at the budget before a request and add to
\* it after the answer, so that requests pass their limit by less than the number of
\* branches, those in flight included; likewise failures, which only a request can add
\* to; and where no visit is speculative the limits hold exactly.
OvershootBounded ==
    budget.requests + Cardinality(Asking) <= MaxRequests + MaxPlans - 1

FailuresBounded ==
    budget.failures + Cardinality(Asking) <= MaxFailures + MaxPlans - 1

SequentialWithinBudget ==
    (\A c \in Configs : ~SideBySide(c)) =>
        /\ budget.requests <= MaxRequests
        /\ budget.failures <= MaxFailures

BudgetKept == OvershootBounded /\ FailuresBounded /\ SequentialWithinBudget

\* A branch asks at most once for each attempt it is configured for.
Allowance(p) == 1 + p.maxRetries + (IF p.hasFallback THEN 1 ELSE 0)

\* An engine branch that ends without enough matches has made every attempt it is
\* allowed, or the budget was gone.
GivesUpOnlyAtTheEnd ==
    mode = "retrieving" /\ ~config.byNode =>
        \A i \in DOMAIN branches :
            branches[i].pc = "done" /\ ~branches[i].satisfied =>
                \/ branches[i].asked = Allowance(Plans(config)[i])
                \/ branches[i].refused /\ BudgetExceeded(budget)

\* Once a branch is satisfied where the first one wins, and they take turns, nothing
\* more is asked in this visit.
NothingAskedAfterTheWinner ==
    [][(/\ mode = "retrieving" /\ mode' = "retrieving"
        /\ ~config.byNode /\ ~config.speculative
        /\ Strategy(config) \in {"single", "first-non-empty", "adaptive"}
        /\ \E i \in DOMAIN branches : branches[i].satisfied)
       => Asking' \subseteq Asking]_vars

\* Where the strategy takes one branch, it takes a satisfied one if there is one: not
\* an earlier branch that ran out of attempts with too few matches.
SatisfiedIsTaken ==
    /\ outcome.kind = "result" /\ ~config.byNode
    /\ Strategy(config) \in {"single", "first-non-empty", "adaptive"}
    /\ \E i \in DOMAIN branches : branches[i].satisfied
    => /\ outcome.selected \in DOMAIN branches
       /\ branches[outcome.selected].satisfied

\* A merged result has no chunk twice, is sorted, and what it leaves out was beaten: by
\* the same chunk with a score no worse, or by topK matches with scores no worse.
MergeKeepsTheBest ==
    outcome.kind = "result" /\ Strategy(config) = "merge" =>
        LET m == outcome.matches
            Beaten(x) ==
                \/ \E k \in DOMAIN m : m[k].chunk = x.chunk /\ m[k].score >= x.score
                \/ Len(m) = config.topK /\ \A k \in DOMAIN m : m[k].score >= x.score
        IN  /\ \A j, k \in DOMAIN m : j < k => m[j].chunk # m[k].chunk /\ m[j].score >= m[k].score
            /\ \A i \in DOMAIN branches : \A x \in Range(branches[i].last) : Beaten(x)

==============================================================================
