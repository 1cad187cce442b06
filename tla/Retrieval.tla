------------------------------- MODULE Retrieval -------------------------------
(***************************************************************************)
(* Retrieval of knowledge during one execution: what runNodeRetrieval does *)
(* in front of a node that is configured for it, and what a                *)
(* knowledge-retrieve node does through context.retrieveKnowledge, one     *)
(* after another, against the counters of executionContext.retrieval.      *)
(* Answers of retrieveKnowledge, which the worker provides, are inputs.    *)
(*                                                                         *)
(* A visit is one such retrieval.  Its retrievers that have a query are    *)
(* its plans; branch b runs plan b.  One action is what happens between    *)
(* two awaits, except that a branch that is refused or satisfied is done   *)
(* at once: all that follows is an event whose errors are swallowed.       *)
(***************************************************************************)
EXTENDS Integers, SequencesExt

CONSTANTS
    Configs,        \* the retrieval configurations of the nodes
    Answers,        \* what retrieveKnowledge may return: matches in some order
    Durations,      \* what a request may take
    MaxRequests, MaxFailures, MaxDuration,  \* limits of executionContext.retrieval
    MaxPlans,       \* bound: branches of one visit
    MaxVisits       \* bound: retrievals of an execution

Strategies == {"single", "merge", "first-non-empty", "best-score", "adaptive"}

\* A configured retriever.  hasQuery: a query resolves, for a knowledge-retrieve node
\* the query or the fallback query.  A key is a name with the suffixes put after it.
IsRetriever(p) ==
    /\ p.enabled \in BOOLEAN /\ p.key \in Seq(Range(p.key))
    /\ p.maxRetries \in 0..5 /\ p.minMatches \in 0..50
    /\ p.hasQuery \in BOOLEAN /\ p.hasFallback \in BOOLEAN /\ p.failOnError \in BOOLEAN

\* preferred is what the memory holds under preferredRetrieverMemoryKey.
IsConfig(c) ==
    /\ c.byNode \in BOOLEAN         \* a knowledge-retrieve node
    /\ c.strategy \in Strategies
    /\ c.speculative \in BOOLEAN
    /\ c.failOnError \in BOOLEAN /\ c.failOnEmpty \in BOOLEAN
    /\ c.minMatches \in 0..50 /\ c.topK \in 1..50
    /\ c.retrievers \in Seq(Range(c.retrievers))
    /\ \A i \in DOMAIN c.retrievers : IsRetriever(c.retrievers[i])

ASSUME RetrievalAssumption ==
    /\ MaxRequests \in Nat \ {0} /\ MaxFailures \in Nat \ {0} /\ MaxDuration \in Nat \ {0}
    /\ Durations \subseteq Nat
    /\ MaxPlans \in Nat \ {0} /\ MaxVisits \in Nat
    /\ Configs # {} /\ \A c \in Configs : IsConfig(c)
    /\ \A a \in Answers : a \in Seq(Range(a)) /\ \A i \in DOMAIN a : a[i].score \in Int

VARIABLES
    budget,         \* executionContext.retrieval
    mode,           \* what the engine is at
    config,         \* of the visit
    branches,       \* of the visit
    outcome,        \* of the last visit
    visits          \* history: visits so far

vars == <<budget, mode, config, branches, outcome, visits>>

----------------------------------------------------------------------------
(* Plans of a visit *)

\* Puts the preferred plan first.
ApplyAdaptiveOrdering(plans, preferred) ==
    LET at == SelectInSeq(plans, LAMBDA p : p.key = preferred)
    IN  IF at = 0 THEN plans
        ELSE <<plans[at]>> \o SelectSeq(plans, LAMBDA p : p.key # preferred)

\* The enabled retrievers; one whose key was seen n times before gets the suffix n + 1.
ParseRetrieverConfigs(c) ==
    LET on == SelectSeq(c.retrievers, LAMBDA p : p.enabled)
        Seen(i) == Cardinality({j \in 1..(i - 1) : on[j].key = on[i].key})
    IN  [i \in DOMAIN on |->
            IF Seen(i) = 0 THEN on[i]
            ELSE [on[i] EXCEPT !.key = Append(on[i].key, Seen(i) + 1)]]

ResolveRetrieverPlans(c) == SelectSeq(ParseRetrieverConfigs(c), LAMBDA p : p.hasQuery)

\* A knowledge-retrieve node uses its retrievers as they are, in order; one without a
\* query is passed over, or ends the visit.
NodePlans(c) ==
    LET none == SelectInSeq(c.retrievers, LAMBDA p : ~p.hasQuery)
    IN  IF c.failOnError /\ none # 0 THEN SubSeq(c.retrievers, 1, none - 1)
        ELSE SelectSeq(c.retrievers, LAMBDA p : p.hasQuery)

Strategy(c) == IF Len(ResolveRetrieverPlans(c)) = 1 THEN "single" ELSE c.strategy

\* With strategy single only the first plan is run.
Plans(c) ==
    LET plans == ResolveRetrieverPlans(c)
    IN  IF c.byNode THEN NodePlans(c)
        ELSE IF plans # <<>> /\ Strategy(c) = "single" THEN <<plans[1]>>
        ELSE IF Strategy(c) = "adaptive" THEN ApplyAdaptiveOrdering(plans, c.preferred)
        ELSE plans

\* Branches of one visit run side by side, or one after another.
SideBySide(c) == ~c.byNode /\ c.speculative /\ Strategy(c) # "single"

\* Selecting and reordering leaves a sequence of retrievers.
ASSUME PlansAssumption ==
    \A c \in Configs :
        /\ Plans(c) \in Seq(Range(Plans(c))) /\ Len(Plans(c)) <= MaxPlans
        /\ \A i \in DOMAIN Plans(c) : Plans(c)[i].maxRetries \in 0..5

----------------------------------------------------------------------------
(* One branch *)

Points == {"waiting", "asking", "pausing", "done"}

NewBranch == [pc |-> "waiting", query |-> 1, attempt |-> 1, asked |-> 0, last |-> <<>>,
              satisfied |-> FALSE, refused |-> FALSE, failed |-> FALSE]

\* Variant: no limit on requests.
NoRequestLimit(u) == u.failures >= MaxFailures \/ u.duration >= MaxDuration

BudgetExceeded(u) ==
    \/ u.requests >= MaxRequests
    \/ u.failures >= MaxFailures
    \/ u.duration >= MaxDuration

\* Before every attempt the branch looks at the budget: it asks, or it is refused
\* and loses what it had found.
Reach(br) ==
    IF BudgetExceeded(budget)
    THEN [br EXCEPT !.pc = "done", !.refused = TRUE, !.last = <<>>]
    ELSE [br EXCEPT !.pc = "asking", !.asked = br.asked + 1]

\* Variant: a fallback query that is never tried.
MoreOfFirst(p, br) == br.query = 1 /\ br.attempt <= p.maxRetries

\* The fallback query is tried once, after the last attempt of the first one.
MoreAttempts(p, br) ==
    \/ br.query = 1 /\ br.attempt <= p.maxRetries
    \/ br.query = 1 /\ p.hasFallback

NextAttempt(p, br) ==
    IF br.query = 1 /\ br.attempt <= p.maxRetries
    THEN [br EXCEPT !.attempt = br.attempt + 1]
    ELSE [br EXCEPT !.query = 2, !.attempt = 1]

RecordRetrievalAttempt(duration, status) ==
    budget' = [requests  |-> budget.requests + 1,
               successes |-> budget.successes + (IF status = "success" THEN 1 ELSE 0),
               empties   |-> budget.empties + (IF status = "empty" THEN 1 ELSE 0),
               failures  |-> budget.failures + (IF status = "failed" THEN 1 ELSE 0),
               duration  |-> budget.duration + duration]

FilterRetrievalMatches(p, matches) == SelectSeq(matches, LAMBDA m : m.score >= p.minScore)

\* And of an answer, a sequence of matches.
ASSUME FilterAssumption ==
    \A c \in Configs, a \in Answers : \A i \in DOMAIN Plans(c) :
        FilterRetrievalMatches(Plans(c)[i], a) \in Seq(Range(a))

----------------------------------------------------------------------------
(* The result of a visit *)

\* Variant: the first match for a chunk is kept, whatever its score.
FirstMatches(found) ==
    {i \in DOMAIN found : \A j \in 1..(i - 1) : found[j].chunk # found[i].chunk}

\* One match for a chunk, the best and of equals the earliest, best first.
BestMatches(found) ==
    {i \in DOMAIN found :
        \A j \in DOMAIN found :
            found[j].chunk = found[i].chunk =>
                \/ found[j].score < found[i].score
                \/ found[j].score = found[i].score /\ i <= j}

MergeMatches(found, topK) ==
    LET FirstSeen(i) == SelectInSeq(found, LAMBDA m : m.chunk = found[i].chunk)
        Before(i, j) == \/ found[i].score > found[j].score
                        \/ found[i].score = found[j].score /\ FirstSeen(i) < FirstSeen(j)
        best == BestMatches(found)
        sorted == CHOOSE s \in [1..Cardinality(best) -> best] :
                      \A j, k \in DOMAIN s : j < k => Before(s[j], s[k])
    IN  [k \in 1..(IF Len(sorted) < topK THEN Len(sorted) ELSE topK) |-> found[sorted[k]]]

Found(b) == FlattenSeq([i \in DOMAIN b |-> b[i].last])

\* Variant: the first branch with any match wins.
WinnerByMatch(b) == SelectInSeq(b, LAMBDA br : br.last # <<>>)

Winner(b) == SelectInSeq(b, LAMBDA br : br.satisfied)

\* The best first match; the engine breaks ties by the number of matches.
BestScore(b, byNode) ==
    LET Better(i, j) ==
            \/ b[i].last # <<>> /\ b[j].last = <<>>
            \/ /\ b[i].last # <<>> /\ b[j].last # <<>>
               /\ \/ b[i].last[1].score > b[j].last[1].score
                  \/ /\ b[i].last[1].score = b[j].last[1].score
                     /\ ~byNode /\ Len(b[i].last) > Len(b[j].last)
    IN  CHOOSE i \in DOMAIN b :
            /\ \A j \in DOMAIN b : ~Better(j, i)
            /\ \A j \in 1..(i - 1) : Better(i, j)

Nothing  == [kind |-> "none", selected |-> 0, matches |-> <<>>]
Throws   == [kind |-> "error", selected |-> 0, matches |-> <<>>]
Takes(b, i) == [kind |-> "result", selected |-> i, matches |-> b[i].last]
Returns(matches) == [kind |-> "result", selected |-> 0, matches |-> matches]

\* Of runNodeRetrieval, when the branches it waits for are done.
EngineResult(c, b) ==
    LET s == Strategy(c)
        plans == Plans(c)
        hardError == \E i \in DOMAIN b : ~b[i].satisfied /\ plans[i].failOnError
        found == \E i \in DOMAIN b : b[i].last # <<>>
        merged == MergeMatches(Found(b), c.topK)
        best == BestScore(b, FALSE)
    IN  IF s = "single" THEN
            IF ~b[1].satisfied /\ (plans[1].failOnError \/ c.failOnError)
            THEN Throws ELSE Takes(b, 1)
        ELSE IF s = "merge" THEN
            IF Len(merged) < c.minMatches /\ c.failOnError /\ (hardError \/ ~found)
            THEN Throws ELSE Returns(merged)
        ELSE IF s = "best-score" THEN
            IF found /\ (b[best].satisfied \/ ~c.failOnError) THEN Takes(b, best)
            ELSE IF c.failOnError THEN Throws ELSE Returns(<<>>)
        ELSE IF Winner(b) # 0 THEN Takes(b, Winner(b))
        ELSE IF c.failOnError THEN Throws
        ELSE Returns(b[IF c.speculative THEN 1 ELSE Len(b)].last)

\* Of a knowledge-retrieve node: selectResult among its branches.
NodeResult(c, b) ==
    LET found == SelectInSeq(b, LAMBDA br : br.last # <<>>)
        nonEmpty == IF found = 0 THEN 1 ELSE found
        preferred == SelectInSeq(Plans(c), LAMBDA p : p.key = c.preferred)
        chosen == IF c.strategy = "first-non-empty" THEN nonEmpty
                  ELSE IF c.strategy = "best-score" THEN BestScore(b, TRUE)
                  ELSE IF c.strategy = "adaptive"
                       THEN IF preferred = 0 THEN nonEmpty ELSE preferred
                  ELSE 1
        result == IF c.strategy = "merge" THEN Returns(MergeMatches(Found(b), c.topK))
                  ELSE Takes(b, chosen)
        failed == \/ \E i \in DOMAIN b : b[i].failed \/ b[i].refused
                  \/ Len(NodePlans(c)) < Len(c.retrievers)
    IN  IF c.failOnError /\ failed THEN Throws
        ELSE IF b = <<>> THEN IF c.failOnEmpty THEN Throws ELSE Returns(<<>>)
        ELSE IF Len(result.matches) < c.minMatches /\ c.failOnEmpty THEN Throws
        ELSE result

----------------------------------------------------------------------------

Init ==
    /\ budget = [requests |-> 0, successes |-> 0, empties |-> 0, failures |-> 0, duration |-> 0]
    /\ mode = "walking"
    /\ config = CHOOSE c \in Configs : TRUE
    /\ branches = <<>>
    /\ outcome = Nothing
    /\ visits = 0

\* A node with a retrieval configuration is reached; the branches of a speculative
\* visit all start before any of them is answered.
Visit(c) ==
    /\ mode = "walking" /\ visits < MaxVisits
    /\ visits' = visits + 1
    /\ config' = c
    /\ LET plans == Plans(c)
           starts(i) == i = 1 \/ SideBySide(c)
       IN  /\ branches' = [i \in DOMAIN plans |->
                              IF starts(i) THEN Reach(NewBranch) ELSE NewBranch]
           /\ mode' = IF plans = <<>> /\ ~c.byNode THEN "failed" ELSE "retrieving"
           /\ outcome' = IF plans = <<>> /\ ~c.byNode THEN Throws ELSE Nothing
    /\ UNCHANGED budget

\* retrieveKnowledge answers branch i of the engine.
Answer(i) ==
    /\ mode = "retrieving" /\ ~config.byNode /\ branches[i].pc = "asking"
    /\ \E a \in Answers, d \in Durations :
          LET p == Plans(config)[i]
              matches == FilterRetrievalMatches(p, a)
              enough == Len(matches) >= p.minMatches
          IN  /\ RecordRetrievalAttempt(d, IF enough THEN "success" ELSE "empty")
              /\ branches' = [branches EXCEPT ![i].last = matches, ![i].satisfied = enough,
                                 ![i].pc = IF enough THEN "done" ELSE "pausing"]
    /\ UNCHANGED <<mode, config, outcome, visits>>

\* retrieveKnowledge throws to branch i of the engine.
Fail(i) ==
    /\ mode = "retrieving" /\ ~config.byNode /\ branches[i].pc = "asking"
    /\ \E d \in Durations : RecordRetrievalAttempt(d, "failed")
    /\ branches' = [branches EXCEPT ![i].failed = TRUE, ![i].pc = "pausing"]
    /\ UNCHANGED <<mode, config, outcome, visits>>

\* What context.retrieveKnowledge returns to a node, any match counting as success.
NodeAnswer(i) ==
    /\ mode = "retrieving" /\ config.byNode /\ branches[i].pc = "asking"
    /\ \E a \in Answers, d \in Durations :
          /\ RecordRetrievalAttempt(d, IF a # <<>> THEN "success" ELSE "empty")
          /\ branches' = [branches EXCEPT ![i].last = a, ![i].satisfied = (a # <<>>),
                             ![i].pc = "done"]
    /\ UNCHANGED <<mode, config, outcome, visits>>

\* context.retrieveKnowledge throws to a node what retrieveKnowledge threw.
NodeFail(i) ==
    /\ mode = "retrieving" /\ config.byNode /\ branches[i].pc = "asking"
    /\ \E d \in Durations : RecordRetrievalAttempt(d, "failed")
    /\ branches' = [branches EXCEPT ![i].failed = TRUE, ![i].pc = "done"]
    /\ UNCHANGED <<mode, config, outcome, visits>>

\* Branch i has written its event and slept: it tries again, or gives up.
Continue(i) ==
    /\ mode = "retrieving" /\ branches[i].pc = "pausing"
    /\ LET p == Plans(config)[i]
       IN  branches' = [branches EXCEPT ![i] =
                           IF MoreAttempts(p, branches[i])
                           THEN Reach(NextAttempt(p, branches[i]))
                           ELSE [branches[i] EXCEPT !.pc = "done"]]
    /\ UNCHANGED <<budget, mode, config, outcome, visits>>

\* Variant: with adaptive ordering all branches are run.
EndsVisitUnlessAdaptive(c, br) ==
    IF c.byNode THEN c.failOnError /\ (br.failed \/ br.refused)
    ELSE Strategy(c) = "first-non-empty" /\ br.satisfied

\* A branch that ends the visit, so that no later one is started: the first that is
\* satisfied, where the first one wins, and for a node one that fails.
EndsVisit(c, br) ==
    IF c.byNode THEN c.failOnError /\ (br.failed \/ br.refused)
    ELSE Strategy(c) \in {"first-non-empty", "adaptive"} /\ br.satisfied

Finished == {i \in DOMAIN branches : branches[i].pc = "done"}

VisitEnds ==
    \/ Finished = DOMAIN branches
    \/ ~SideBySide(config) /\ \E i \in Finished : EndsVisit(config, branches[i])

\* One after another: the next branch starts when the one before is done.
StartNext(i) ==
    /\ mode = "retrieving" /\ ~VisitEnds
    /\ branches[i].pc = "waiting" /\ i - 1 \in Finished
    /\ branches' = [branches EXCEPT ![i] = Reach(branches[i])]
    /\ UNCHANGED <<budget, mode, config, outcome, visits>>

\* The visit returns its result, or throws.  The engine's throws fail the execution, a
\* node's may be followed by another attempt of the node.
Conclude ==
    /\ mode = "retrieving" /\ VisitEnds
    /\ LET tried == [i \in Finished |-> branches[i]]
       IN  outcome' = IF config.byNode THEN NodeResult(config, tried)
                      ELSE EngineResult(config, tried)
    /\ mode' \in IF outcome'.kind # "error" THEN {"walking"}
                 ELSE IF config.byNode THEN {"failed", "walking"} ELSE {"failed"}
    /\ UNCHANGED <<budget, config, branches, visits>>

Answered(i) == Answer(i) \/ Fail(i) \/ NodeAnswer(i) \/ NodeFail(i)

Step(i) == Answered(i) \/ Continue(i) \/ StartNext(i)

Next ==
    \/ \E c \in Configs : Visit(c)
    \/ \E i \in DOMAIN branches : Step(i)
    \/ Conclude

Spec == Init /\ [][Next]_vars

==============================================================================
