---------------------------- MODULE RetrievalProofs ----------------------------
(* The budget, the visits and the merges of module Retrieval, for every set of *)
(* configurations and whatever is answered.                                    *)
EXTENDS RetrievalProperties, FiniteSetTheorems, TLAPS

Fields == {"pc", "query", "attempt", "asked", "last", "satisfied", "refused", "failed"}

\* Of the types, what the budget depends on.
BranchesOK ==
    /\ \E n \in 0..MaxPlans : DOMAIN branches = 1..n
    /\ \A i \in DOMAIN branches : DOMAIN branches[i] = Fields

Counters ==
    budget \in [requests : Nat, successes : Nat, empties : Nat, failures : Nat, duration : Nat]

InTurn == \A c \in Configs : ~SideBySide(c)

\* In turn, a branch that has started finds those before it done, and a branch that
\* asks did so within the limits, which nobody else moves.
TurnsKept ==
    InTurn =>
        /\ \A i, j \in DOMAIN branches :
              j < i /\ branches[i].pc # "waiting" => branches[j].pc = "done"
        /\ Asking # {} => budget.requests < MaxRequests /\ budget.failures < MaxFailures

BudgetInv ==
    /\ Counters
    /\ BranchesOK
    /\ config \in Configs
    /\ OvershootBounded
    /\ FailuresBounded
    /\ TurnsKept
    /\ SequentialWithinBudget

\* A visit has at most MaxPlans branches, and so have those of them that ask.
LEMMA FewBranches ==
    ASSUME NEW n \in 0..MaxPlans, NEW A \in SUBSET (1..n)
    PROVE  IsFiniteSet(A) /\ Cardinality(A) \in 0..MaxPlans
<1>1. n \in Int /\ MaxPlans \in Nat
  BY RetrievalAssumption
<1>2. IsFiniteSet(1..n) /\ Cardinality(1..n) = IF 1 > n THEN 0 ELSE n - 1 + 1
  BY <1>1, FS_Interval
<1>3. IsFiniteSet(A) /\ Cardinality(A) <= Cardinality(1..n)
  BY <1>2, FS_Subset
<1>4. Cardinality(A) \in Nat
  BY <1>3, FS_CardinalityType
<1>. QED
  BY <1>1, <1>2, <1>3, <1>4

LEMMA AskingIsFinite ==
    ASSUME BranchesOK
    PROVE  IsFiniteSet(Asking) /\ Cardinality(Asking) \in 0..MaxPlans
<1>1. PICK n \in 0..MaxPlans : DOMAIN branches = 1..n
  BY DEF BranchesOK
<1>2. Asking \in SUBSET (1..n)
  BY <1>1 DEF Asking
<1>. QED
  BY <1>1, <1>2, FewBranches

\* Reach asks only within the budget, and otherwise is done.
LEMMA ReachEffect ==
    ASSUME NEW br, DOMAIN br = Fields
    PROVE  /\ DOMAIN Reach(br) = Fields
           /\ \/ Reach(br).pc = "done"
              \/ Reach(br).pc = "asking" /\ ~BudgetExceeded(budget)
  BY DEF Reach, Fields

LEMMA NextAttemptFields ==
    ASSUME NEW p, NEW br, DOMAIN br = Fields
    PROVE  DOMAIN NextAttempt(p, br) = Fields
  BY DEF NextAttempt, Fields

\* What an answer or a failure does to the branch and the counters.
LEMMA AnswerEffect ==
    ASSUME Counters, BranchesOK, NEW i \in DOMAIN branches, Answered(i)
    PROVE  /\ i \in Asking /\ Asking' = Asking \ {i}
           /\ DOMAIN branches' = DOMAIN branches
           /\ \A j \in DOMAIN branches :
                 /\ DOMAIN branches'[j] = Fields
                 /\ j # i => branches'[j] = branches[j]
           /\ branches'[i].pc \in {"done", "pausing"}
           /\ Counters'
           /\ budget'.requests = budget.requests + 1
           /\ budget'.failures \in {budget.failures, budget.failures + 1}
           /\ config' = config
<1>1. CASE Answer(i)
  <2>1. PICK a \in Answers, d \in Durations :
            LET q == Plans(config)[i]
                matches == FilterRetrievalMatches(q, a)
                enough == Len(matches) >= q.minMatches
            IN  /\ RecordRetrievalAttempt(d, IF enough THEN "success" ELSE "empty")
                /\ branches' = [branches EXCEPT ![i].last = matches, ![i].satisfied = enough,
                       ![i].pc = IF enough THEN "done" ELSE "pausing"]
    BY <1>1 DEF Answer
  <2>. DEFINE q == Plans(config)[i]
              matches == FilterRetrievalMatches(q, a)
              enough == Len(matches) >= q.minMatches
              point == IF enough THEN "done" ELSE "pausing"
              status == IF enough THEN "success" ELSE "empty"
  <2>2. /\ RecordRetrievalAttempt(d, status)
        /\ branches' = [branches EXCEPT ![i].last = matches, ![i].satisfied = enough,
                            ![i].pc = point]
    BY <2>1
  <2>3. status \in {"success", "empty"} /\ point \in {"done", "pausing"} /\ d \in Nat
    BY <2>1, RetrievalAssumption
  <2>4. branches[i].pc = "asking" /\ config' = config
    BY <1>1 DEF Answer
  <2>. HIDE DEF matches, enough, point, status
  <2>. QED
    BY <2>2, <2>3, <2>4 DEF RecordRetrievalAttempt, Counters, BranchesOK, Asking, Fields
<1>2. CASE NodeAnswer(i)
  <2>1. PICK a \in Answers, d \in Durations :
            /\ RecordRetrievalAttempt(d, IF a # <<>> THEN "success" ELSE "empty")
            /\ branches' = [branches EXCEPT ![i].last = a, ![i].satisfied = (a # <<>>),
                               ![i].pc = "done"]
    BY <1>2 DEF NodeAnswer
  <2>2. d \in Nat
    BY <2>1, RetrievalAssumption
  <2>. QED
    BY <1>2, <2>1, <2>2
    DEF NodeAnswer, RecordRetrievalAttempt, Counters, BranchesOK, Asking, Fields
<1>3. CASE Fail(i)
  <2>1. PICK d \in Durations : RecordRetrievalAttempt(d, "failed")
    BY <1>3 DEF Fail
  <2>2. d \in Nat
    BY <2>1, RetrievalAssumption
  <2>. QED
    BY <1>3, <2>1, <2>2
    DEF Fail, RecordRetrievalAttempt, Counters, BranchesOK, Asking, Fields
<1>4. CASE NodeFail(i)
  <2>1. PICK d \in Durations : RecordRetrievalAttempt(d, "failed")
    BY <1>4 DEF NodeFail
  <2>2. d \in Nat
    BY <2>1, RetrievalAssumption
  <2>. QED
    BY <1>4, <2>1, <2>2
    DEF NodeFail, RecordRetrievalAttempt, Counters, BranchesOK, Asking, Fields
<1>. QED
  BY <1>1, <1>2, <1>3, <1>4 DEF Answered

\* What a branch does that goes on: it is done, or it asks within the budget.
LEMMA MoveEffect ==
    ASSUME BranchesOK, NEW i \in DOMAIN branches, Continue(i) \/ StartNext(i)
    PROVE  /\ branches[i].pc \in {"pausing", "waiting"}
           /\ branches[i].pc = "waiting" => i - 1 \in Finished
           /\ \/ Asking' = Asking /\ branches'[i].pc = "done"
              \/ Asking' = Asking \union {i} /\ ~BudgetExceeded(budget)
           /\ DOMAIN branches' = DOMAIN branches
           /\ \A j \in DOMAIN branches :
                 /\ DOMAIN branches'[j] = Fields
                 /\ j # i => branches'[j] = branches[j]
           /\ budget' = budget /\ config' = config
<1>. DEFINE p == Plans(config)[i]
<1>1. DOMAIN branches[i] = Fields
  BY DEF BranchesOK
<1>2. PICK new : /\ branches' = [branches EXCEPT ![i] = new]
                 /\ DOMAIN new = Fields
                 /\ new.pc = "done" \/ (new.pc = "asking" /\ ~BudgetExceeded(budget))
  <2>1. CASE Continue(i)
    <3>1. CASE MoreAttempts(p, branches[i])
      BY <1>1, <2>1, <3>1, NextAttemptFields, ReachEffect DEF Continue
    <3>2. CASE ~MoreAttempts(p, branches[i])
      <4>. DEFINE ended == [branches[i] EXCEPT !.pc = "done"]
      <4>1. branches' = [branches EXCEPT ![i] = ended]
        BY <2>1, <3>2 DEF Continue
      <4>2. DOMAIN ended = Fields /\ ended.pc = "done"
        BY <1>1 DEF Fields
      <4>. QED
        BY <4>1, <4>2
    <3>. QED
      BY <3>1, <3>2
  <2>2. CASE StartNext(i)
    BY <1>1, <2>2, ReachEffect DEF StartNext
  <2>. QED
    BY <2>1, <2>2
<1>3. branches[i].pc \in {"pausing", "waiting"}
      /\ (branches[i].pc = "waiting" => i - 1 \in Finished)
      /\ budget' = budget /\ config' = config
  BY DEF Continue, StartNext
<1>. QED
  BY <1>2, <1>3 DEF BranchesOK, Asking

LEMMA BudgetInit == Init => BudgetInv
<1>. SUFFICES ASSUME Init PROVE BudgetInv
  OBVIOUS
<1>1. config \in Configs
  BY RetrievalAssumption DEF Init
<1>2. Counters /\ BranchesOK
  <2>1. 0 \in 0..MaxPlans
    BY RetrievalAssumption
  <2>2. branches = <<>> /\ DOMAIN branches = 1..0
    BY DEF Init
  <2>3. BranchesOK
    BY <2>1, <2>2 DEF BranchesOK
  <2>. QED
    BY <2>3 DEF Init, Counters
<1>3. Asking = {} /\ budget.requests = 0 /\ budget.failures = 0 /\ branches = <<>>
  BY DEF Init, Asking
<1>4. Cardinality({}) = 0
  BY FS_EmptySet
<1>. QED
  BY <1>1, <1>2, <1>3, <1>4, RetrievalAssumption
  DEF BudgetInv, OvershootBounded, FailuresBounded, TurnsKept, SequentialWithinBudget

\* All branches of a visit that start at once see the same budget.
LEMMA VisitStep ==
    ASSUME BudgetInv, NEW c \in Configs, Visit(c)
    PROVE  BudgetInv'
<1>. DEFINE n == Len(Plans(c))
<1>1. n \in 0..MaxPlans /\ DOMAIN Plans(c) = 1..n
  BY PlansAssumption
<1>2. DOMAIN NewBranch = Fields /\ NewBranch.pc = "waiting"
  BY DEF NewBranch, Fields
<1>3. /\ DOMAIN branches' = 1..n
      /\ \A i \in 1..n : branches'[i] = IF i = 1 \/ SideBySide(c) THEN Reach(NewBranch) ELSE NewBranch
      /\ budget' = budget /\ config' = c
  BY <1>1 DEF Visit
<1>4. /\ DOMAIN Reach(NewBranch) = Fields
      /\ Reach(NewBranch).pc = "done" \/ (Reach(NewBranch).pc = "asking" /\ ~BudgetExceeded(budget))
  BY <1>2, ReachEffect
<1>5. BranchesOK'
  BY <1>1, <1>2, <1>3, <1>4 DEF BranchesOK
<1>6. Asking' # {} => ~BudgetExceeded(budget)
  BY <1>2, <1>3, <1>4 DEF Asking
<1>7. Cardinality(Asking') \in 0..MaxPlans
  <2>1. Asking' \in SUBSET (1..n)
    BY <1>3 DEF Asking
  <2>. QED
    BY <1>1, <2>1, FewBranches
<1>8. Asking' = {} => Cardinality(Asking') = 0
  BY FS_EmptySet
<1>9. Cardinality(Asking) \in 0..MaxPlans
  BY AskingIsFinite DEF BudgetInv
<1>10. OvershootBounded' /\ FailuresBounded'
  BY <1>3, <1>6, <1>7, <1>8, <1>9, RetrievalAssumption
  DEF BudgetInv, OvershootBounded, FailuresBounded, Counters, BudgetExceeded
<1>11. TurnsKept'
  <2>. SUFFICES ASSUME InTurn PROVE TurnsKept'
    BY DEF TurnsKept, InTurn, SideBySide, Strategy
  <2>1. ~SideBySide(c)
    BY DEF InTurn
  <2>2. \A i, j \in 1..n : j < i => branches'[i].pc = "waiting"
    BY <1>2, <1>3, <2>1
  <2>3. Asking' # {} => budget'.requests < MaxRequests /\ budget'.failures < MaxFailures
    BY <1>3, <1>6, RetrievalAssumption DEF BudgetInv, Counters, BudgetExceeded
  <2>. QED
    BY <1>3, <2>2, <2>3 DEF TurnsKept
<1>. QED
  BY <1>3, <1>5, <1>10, <1>11 DEF BudgetInv, Counters, SequentialWithinBudget

LEMMA AnswerStep ==
    ASSUME BudgetInv, NEW i \in DOMAIN branches, Answered(i)
    PROVE  BudgetInv'
<1>. USE DEF BudgetInv
<1>1. /\ i \in Asking /\ Asking' = Asking \ {i}
      /\ DOMAIN branches' = DOMAIN branches
      /\ \A j \in DOMAIN branches :
            DOMAIN branches'[j] = Fields /\ (j # i => branches'[j] = branches[j])
      /\ branches'[i].pc \in {"done", "pausing"}
      /\ Counters'
      /\ budget'.requests = budget.requests + 1
      /\ budget'.failures \in {budget.failures, budget.failures + 1}
      /\ config' = config
  BY AnswerEffect
<1>2. BranchesOK'
  BY <1>1 DEF BranchesOK
<1>3. IsFiniteSet(Asking) /\ Cardinality(Asking) \in 0..MaxPlans
  BY AskingIsFinite
<1>4. Cardinality(Asking') = Cardinality(Asking) - 1
  BY <1>1, <1>3, FS_RemoveElement
<1>5. OvershootBounded' /\ FailuresBounded'
  <2>1. budget.requests \in Nat /\ budget.failures \in Nat
    BY DEF Counters
  <2>2. budget.requests + Cardinality(Asking) <= MaxRequests + MaxPlans - 1
    BY DEF OvershootBounded
  <2>3. budget.failures + Cardinality(Asking) <= MaxFailures + MaxPlans - 1
    BY DEF FailuresBounded
  <2>4. budget'.requests + Cardinality(Asking') <= MaxRequests + MaxPlans - 1
    BY <1>1, <1>3, <1>4, <2>1, <2>2, RetrievalAssumption
  <2>5. budget'.failures + Cardinality(Asking') <= MaxFailures + MaxPlans - 1
    BY <1>1, <1>3, <1>4, <2>1, <2>3, RetrievalAssumption
  <2>. QED
    BY <2>4, <2>5 DEF OvershootBounded, FailuresBounded
<1>6. TurnsKept' /\ SequentialWithinBudget'
  <2>. SUFFICES ASSUME InTurn PROVE TurnsKept' /\ SequentialWithinBudget'
    BY DEF TurnsKept, SequentialWithinBudget, InTurn
  <2>1. \A j, k \in DOMAIN branches :
            k < j /\ branches[j].pc # "waiting" => branches[k].pc = "done"
    BY DEF TurnsKept
  <2>2. \A j \in Asking : j = i
    BY <1>1, <2>1 DEF Asking, BranchesOK
  <2>3. Asking' = {}
    BY <1>1, <2>2
  <2>4. \A j, k \in DOMAIN branches' :
            k < j /\ branches'[j].pc # "waiting" => branches'[k].pc = "done"
    BY <1>1, <2>1 DEF Asking, BranchesOK
  <2>5. budget.requests < MaxRequests /\ budget.failures < MaxFailures
    BY <1>1 DEF TurnsKept
  <2>. QED
    BY <1>1, <2>3, <2>4, <2>5, RetrievalAssumption
    DEF TurnsKept, SequentialWithinBudget, Counters
<1>. QED
  BY <1>1, <1>2, <1>5, <1>6

LEMMA MoveStep ==
    ASSUME BudgetInv, NEW i \in DOMAIN branches, Continue(i) \/ StartNext(i)
    PROVE  BudgetInv'
<1>. USE DEF BudgetInv
<1>1. /\ branches[i].pc \in {"pausing", "waiting"}
      /\ branches[i].pc = "waiting" => i - 1 \in Finished
      /\ \/ Asking' = Asking /\ branches'[i].pc = "done"
         \/ Asking' = Asking \union {i} /\ ~BudgetExceeded(budget)
      /\ DOMAIN branches' = DOMAIN branches
      /\ \A j \in DOMAIN branches :
            DOMAIN branches'[j] = Fields /\ (j # i => branches'[j] = branches[j])
      /\ budget' = budget /\ config' = config
  BY MoveEffect
<1>2. BranchesOK' /\ Counters'
  BY <1>1 DEF BranchesOK, Counters
<1>3. Cardinality(Asking') \in 0..MaxPlans
  <2>1. PICK n \in 0..MaxPlans : DOMAIN branches = 1..n
    BY DEF BranchesOK
  <2>2. Asking' \in SUBSET (1..n)
    BY <1>1, <2>1 DEF Asking
  <2>. QED
    BY <2>1, <2>2, FewBranches
<1>4. \/ Asking' = Asking
      \/ ~BudgetExceeded(budget)
  BY <1>1
<1>5. OvershootBounded' /\ FailuresBounded'
  BY <1>1, <1>3, <1>4, RetrievalAssumption
  DEF OvershootBounded, FailuresBounded, Counters, BudgetExceeded
<1>6. TurnsKept'
  <2>. SUFFICES ASSUME InTurn PROVE TurnsKept'
    BY DEF TurnsKept, InTurn
  <2>1. \A j, k \in DOMAIN branches :
            k < j /\ branches[j].pc # "waiting" => branches[k].pc = "done"
    BY DEF TurnsKept
  <2>2. \A k \in DOMAIN branches : k < i => branches[k].pc = "done"
    BY <1>1, <2>1 DEF Finished, BranchesOK
  <2>3. \A j \in DOMAIN branches : i < j => branches[j].pc = "waiting"
    BY <1>1, <2>1
  <2>4. \A j, k \in DOMAIN branches' :
            k < j /\ branches'[j].pc # "waiting" => branches'[k].pc = "done"
    BY <1>1, <2>1, <2>2, <2>3 DEF BranchesOK
  <2>5. Asking' # {} => budget'.requests < MaxRequests /\ budget'.failures < MaxFailures
    BY <1>1, RetrievalAssumption DEF TurnsKept, Counters, BudgetExceeded
  <2>. QED
    BY <2>4, <2>5 DEF TurnsKept
<1>. QED
  BY <1>1, <1>2, <1>5, <1>6 DEF SequentialWithinBudget

LEMMA BudgetInvStep == BudgetInv /\ [Next]_vars => BudgetInv'
<1>. SUFFICES ASSUME BudgetInv, [Next]_vars PROVE BudgetInv'
  OBVIOUS
<1>1. ASSUME NEW c \in Configs, Visit(c) PROVE BudgetInv'
  BY <1>1, VisitStep
<1>2. ASSUME NEW i \in DOMAIN branches, Step(i) PROVE BudgetInv'
  BY <1>2, AnswerStep, MoveStep DEF Step
<1>3. CASE Conclude
  BY <1>3 DEF Conclude, BudgetInv, Counters, BranchesOK, OvershootBounded, FailuresBounded,
     TurnsKept, InTurn, SequentialWithinBudget, Asking
<1>4. CASE UNCHANGED vars
  BY <1>4 DEF vars, BudgetInv, Counters, BranchesOK, OvershootBounded, FailuresBounded,
     TurnsKept, InTurn, SequentialWithinBudget, Asking
<1>. QED
  BY <1>1, <1>2, <1>3, <1>4 DEF Next

\* Whatever the strategies, retries, answers and failures, the counters pass their
\* limits by less than the branches that run side by side, and where all branches take
\* turns they do not pass them at all.
THEOREM BudgetIsBounded ==
    Spec => []BudgetKept
<1>1. Init => BudgetInv
  BY BudgetInit
<1>2. BudgetInv /\ [Next]_vars => BudgetInv'
  BY BudgetInvStep
<1>3. BudgetInv => BudgetKept
  BY DEF BudgetInv, BudgetKept
<1>. QED
  BY <1>1, <1>2, <1>3, PTL DEF Spec

----------------------------------------------------------------------------
(* The visits of the engine *)

\* What a branch of the engine has asked for when it is where it is, and that it ends
\* without enough matches only after its last attempt or when the budget is gone.
Progress(p, br) ==
    /\ br.pc \in Points
    /\ br.pc = "waiting" => br.asked = 0 /\ br.query = 1 /\ br.attempt = 1
    /\ br.pc # "done" => ~br.satisfied
    /\ br.pc \in {"asking", "pausing"} =>
          \/ br.query = 1 /\ br.attempt \in 1..(p.maxRetries + 1) /\ br.asked = br.attempt
          \/ br.query = 2 /\ p.hasFallback /\ br.asked = Allowance(p)
    /\ br.pc = "done" /\ ~br.satisfied =>
          br.asked = Allowance(p) \/ (br.refused /\ BudgetExceeded(budget))

FirstWins(c) == Strategy(c) \in {"single", "first-non-empty", "adaptive"}

\* Branches that take turns find those before them done, and where the first satisfied
\* one wins, those after it have not started.
InOrder ==
    /\ \A i, j \in DOMAIN branches :
          j < i /\ branches[i].pc # "waiting" => branches[j].pc = "done"
    /\ FirstWins(config) =>
          \A i, j \in DOMAIN branches :
             j < i /\ branches[j].satisfied => branches[i].pc = "waiting"

VisitInv ==
    /\ mode = "retrieving" => DOMAIN branches = DOMAIN Plans(config) /\ outcome = Nothing
    /\ mode = "retrieving" /\ ~config.byNode =>
          /\ \A i \in DOMAIN branches : Progress(Plans(config)[i], branches[i])
          /\ ~SideBySide(config) => InOrder
    /\ SatisfiedIsTaken


\* A set of numbers has a least one: the end of the least interval that ends in it.
LEMMA LeastIsMember ==
    ASSUME NEW S \in SUBSET Nat, S # {}
    PROVE  Min(S) \in S /\ \A y \in S : Min(S) <= y
<1>. DEFINE T == {1..x : x \in S}
<1>1. T \subseteq FiniteSubsetsOf(Nat) /\ T # {}
  <2>1. \A x \in S : 1..x \in SUBSET Nat /\ IsFiniteSet(1..x)
    BY FS_Interval
  <2>. QED
    BY <2>1 DEF FiniteSubsetsOf
<1>2. PICK t \in T : \A u \in T : ~ (<<u, t>> \in StrictSubsetOrdering(Nat))
  <2>. HIDE DEF T
  <2>. QED
    BY <1>1, FS_StrictSubsetOrderingWellFounded, WFMin
<1>3. PICK x \in S : t = 1..x
  BY <1>2
<1>4. ASSUME NEW y \in S PROVE x =< y
  <2>1. ~ (1..y \subseteq 1..x /\ 1..y # 1..x)
    <3>1. 1..y \in T /\ 1..y \in SUBSET Nat /\ 1..x \in SUBSET Nat
      OBVIOUS
    <3>2. ~ (<<1..y, 1..x>> \in StrictSubsetOrdering(Nat))
      <4>. HIDE DEF T
      <4>. QED
        BY <1>2, <1>3, <3>1
    <3>. QED
      BY <3>1, <3>2 DEF StrictSubsetOrdering
  <2>2. x \in Nat /\ y \in Nat
    OBVIOUS
  <2>3. y < x => x \in 1..x /\ x \notin 1..y /\ 1..y \subseteq 1..x
    BY <2>2
  <2>. QED
    BY <2>1, <2>2, <2>3
<1>. QED
  BY <1>4 DEF Min

\* Winner finds a satisfied branch where there is one.
LEMMA WinnerIsSatisfied ==
    ASSUME NEW b, NEW k \in Nat, DOMAIN b = 1..k, Len(b) = k,
           \E i \in DOMAIN b : b[i].satisfied
    PROVE  Winner(b) # 0 /\ Winner(b) \in DOMAIN b /\ b[Winner(b)].satisfied
<1>. DEFINE I == {i \in 1..Len(b) : b[i].satisfied}
<1>1. I \in SUBSET Nat /\ I # {}
  OBVIOUS
<1>2. Min(I) \in I
  <2>. HIDE DEF I
  <2>. QED
    BY <1>1, LeastIsMember
<1>3. Winner(b) = Min(I)
  BY <1>1 DEF Winner, SelectInSeq
<1>. QED
  BY <1>2, <1>3

\* A branch that starts, or tries again, asks once more than before, or is done.
LEMMA ReachProgress ==
    ASSUME NEW p, p.maxRetries \in 0..5, NEW br, DOMAIN br = Fields, Counters,
           ~br.satisfied,
           \/ br.query = 1 /\ br.attempt \in 1..(p.maxRetries + 1) /\ br.asked + 1 = br.attempt
           \/ br.query = 2 /\ p.hasFallback /\ br.asked + 1 = Allowance(p)
    PROVE  Progress(p, Reach(br)) /\ Reach(br).pc # "waiting" /\ ~Reach(br).satisfied
<1>1. CASE BudgetExceeded(budget)
  BY <1>1 DEF Reach, Progress, Points, Fields
<1>2. CASE ~BudgetExceeded(budget)
  BY <1>2 DEF Reach, Progress, Points, Fields
<1>. QED
  BY <1>1, <1>2

\* An attempt that is recorded gives nothing of the budget back.
LEMMA RecordedBudget ==
    ASSUME Counters, NEW d \in Durations, NEW status, RecordRetrievalAttempt(d, status)
    PROVE  BudgetExceeded(budget) => BudgetExceeded(budget')
<1>1. d \in Nat
  BY RetrievalAssumption
<1>. QED
  BY <1>1, RetrievalAssumption DEF Counters, RecordRetrievalAttempt, BudgetExceeded

\* An answer to the engine ends the branch if there is enough in it.
LEMMA EngineAnswerEffect ==
    ASSUME BudgetInv, NEW i \in DOMAIN branches, Answer(i) \/ Fail(i), ~branches[i].satisfied
    PROVE  /\ branches'[i].query = branches[i].query
           /\ branches'[i].attempt = branches[i].attempt
           /\ branches'[i].asked = branches[i].asked
           /\ \/ branches'[i].pc = "done" /\ branches'[i].satisfied
              \/ branches'[i].pc = "pausing" /\ ~branches'[i].satisfied
           /\ BudgetExceeded(budget) => BudgetExceeded(budget')
<1>1. CASE Answer(i)
  <2>1. PICK a \in Answers, d \in Durations :
            LET q == Plans(config)[i]
                matches == FilterRetrievalMatches(q, a)
                enough == Len(matches) >= q.minMatches
            IN  /\ RecordRetrievalAttempt(d, IF enough THEN "success" ELSE "empty")
                /\ branches' = [branches EXCEPT ![i].last = matches, ![i].satisfied = enough,
                       ![i].pc = IF enough THEN "done" ELSE "pausing"]
    BY <1>1 DEF Answer
  <2>. DEFINE q == Plans(config)[i]
              matches == FilterRetrievalMatches(q, a)
              enough == Len(matches) >= q.minMatches
              status == IF enough THEN "success" ELSE "empty"
  <2>2. /\ RecordRetrievalAttempt(d, status)
        /\ branches' = [branches EXCEPT ![i].last = matches, ![i].satisfied = enough,
                            ![i].pc = IF enough THEN "done" ELSE "pausing"]
    BY <2>1
  <2>. HIDE DEF matches, enough, status
  <2>3. BudgetExceeded(budget) => BudgetExceeded(budget')
    BY <2>1, <2>2, RecordedBudget DEF BudgetInv
  <2>4. DOMAIN branches[i] = Fields
    BY DEF BudgetInv, BranchesOK
  <2>5. CASE enough
    BY <2>2, <2>3, <2>4, <2>5 DEF Fields
  <2>6. CASE ~enough
    BY <2>2, <2>3, <2>4, <2>6 DEF Fields
  <2>. QED
    BY <2>5, <2>6
<1>2. CASE Fail(i)
  <2>1. PICK d \in Durations : RecordRetrievalAttempt(d, "failed")
    BY <1>2 DEF Fail
  <2>2. BudgetExceeded(budget) => BudgetExceeded(budget')
    BY <2>1, RecordedBudget DEF BudgetInv
  <2>3. DOMAIN branches[i] = Fields
    BY DEF BudgetInv, BranchesOK
  <2>. QED
    BY <1>2, <2>2, <2>3 DEF Fail, Fields
<1>. QED
  BY <1>1, <1>2

\* An answer leaves the order of the branches as it is: the one it ends has none
\* before it that is not done, and none after it that has started.
LEMMA VisitAnswerStep ==
    ASSUME BudgetInv, VisitInv, NEW i \in DOMAIN branches, Answered(i)
    PROVE  VisitInv'
<1>. USE DEF VisitInv
<1>1. /\ branches[i].pc = "asking"
      /\ DOMAIN branches' = DOMAIN branches
      /\ \A j \in DOMAIN branches : j # i => branches'[j] = branches[j]
      /\ config' = config
  BY AnswerEffect DEF BudgetInv, Asking
<1>2. mode = "retrieving" /\ mode' = mode /\ outcome' = outcome /\ outcome = Nothing
  BY DEF Answered, Answer, Fail, NodeAnswer, NodeFail
<1>3. SatisfiedIsTaken'
  BY <1>2 DEF SatisfiedIsTaken, Nothing
<1>4. CASE config.byNode
  BY <1>1, <1>2, <1>3, <1>4
<1>5. CASE ~config.byNode
  <2>1. Answer(i) \/ Fail(i)
    BY <1>5 DEF Answered, NodeAnswer, NodeFail
  <2>2. \A j \in DOMAIN branches : Progress(Plans(config)[j], branches[j])
    BY <1>2, <1>5
  <2>3. ~branches[i].satisfied
    BY <1>1, <2>2 DEF Progress
  <2>4. /\ branches'[i].query = branches[i].query
        /\ branches'[i].attempt = branches[i].attempt
        /\ branches'[i].asked = branches[i].asked
        /\ \/ branches'[i].pc = "done" /\ branches'[i].satisfied
           \/ branches'[i].pc = "pausing" /\ ~branches'[i].satisfied
        /\ BudgetExceeded(budget) => BudgetExceeded(budget')
    BY <2>1, <2>3, EngineAnswerEffect
  <2>5. ASSUME NEW j \in DOMAIN branches PROVE Progress(Plans(config)[j], branches[j])'
    <3>1. Progress(Plans(config)[j], branches[j])
      BY <2>2
    <3>2. CASE j = i
      BY <1>1, <2>4, <3>1, <3>2 DEF Progress, Points
    <3>3. CASE j # i
      BY <1>1, <2>4, <3>1, <3>3 DEF Progress
    <3>. QED
      BY <3>2, <3>3
  <2>6. ASSUME ~SideBySide(config) PROVE InOrder'
    <3>1. InOrder
      BY <1>2, <1>5, <2>6
    <3>2. \A j \in DOMAIN branches :
              /\ j < i => branches[j].pc = "done"
              /\ j > i => branches[j].pc = "waiting"
      BY <1>1, <3>1 DEF InOrder
    <3>3. \A j, k \in DOMAIN branches' :
              j < k /\ branches'[k].pc # "waiting" => branches'[j].pc = "done"
      BY <1>1, <2>4, <3>1, <3>2 DEF InOrder, BudgetInv, BranchesOK
    <3>4. FirstWins(config) =>
              \A j, k \in DOMAIN branches' :
                  j < k /\ branches'[j].satisfied => branches'[k].pc = "waiting"
      BY <1>1, <2>4, <3>1, <3>2 DEF InOrder, BudgetInv, BranchesOK
    <3>. QED
      BY <1>1, <3>3, <3>4 DEF InOrder
  <2>. QED
    BY <1>1, <1>2, <1>3, <2>5, <2>6
<1>. QED
  BY <1>4, <1>5

LEMMA VisitInvInit == Init => VisitInv
  BY DEF Init, VisitInv, SatisfiedIsTaken, Nothing

\* The first branches of a visit ask for the first time, or find the budget gone.
LEMMA VisitStartStep ==
    ASSUME BudgetInv, NEW c \in Configs, Visit(c)
    PROVE  VisitInv'
<1>. DEFINE n == Len(Plans(c))
<1>1. n \in 0..MaxPlans /\ DOMAIN Plans(c) = 1..n
  BY PlansAssumption
<1>2. /\ DOMAIN NewBranch = Fields /\ NewBranch.pc = "waiting" /\ ~NewBranch.satisfied
      /\ NewBranch.asked = 0 /\ NewBranch.query = 1 /\ NewBranch.attempt = 1
  BY DEF NewBranch, Fields
<1>3. /\ DOMAIN branches' = 1..n
      /\ \A i \in 1..n : branches'[i] = IF i = 1 \/ SideBySide(c) THEN Reach(NewBranch) ELSE NewBranch
      /\ budget' = budget /\ config' = c
      /\ mode' = "retrieving" => outcome' = Nothing
      /\ outcome' \in {Nothing, Throws}
  BY <1>1 DEF Visit
<1>4. ASSUME NEW i \in 1..n
      PROVE  /\ Progress(Plans(c)[i], branches'[i])
             /\ ~branches'[i].satisfied
             /\ i # 1 /\ ~SideBySide(c) => branches'[i].pc = "waiting"
  <2>1. Plans(c)[i].maxRetries \in 0..5
    BY <1>1, PlansAssumption
  <2>2. Progress(Plans(c)[i], Reach(NewBranch)) /\ ~Reach(NewBranch).satisfied
    BY <1>2, <2>1, ReachProgress DEF BudgetInv
  <2>3. Progress(Plans(c)[i], NewBranch)
    BY <1>2 DEF Progress, Points
  <2>. QED
    BY <1>2, <1>3, <2>2, <2>3
<1>5. ASSUME NEW i \in DOMAIN branches' PROVE Progress(Plans(config)[i], branches[i])'
  BY <1>3, <1>4 DEF Progress
<1>6. ~SideBySide(config') => InOrder'
  BY <1>1, <1>3, <1>4 DEF InOrder
<1>7. SatisfiedIsTaken'
  BY <1>3 DEF SatisfiedIsTaken, Nothing, Throws
<1>. QED
  BY <1>1, <1>3, <1>5, <1>6, <1>7 DEF VisitInv

\* What a branch that goes on becomes: done after its last attempt, or what Reach says
\* of its next one.
LEMMA MoveProgress ==
    ASSUME BudgetInv, NEW i \in DOMAIN branches, Continue(i) \/ StartNext(i),
           Plans(config)[i].maxRetries \in 0..5, Progress(Plans(config)[i], branches[i])
    PROVE  /\ Progress(Plans(config)[i], branches'[i])
           /\ branches'[i].pc # "waiting" /\ ~branches'[i].satisfied
<1>. DEFINE p == Plans(config)[i]
            br == branches[i]
<1>1. DOMAIN br = Fields
  BY DEF BudgetInv, BranchesOK
<1>2. CASE Continue(i)
  <2>1. br.pc = "pausing"
    BY <1>2 DEF Continue
  <2>2. CASE MoreAttempts(p, br)
    <3>. DEFINE next == NextAttempt(p, br)
    <3>1. branches'[i] = Reach(next)
      BY <1>2, <2>2 DEF Continue, BudgetInv, BranchesOK
    <3>2. DOMAIN next = Fields
      BY <1>1, NextAttemptFields
    <3>3. /\ ~next.satisfied
          /\ \/ next.query = 1 /\ next.attempt \in 1..(p.maxRetries + 1) /\ next.asked + 1 = next.attempt
             \/ next.query = 2 /\ p.hasFallback /\ next.asked + 1 = Allowance(p)
      <4>1. CASE br.query = 1 /\ br.attempt <= p.maxRetries
        BY <1>1, <2>1, <2>2, <4>1 DEF NextAttempt, Progress, Fields
      <4>2. CASE ~(br.query = 1 /\ br.attempt <= p.maxRetries)
        BY <1>1, <2>1, <2>2, <4>2 DEF NextAttempt, MoreAttempts, Progress, Allowance, Fields
      <4>. QED
        BY <4>1, <4>2
    <3>. HIDE DEF next
    <3>. QED
      BY <3>1, <3>2, <3>3, ReachProgress DEF BudgetInv
  <2>3. CASE ~MoreAttempts(p, br)
    <3>1. branches'[i] = [br EXCEPT !.pc = "done"]
      BY <1>2, <2>3 DEF Continue
    <3>2. br.asked = Allowance(p)
      BY <2>1, <2>3 DEF Progress, MoreAttempts, Allowance
    <3>. QED
      BY <1>1, <2>1, <3>1, <3>2 DEF Progress, Points, Fields
  <2>. QED
    BY <2>2, <2>3
<1>3. CASE StartNext(i)
  <2>1. branches'[i] = Reach(br) /\ br.pc = "waiting"
    BY <1>3 DEF StartNext
  <2>. QED
    BY <1>1, <2>1, ReachProgress DEF Progress, BudgetInv
<1>. QED
  BY <1>2, <1>3

\* Strategy single runs one plan.
LEMMA SingleIsAlone ==
    ASSUME NEW c, ~c.byNode, Strategy(c) = "single"
    PROVE  DOMAIN Plans(c) \subseteq {1}
<1>. DEFINE plans == ResolveRetrieverPlans(c)
<1>1. Plans(c) = IF plans # <<>> THEN <<plans[1]>> ELSE <<>>
  BY DEF Plans
<1>. HIDE DEF plans
<1>. QED
  BY <1>1

\* No branch goes on after another one before it is satisfied, where the first one wins.
LEMMA VisitMoveStep ==
    ASSUME BudgetInv, VisitInv, NEW i \in DOMAIN branches, Continue(i) \/ StartNext(i)
    PROVE  VisitInv'
<1>. USE DEF VisitInv
<1>1. /\ branches[i].pc \in {"pausing", "waiting"}
      /\ branches[i].pc = "waiting" => i - 1 \in Finished
      /\ DOMAIN branches' = DOMAIN branches
      /\ \A j \in DOMAIN branches : j # i => branches'[j] = branches[j]
      /\ budget' = budget /\ config' = config
  BY MoveEffect DEF BudgetInv
<1>2. mode = "retrieving" /\ mode' = mode /\ outcome' = outcome /\ outcome = Nothing
  BY DEF Continue, StartNext
<1>3. SatisfiedIsTaken'
  BY <1>2 DEF SatisfiedIsTaken, Nothing
<1>4. CASE config.byNode
  BY <1>1, <1>2, <1>3, <1>4
<1>5. CASE ~config.byNode
  <2>1. \A j \in DOMAIN branches :
            Progress(Plans(config)[j], branches[j]) /\ Plans(config)[j].maxRetries \in 0..5
    BY <1>2, <1>5, PlansAssumption DEF BudgetInv
  <2>2. /\ Progress(Plans(config)[i], branches'[i])
        /\ branches'[i].pc # "waiting" /\ ~branches'[i].satisfied
    BY <2>1, MoveProgress
  <2>3. ASSUME NEW j \in DOMAIN branches PROVE Progress(Plans(config)[j], branches[j])'
    <3>1. CASE j = i
      BY <1>1, <2>2, <3>1 DEF Progress
    <3>2. CASE j # i
      BY <1>1, <2>1, <3>2 DEF Progress
    <3>. QED
      BY <3>1, <3>2
  <2>4. ASSUME ~SideBySide(config) PROVE InOrder'
    <3>1. InOrder
      BY <1>2, <1>5, <2>4
    <3>2. \A j \in DOMAIN branches : j < i => branches[j].pc = "done"
      BY <1>1, <3>1 DEF InOrder, Finished, BudgetInv, BranchesOK
    <3>3. \A j \in DOMAIN branches : j > i => branches[j].pc = "waiting"
      BY <1>1, <3>1 DEF InOrder
    <3>4. \A j, k \in DOMAIN branches' :
              j < k /\ branches'[k].pc # "waiting" => branches'[j].pc = "done"
      BY <1>1, <3>1, <3>2, <3>3 DEF InOrder, BudgetInv, BranchesOK
    <3>5. ASSUME FirstWins(config), NEW j \in DOMAIN branches, j < i
          PROVE  ~branches[j].satisfied
      <4>. SUFFICES ASSUME branches[j].satisfied PROVE FALSE
        OBVIOUS
      <4>1. branches[i].pc = "waiting" /\ StartNext(i)
        BY <1>1, <3>1, <3>5 DEF InOrder, Continue
      <4>2. Strategy(config) \in {"first-non-empty", "adaptive"}
        <5>1. Strategy(config) # "single"
          BY <1>2, <1>5, <3>5, SingleIsAlone
        <5>. QED
          BY <3>5, <5>1 DEF FirstWins
      <4>3. j \in Finished /\ EndsVisit(config, branches[j])
        BY <1>5, <3>2, <3>5, <4>2 DEF Finished, EndsVisit
      <4>. QED
        BY <2>4, <4>1, <4>3 DEF StartNext, VisitEnds
    <3>6. FirstWins(config) =>
              \A j, k \in DOMAIN branches' :
                  j < k /\ branches'[j].satisfied => branches'[k].pc = "waiting"
      <4>. SUFFICES ASSUME FirstWins(config), NEW j \in DOMAIN branches, NEW k \in DOMAIN branches,
                           j < k, branches'[j].satisfied
                    PROVE  branches'[k].pc = "waiting"
        BY <1>1
      <4>1. j # i /\ branches[j].satisfied
        BY <1>1, <2>2
      <4>2. branches[k].pc = "waiting"
        BY <3>1, <4>1 DEF InOrder
      <4>3. k # i
        BY <3>5, <4>1
      <4>. QED
        BY <1>1, <4>2, <4>3
    <3>. QED
      BY <1>1, <3>4, <3>6 DEF InOrder
  <2>. QED
    BY <1>1, <1>2, <1>3, <2>3, <2>4
<1>. QED
  BY <1>4, <1>5

\* The result of a visit whose first satisfied branch wins: that branch is among those
\* that are done, and they are the first ones.
LEMMA ConcludeTakesTheWinner ==
    ASSUME BudgetInv, VisitInv, Conclude
    PROVE  SatisfiedIsTaken'
<1>. USE DEF VisitInv
<1>. DEFINE tried == [i \in Finished |-> branches[i]]
<1>1. /\ mode = "retrieving" /\ VisitEnds
      /\ branches' = branches /\ config' = config
      /\ ~config.byNode => outcome' = EngineResult(config, tried)
      /\ DOMAIN branches = DOMAIN Plans(config)
  BY DEF Conclude
<1>. SUFFICES ASSUME outcome'.kind = "result", ~config.byNode, FirstWins(config),
                     NEW i \in DOMAIN branches, branches[i].satisfied
              PROVE  outcome'.selected \in DOMAIN branches /\ branches[outcome'.selected].satisfied
  BY <1>1 DEF SatisfiedIsTaken, FirstWins
<1>2. outcome' = EngineResult(config, tried)
  BY <1>1
<1>3. \A j \in DOMAIN branches : branches[j].satisfied => j \in Finished
  BY <1>1 DEF Progress, Finished
<1>4. PICK n \in 0..MaxPlans : DOMAIN branches = 1..n
  BY DEF BudgetInv, BranchesOK
<1>5. PICK k \in Nat : Finished = 1..k
  <2>1. CASE Finished = DOMAIN branches
    BY <1>4, <2>1
  <2>2. CASE Finished # DOMAIN branches
    <3>1. ~SideBySide(config)
      BY <1>1, <2>2 DEF VisitEnds
    <3>2. InOrder
      BY <1>1, <3>1
    <3>3. \A j \in 1..n : (j < i => branches[j].pc = "done") /\ (j > i => branches[j].pc = "waiting")
      BY <1>3, <1>4, <3>2 DEF InOrder, Finished
    <3>4. Finished = 1..i
      BY <1>3, <1>4, <3>3 DEF Finished
    <3>. QED
      BY <1>4, <3>4
  <2>. QED
    BY <2>1, <2>2
<1>6. /\ DOMAIN tried = 1..k /\ Len(tried) = k
      /\ \A j \in 1..k : tried[j] = branches[j]
  BY <1>5
<1>7. 1..k \subseteq DOMAIN branches
  BY <1>5 DEF Finished
<1>. HIDE DEF tried
<1>8. CASE Strategy(config) = "single"
  <2>1. outcome'.selected = 1
    BY <1>2, <1>8 DEF EngineResult, Takes, Throws
  <2>2. i = 1
    BY <1>1, <1>8, SingleIsAlone
  <2>. QED
    BY <2>1, <2>2
<1>9. CASE Strategy(config) \in {"first-non-empty", "adaptive"}
  <2>1. Winner(tried) # 0 /\ Winner(tried) \in DOMAIN tried /\ tried[Winner(tried)].satisfied
    BY <1>3, <1>5, <1>6, WinnerIsSatisfied
  <2>2. outcome' = Takes(tried, Winner(tried))
    BY <1>2, <1>9, <2>1 DEF EngineResult
  <2>. QED
    BY <1>6, <1>7, <2>1, <2>2 DEF Takes
<1>. QED
  BY <1>8, <1>9 DEF FirstWins

\* However the branches of a visit interleave, each is where its requests say, they keep
\* their order where they take turns, and no result passes a satisfied branch over.
THEOREM VisitInvariant == Spec => [](BudgetInv /\ VisitInv)
<1>1. Init => BudgetInv /\ VisitInv
  BY BudgetInit, VisitInvInit
<1>2. BudgetInv /\ VisitInv /\ [Next]_vars => VisitInv'
  <2>. SUFFICES ASSUME BudgetInv, VisitInv, [Next]_vars PROVE VisitInv'
    OBVIOUS
  <2>1. ASSUME NEW c \in Configs, Visit(c) PROVE VisitInv'
    BY <2>1, VisitStartStep
  <2>2. ASSUME NEW i \in DOMAIN branches, Step(i) PROVE VisitInv'
    BY <2>2, VisitAnswerStep, VisitMoveStep DEF Step
  <2>3. CASE Conclude
    <3>1. SatisfiedIsTaken' /\ mode' # "retrieving"
      BY <2>3, ConcludeTakesTheWinner DEF Conclude
    <3>. QED
      BY <3>1 DEF VisitInv
  <2>4. CASE UNCHANGED vars
    BY <2>4 DEF vars, VisitInv, Progress, InOrder, SatisfiedIsTaken
  <2>. QED
    BY <2>1, <2>2, <2>3, <2>4 DEF Next
<1>3. BudgetInv /\ [Next]_vars => BudgetInv'
  BY BudgetInvStep
<1>. QED
  BY <1>1, <1>2, <1>3, PTL DEF Spec

\* Whatever is answered and whatever the budget, a branch of the engine that ends
\* without enough matches has made all the attempts it is configured for, the fallback
\* query included, or found the budget gone.
THEOREM GivesUpOnlyAtTheEndHolds ==
    Spec => []GivesUpOnlyAtTheEnd
<1>1. VisitInv => GivesUpOnlyAtTheEnd
  BY DEF VisitInv, Progress, GivesUpOnlyAtTheEnd
<1>. QED
  BY <1>1, VisitInvariant, PTL

\* Where the strategy takes one branch, the result is that of a satisfied one whenever
\* the visit had one, for any number of branches, side by side or in turn.
THEOREM SatisfiedIsTakenHolds ==
    Spec => []SatisfiedIsTaken
  BY VisitInvariant, PTL DEF VisitInv

\* In turn, no branch of a visit asks again after one of them was satisfied: the ones
\* before it are done and the ones after it have not started and will not start.
THEOREM NothingAskedAfterTheWinnerHolds ==
    Spec => NothingAskedAfterTheWinner
<1>. DEFINE Won == /\ mode = "retrieving" /\ mode' = "retrieving"
                   /\ ~config.byNode /\ ~config.speculative
                   /\ Strategy(config) \in {"single", "first-non-empty", "adaptive"}
                   /\ \E i \in DOMAIN branches : branches[i].satisfied
<1>1. BudgetInv /\ VisitInv /\ [Next]_vars => [Won => Asking' \subseteq Asking]_vars
  <2>. SUFFICES ASSUME BudgetInv, VisitInv, Next, Won PROVE Asking' \subseteq Asking
    BY DEF vars, Asking
  <2>1. PICK i \in DOMAIN branches : branches[i].satisfied
    OBVIOUS
  <2>2. /\ \A j \in DOMAIN branches : Progress(Plans(config)[j], branches[j])
        /\ ~SideBySide(config) /\ InOrder /\ FirstWins(config)
    BY DEF VisitInv, SideBySide, FirstWins
  <2>3. branches[i].pc = "done"
    BY <2>1, <2>2 DEF Progress
  <2>4. \A j \in DOMAIN branches :
            /\ j < i => branches[j].pc = "done"
            /\ j > i => branches[j].pc = "waiting"
    BY <2>1, <2>2, <2>3 DEF InOrder
  <2>5. PICK j \in DOMAIN branches : Step(j)
    BY DEF Next, Visit, Conclude
  <2>6. CASE Answered(j)
    BY <2>6, AnswerEffect DEF BudgetInv
  <2>7. CASE Continue(j)
    BY <2>3, <2>4, <2>7 DEF Continue, BudgetInv, BranchesOK
  <2>8. CASE StartNext(j)
    <3>1. CASE Strategy(config) = "single"
      <4>1. j = i
        BY <2>1, <3>1, SingleIsAlone DEF VisitInv
      <4>. QED
        BY <2>3, <2>8, <4>1 DEF StartNext
    <3>2. CASE Strategy(config) # "single"
      BY <2>1, <2>2, <2>3, <2>8, <3>2 DEF StartNext, VisitEnds, EndsVisit, Finished, FirstWins
    <3>. QED
      BY <3>1, <3>2
  <2>. QED
    BY <2>5, <2>6, <2>7, <2>8 DEF Step
<1>. QED
  BY <1>1, VisitInvariant, PTL DEF Spec, NothingAskedAfterTheWinner

-----------------------------------------------------------------------------
(* Sorting *)

\* R orders S.
Orders(R, S) ==
    /\ \A x \in S : <<x, x>> \notin R
    /\ \A x, y \in S : x # y => <<x, y>> \in R \/ <<y, x>> \in R
    /\ \A x, y, z \in S : <<x, y>> \in R /\ <<y, z>> \in R => <<x, z>> \in R

\* s has the elements of S in the order of R.
SortedBy(R, S, s) ==
    /\ s \in [1..Cardinality(S) -> S]
    /\ \A j, k \in 1..Cardinality(S) : j < k => <<s[j], s[k]>> \in R

\* A sorted sequence of as many elements as the set has has all of them.
LEMMA SortedHasAll ==
    ASSUME NEW S, IsFiniteSet(S), NEW R, Orders(R, S), NEW s, SortedBy(R, S, s)
    PROVE  \A x \in S : \E k \in 1..Cardinality(S) : s[k] = x
<1>. DEFINE n == Cardinality(S)
<1>1. n \in Nat /\ IsFiniteSet(1..n) /\ Cardinality(1..n) = n
  <2>1. n \in Nat
    BY FS_CardinalityType
  <2>. HIDE DEF n
  <2>2. IsFiniteSet(1..n) /\ Cardinality(1..n) = IF 1 > n THEN 0 ELSE n - 1 + 1
    BY <2>1, FS_Interval
  <2>. QED
    BY <2>1, <2>2
<1>2. \A j, k \in 1..n : s[j] = s[k] => j = k
  <2>. SUFFICES ASSUME NEW j \in 1..n, NEW k \in 1..n, s[j] = s[k], j < k PROVE FALSE
    BY <1>1
  <2>. QED
    BY DEF SortedBy, Orders
<1>3. s \in Injection(1..n, S)
  BY <1>2 DEF SortedBy, Injection, IsInjective
<1>4. s \in Surjection(1..n, S)
  BY <1>1, <1>3, FS_Injection
<1>. QED
  BY <1>4 DEF Surjection

\* The place of an element is one more than the number of those before it.
LEMMA SortedExists ==
    ASSUME NEW S, IsFiniteSet(S), NEW R, Orders(R, S)
    PROVE  \E s : SortedBy(R, S, s)
<1>. DEFINE n == Cardinality(S)
            before(x) == {y \in S : <<y, x>> \in R}
            place == [x \in S |-> Cardinality(before(x)) + 1]
<1>1. n \in Nat /\ IsFiniteSet(1..n) /\ Cardinality(1..n) = n
  <2>1. n \in Nat
    BY FS_CardinalityType
  <2>. HIDE DEF n
  <2>2. IsFiniteSet(1..n) /\ Cardinality(1..n) = IF 1 > n THEN 0 ELSE n - 1 + 1
    BY <2>1, FS_Interval
  <2>. QED
    BY <2>1, <2>2
<1>2. ASSUME NEW x \in S
      PROVE  IsFiniteSet(before(x)) /\ Cardinality(before(x)) \in 0..(n - 1)
  <2>1. IsFiniteSet(S \ {x}) /\ Cardinality(S \ {x}) = n - 1
    BY FS_RemoveElement
  <2>2. before(x) \in SUBSET (S \ {x})
    BY DEF Orders
  <2>. HIDE DEF before, n
  <2>3. IsFiniteSet(before(x)) /\ Cardinality(before(x)) <= n - 1
    BY <2>1, <2>2, FS_Subset
  <2>4. Cardinality(before(x)) \in Nat
    BY <2>3, FS_CardinalityType
  <2>. QED
    BY <1>1, <2>3, <2>4
<1>3. ASSUME NEW x \in S, NEW y \in S, <<x, y>> \in R PROVE place[x] < place[y]
  <2>1. before(x) \cup {x} \in SUBSET before(y) /\ x \notin before(x)
    BY <1>3 DEF Orders
  <2>. HIDE DEF before
  <2>2. Cardinality(before(x) \cup {x}) = Cardinality(before(x)) + 1
    BY <1>2, <2>1, FS_AddElement
  <2>3. Cardinality(before(x) \cup {x}) <= Cardinality(before(y))
    BY <1>2, <2>1, FS_Subset
  <2>. QED
    BY <1>1, <1>2, <2>2, <2>3
<1>4. \A x \in S : place[x] \in 1..n
  <2>. HIDE DEF before, n
  <2>. QED
    BY <1>1, <1>2
<1>5. \A x, y \in S : place[x] = place[y] => x = y
  <2>. SUFFICES ASSUME NEW x \in S, NEW y \in S, place[x] = place[y], x # y PROVE FALSE
    OBVIOUS
  <2>1. place[x] < place[y] \/ place[y] < place[x]
    <3>. HIDE DEF place
    <3>. QED
      BY <1>3 DEF Orders
  <2>2. place[x] \in Int
    BY <1>1, <1>4
  <2>. HIDE DEF place
  <2>. QED
    BY <2>1, <2>2
<1>6. place \in Injection(S, 1..n)
  <2>1. place \in [S -> 1..n]
    <3>1. place = [x \in S |-> place[x]]
      OBVIOUS
    <3>. HIDE DEF place
    <3>. QED
      BY <1>4, <3>1
  <2>. HIDE DEF place
  <2>. QED
    BY <1>5, <2>1 DEF Injection, IsInjective
<1>. HIDE DEF place, n
<1>7. place \in Surjection(S, 1..n)
  BY <1>1, <1>6, FS_Injection DEF n
<1>. DEFINE s == [k \in 1..n |-> CHOOSE x \in S : place[x] = k]
<1>8. \A k \in 1..n : s[k] \in S /\ place[s[k]] = k
  BY <1>7 DEF Surjection
<1>9. s \in [1..n -> S]
  BY <1>8
<1>10. \A j, k \in 1..n : j < k => <<s[j], s[k]>> \in R
  <2>. SUFFICES ASSUME NEW j \in 1..n, NEW k \in 1..n, j < k PROVE <<s[j], s[k]>> \in R
    OBVIOUS
  <2>1. s[j] \in S /\ s[k] \in S /\ place[s[j]] = j /\ place[s[k]] = k /\ s[j] # s[k]
    BY <1>8
  <2>. HIDE DEF s
  <2>2. ~(<<s[k], s[j]>> \in R)
    BY <1>1, <1>3, <2>1
  <2>. QED
    BY <2>1, <2>2 DEF Orders
<1>. HIDE DEF s
<1>11. SortedBy(R, S, s)
  BY <1>9, <1>10 DEF SortedBy, n
<1>. QED
  BY <1>11

-----------------------------------------------------------------------------
(* The merge *)

\* The names of MergeMatches.
FirstSeen(found, i) == SelectInSeq(found, LAMBDA m : m.chunk = found[i].chunk)

Before(found, i, j) ==
    \/ found[i].score > found[j].score
    \/ found[i].score = found[j].score /\ FirstSeen(found, i) < FirstSeen(found, j)

SortedBest(found) ==
    CHOOSE s \in [1..Cardinality(BestMatches(found)) -> BestMatches(found)] :
        \A j, k \in DOMAIN s : j < k => Before(found, s[j], s[k])

LEMMA MergeIsCut ==
    ASSUME NEW found, NEW topK
    PROVE  MergeMatches(found, topK) =
              LET s == SortedBest(found)
              IN  [k \in 1..(IF Len(s) < topK THEN Len(s) ELSE topK) |-> found[s[k]]]
  BY DEF MergeMatches, SortedBest, Before, FirstSeen

\* Matches found: a sequence of chunks with scores.
IsFound(found) ==
    /\ \E n \in Nat : DOMAIN found = 1..n /\ Len(found) = n
    /\ \A i \in DOMAIN found : found[i].score \in Int

LEMMA FoundIsFinite ==
    ASSUME NEW found, IsFound(found), NEW S \in SUBSET (DOMAIN found)
    PROVE  IsFiniteSet(S) /\ Cardinality(S) \in Nat /\ S \subseteq Nat
<1>1. PICK n \in Nat : DOMAIN found = 1..n
  BY DEF IsFound
<1>2. IsFiniteSet(1..n)
  BY FS_Interval
<1>3. IsFiniteSet(S)
  BY <1>1, <1>2, FS_Subset
<1>. QED
  BY <1>1, <1>3, FS_CardinalityType

LEMMA FirstSeenIsFound ==
    ASSUME NEW found, IsFound(found), NEW i \in DOMAIN found
    PROVE  FirstSeen(found, i) \in DOMAIN found /\ found[FirstSeen(found, i)].chunk = found[i].chunk
<1>. DEFINE I == {k \in 1..Len(found) : found[k].chunk = found[i].chunk}
<1>1. PICK n \in Nat : DOMAIN found = 1..n /\ Len(found) = n
  BY DEF IsFound
<1>2. I \in SUBSET Nat /\ I # {}
  BY <1>1
<1>3. Min(I) \in I
  <2>. HIDE DEF I
  <2>. QED
    BY <1>2, LeastIsMember
<1>4. FirstSeen(found, i) = Min(I)
  BY <1>2 DEF FirstSeen, SelectInSeq
<1>. QED
  BY <1>1, <1>3, <1>4

\* Of the matches for one chunk, one is best.
LEMMA BestExists ==
    ASSUME NEW found, IsFound(found), NEW i \in DOMAIN found
    PROVE  \E b \in BestMatches(found) :
              found[b].chunk = found[i].chunk /\ found[b].score >= found[i].score
<1>. DEFINE S == {j \in DOMAIN found : found[j].chunk = found[i].chunk}
            R == {p \in S \X S : \/ found[p[1]].score > found[p[2]].score
                                 \/ found[p[1]].score = found[p[2]].score /\ p[1] < p[2]}
<1>1. IsFiniteSet(S) /\ Cardinality(S) \in Nat /\ S \subseteq Nat
  BY FoundIsFinite
<1>2. \A x \in S : found[x].score \in Int
  BY DEF IsFound
<1>3. \A x, y \in S : <<x, y>> \in R <=> \/ found[x].score > found[y].score
                                         \/ found[x].score = found[y].score /\ x < y
  OBVIOUS
<1>4. i \in S
  OBVIOUS
<1>5. \A j \in DOMAIN found : found[j].chunk = found[i].chunk <=> j \in S
  OBVIOUS
<1>6. S \subseteq DOMAIN found
  OBVIOUS
<1>. HIDE DEF R, S
<1>7. Orders(R, S)
  BY <1>1, <1>2, <1>3 DEF Orders
<1>8. PICK s : SortedBy(R, S, s)
  BY <1>1, <1>7, SortedExists
<1>9. \A x \in S : \E k \in 1..Cardinality(S) : s[k] = x
  BY <1>1, <1>7, <1>8, SortedHasAll
<1>10. 1 \in 1..Cardinality(S) /\ s[1] \in S
  <2>1. PICK k \in 1..Cardinality(S) : s[k] = i
    BY <1>4, <1>9
  <2>2. 1 \in 1..Cardinality(S)
    BY <1>1, <2>1
  <2>. QED
    BY <1>8, <2>2 DEF SortedBy
<1>11. \A x \in S : x = s[1] \/ <<s[1], x>> \in R
  BY <1>1, <1>8, <1>9, <1>10 DEF SortedBy
<1>12. \A x \in S : \/ found[x].score < found[s[1]].score
                    \/ found[x].score = found[s[1]].score /\ s[1] <= x
  <2>. SUFFICES ASSUME NEW x \in S
                PROVE  \/ found[x].score < found[s[1]].score
                       \/ found[x].score = found[s[1]].score /\ s[1] <= x
    OBVIOUS
  <2>1. /\ found[x].score \in Int /\ found[s[1]].score \in Int
        /\ x \in Nat /\ s[1] \in Nat
    BY <1>1, <1>2, <1>10
  <2>2. CASE x = s[1]
    BY <2>1, <2>2
  <2>3. CASE <<s[1], x>> \in R
    <3>1. \/ found[s[1]].score > found[x].score
          \/ found[s[1]].score = found[x].score /\ s[1] < x
      BY <1>3, <1>10, <2>3
    <3>. QED
      BY <2>1, <3>1
  <2>. QED
    BY <1>11, <2>2, <2>3
<1>13. s[1] \in BestMatches(found)
  BY <1>5, <1>6, <1>10, <1>12 DEF BestMatches
<1>. QED
  BY <1>2, <1>4, <1>5, <1>6, <1>10, <1>12, <1>13

\* The best matches can be sorted, and so they are.
LEMMA BestAreSorted ==
    ASSUME NEW found, IsFound(found)
    PROVE  LET B == BestMatches(found)
               s == SortedBest(found)
           IN  /\ Cardinality(B) \in Nat /\ B \subseteq DOMAIN found
               /\ s \in [1..Cardinality(B) -> B]
               /\ \A j, k \in 1..Cardinality(B) : j < k => Before(found, s[j], s[k])
               /\ \A b \in B : \E k \in 1..Cardinality(B) : s[k] = b
               /\ \A a, b \in B : found[a].chunk = found[b].chunk => a = b
<1>. DEFINE B == BestMatches(found)
            R == {p \in B \X B : Before(found, p[1], p[2])}
            s == SortedBest(found)
<1>1. B \subseteq DOMAIN found
  BY DEF BestMatches
<1>2. IsFiniteSet(B) /\ Cardinality(B) \in Nat /\ B \subseteq Nat
  BY <1>1, FoundIsFinite
<1>3. \A x \in B : found[x].score \in Int /\ FirstSeen(found, x) \in Nat
  <2>1. \A x \in DOMAIN found : FirstSeen(found, x) \in DOMAIN found
    BY FirstSeenIsFound
  <2>2. DOMAIN found \subseteq Nat
    BY FoundIsFinite
  <2>. QED
    BY <1>1, <2>1, <2>2 DEF IsFound
<1>4. \A a, b \in B : found[a].chunk = found[b].chunk => a = b
  <2>. SUFFICES ASSUME NEW a \in B, NEW b \in B, found[a].chunk = found[b].chunk PROVE a = b
    OBVIOUS
  <2>1. \/ found[b].score < found[a].score
        \/ found[b].score = found[a].score /\ a <= b
    BY DEF BestMatches
  <2>2. \/ found[a].score < found[b].score
        \/ found[a].score = found[b].score /\ b <= a
    BY DEF BestMatches
  <2>. HIDE DEF B
  <2>. QED
    BY <1>2, <1>3, <2>1, <2>2
<1>5. \A a, b \in B : FirstSeen(found, a) = FirstSeen(found, b) => a = b
  BY <1>1, <1>4, FirstSeenIsFound
<1>6. \A x, y \in B : <<x, y>> \in R <=> Before(found, x, y)
  OBVIOUS
<1>. HIDE DEF B, R
<1>7. Orders(R, B)
  BY <1>3, <1>5, <1>6 DEF Orders, Before
<1>8. \E t : SortedBy(R, B, t)
  BY <1>2, <1>7, SortedExists
<1>9. \E t \in [1..Cardinality(B) -> B] :
          \A j, k \in DOMAIN t : j < k => Before(found, t[j], t[k])
  BY <1>6, <1>8 DEF SortedBy
<1>10. /\ s \in [1..Cardinality(B) -> B]
       /\ \A j, k \in DOMAIN s : j < k => Before(found, s[j], s[k])
  BY <1>9 DEF SortedBest, B
<1>. HIDE DEF s
<1>11. SortedBy(R, B, s)
  BY <1>6, <1>10 DEF SortedBy
<1>12. \A b \in B : \E k \in 1..Cardinality(B) : s[k] = b
  BY <1>2, <1>7, <1>11, SortedHasAll
<1>. QED
  BY <1>1, <1>2, <1>4, <1>10, <1>12 DEF B, s

\* What is left out of a merge of what was found was beaten.
LEMMA MergeLeavesTheBest ==
    ASSUME NEW found, IsFound(found), NEW topK \in Nat
    PROVE  LET m == MergeMatches(found, topK)
               Beaten(x) ==
                   \/ \E k \in DOMAIN m : m[k].chunk = x.chunk /\ m[k].score >= x.score
                   \/ Len(m) = topK /\ \A k \in DOMAIN m : m[k].score >= x.score
           IN  /\ \A j, k \in DOMAIN m :
                     j < k => m[j].chunk # m[k].chunk /\ m[j].score >= m[k].score
               /\ \A i \in DOMAIN found : Beaten(found[i])
<1>. DEFINE m == MergeMatches(found, topK)
            B == BestMatches(found)
            s == SortedBest(found)
            n == Cardinality(B)
            l == IF Len(s) < topK THEN Len(s) ELSE topK
<1>1. /\ n \in Nat /\ B \subseteq DOMAIN found
      /\ s \in [1..n -> B]
      /\ \A j, k \in 1..n : j < k => Before(found, s[j], s[k])
      /\ \A b \in B : \E k \in 1..n : s[k] = b
      /\ \A a, b \in B : found[a].chunk = found[b].chunk => a = b
  BY BestAreSorted
<1>2. \A i \in DOMAIN found :
          \E b \in B : found[b].chunk = found[i].chunk /\ found[b].score >= found[i].score
  BY BestExists
<1>3. m = [k \in 1..l |-> found[s[k]]]
  BY MergeIsCut
<1>. HIDE DEF B, s, n, m
<1>4. Len(s) = n
  BY <1>1
<1>5. /\ l \in Nat /\ l <= n /\ l <= topK /\ (l < n => l = topK)
      /\ DOMAIN m = 1..l /\ Len(m) = l
      /\ \A k \in 1..l : m[k] = found[s[k]]
  BY <1>1, <1>3, <1>4
<1>6. \A k \in 1..n : s[k] \in DOMAIN found /\ found[s[k]].score \in Int
  BY <1>1 DEF IsFound
<1>7. \A j, k \in 1..n : j < k => found[s[j]].score >= found[s[k]].score /\ s[j] # s[k]
  <2>. SUFFICES ASSUME NEW j \in 1..n, NEW k \in 1..n, j < k
                PROVE  found[s[j]].score >= found[s[k]].score /\ s[j] # s[k]
    OBVIOUS
  <2>1. Before(found, s[j], s[k])
    BY <1>1
  <2>2. FirstSeen(found, s[j]) \in Nat /\ FirstSeen(found, s[k]) \in Nat
    BY <1>6, FirstSeenIsFound, FoundIsFinite
  <2>. QED
    BY <1>6, <2>1, <2>2 DEF Before
<1>8. \A j, k \in DOMAIN m : j < k => m[j].chunk # m[k].chunk /\ m[j].score >= m[k].score
  <2>. SUFFICES ASSUME NEW j \in 1..l, NEW k \in 1..l, j < k
                PROVE  /\ found[s[j]].chunk # found[s[k]].chunk
                       /\ found[s[j]].score >= found[s[k]].score
    BY <1>5
  <2>1. j \in 1..n /\ k \in 1..n
    BY <1>1, <1>5
  <2>. QED
    BY <1>1, <1>7, <2>1
<1>9. ASSUME NEW i \in DOMAIN found,
             ~\E k \in DOMAIN m : m[k].chunk = found[i].chunk /\ m[k].score >= found[i].score
      PROVE  Len(m) = topK /\ \A k \in DOMAIN m : m[k].score >= found[i].score
  <2>1. PICK b \in B : found[b].chunk = found[i].chunk /\ found[b].score >= found[i].score
    BY <1>2
  <2>2. PICK k \in 1..n : s[k] = b
    BY <1>1
  <2>3. k \notin 1..l
    BY <1>5, <1>9, <2>1, <2>2
  <2>4. l < k
    BY <1>1, <1>5, <2>3
  <2>5. ASSUME NEW j \in 1..l PROVE found[s[j]].score >= found[i].score
    <3>1. j \in 1..n /\ j < k
      BY <1>1, <1>5, <2>4
    <3>2. found[s[j]].score >= found[s[k]].score
      BY <1>7, <3>1
    <3>3. found[i].score \in Int
      BY DEF IsFound
    <3>. QED
      BY <1>6, <2>1, <2>2, <3>1, <3>2, <3>3
  <2>. QED
    BY <1>1, <1>5, <2>4, <2>5
<1>. QED
  BY <1>8, <1>9 DEF m

-----------------------------------------------------------------------------
(* What the branches found *)

\* The first m sequences one after the other, as FlattenSeq puts them.
FlatTo(seqs, m, f) == \A i \in 1..m : f[i] = IF i = 1 THEN seqs[i] ELSE f[i - 1] \o seqs[i]

Flat(seqs) ==
    CHOOSE flatten : flatten = [i \in 1..Len(seqs) |->
                                   IF i = 1 THEN seqs[i] ELSE flatten[i - 1] \o seqs[i]]

LEMMA FlatExists ==
    ASSUME NEW seqs
    PROVE  \A m \in Nat : \E f : FlatTo(seqs, m, f)
<1>. DEFINE Missing == {m \in Nat : ~\E f : FlatTo(seqs, m, f)}
<1>. SUFFICES ASSUME Missing # {} PROVE FALSE
  OBVIOUS
<1>1. Min(Missing) \in Missing /\ \A l \in Missing : Min(Missing) <= l
  <2>. Missing \in SUBSET Nat
    OBVIOUS
  <2>. HIDE DEF Missing
  <2>. QED
    BY LeastIsMember
<1>. DEFINE m == Min(Missing)
<1>. HIDE DEF m
<1>2. m \in Missing /\ m \in Nat
  BY <1>1 DEF m
<1>3. ~\E f : FlatTo(seqs, m, f)
  BY <1>2
<1>4. m # 0
  <2>1. FlatTo(seqs, 0, seqs)
    BY DEF FlatTo
  <2>. QED
    BY <1>3, <2>1
<1>5. m - 1 \in Nat /\ m - 1 \notin Missing
  BY <1>1, <1>2, <1>4 DEF m
<1>6. PICK f : FlatTo(seqs, m - 1, f)
  BY <1>5
<1>. DEFINE next == IF m = 1 THEN seqs[m] ELSE f[m - 1] \o seqs[m]
            h == [i \in 1..m |-> IF i = m THEN next ELSE f[i]]
<1>7. ASSUME NEW i \in 1..m PROVE h[i] = IF i = 1 THEN seqs[i] ELSE h[i - 1] \o seqs[i]
  <2>1. i # 1 => i - 1 \in 1..m /\ h[i - 1] = f[i - 1]
    BY <1>2
  <2>2. i # m => i \in 1..(m - 1) /\ h[i] = f[i]
    BY <1>2
  <2>3. h[m] = next
    BY <1>2, <1>4
  <2>4. \A j \in 1..(m - 1) : f[j] = IF j = 1 THEN seqs[j] ELSE f[j - 1] \o seqs[j]
    BY <1>6 DEF FlatTo
  <2>. HIDE DEF h
  <2>. QED
    BY <2>1, <2>2, <2>3, <2>4
<1>8. FlatTo(seqs, m, h)
  <2>. HIDE DEF h
  <2>. QED
    BY <1>7 DEF FlatTo
<1>. QED
  BY <1>3, <1>8

LEMMA FlatStepByStep ==
    ASSUME NEW seqs, Len(seqs) \in Nat
    PROVE  FlatTo(seqs, Len(seqs), Flat(seqs))
<1>. DEFINE n == Len(seqs)
            Next1(f) == [i \in 1..n |-> IF i = 1 THEN seqs[i] ELSE f[i - 1] \o seqs[i]]
<1>1. PICK f : FlatTo(seqs, n, f)
  BY FlatExists
<1>. DEFINE h == [i \in 1..n |-> f[i]]
<1>2. h = Next1(h)
  <2>1. \A i \in 1..n : h[i] = IF i = 1 THEN seqs[i] ELSE f[i - 1] \o seqs[i]
    BY <1>1 DEF FlatTo
  <2>2. \A i \in 1..n : i # 1 => h[i - 1] = f[i - 1]
    OBVIOUS
  <2>3. h = [i \in 1..n |-> h[i]]
    OBVIOUS
  <2>. HIDE DEF h
  <2>. QED
    BY <2>1, <2>2, <2>3
<1>3. Flat(seqs) = Next1(Flat(seqs))
  <2>1. \E flatten : flatten = Next1(flatten)
    <3>. HIDE DEF h, Next1
    <3>. QED
      BY <1>2
  <2>. QED
    BY <2>1 DEF Flat
<1>4. \A i \in 1..n : Next1(Flat(seqs))[i] =
                         IF i = 1 THEN seqs[i] ELSE Flat(seqs)[i - 1] \o seqs[i]
  OBVIOUS
<1>. HIDE DEF Next1
<1>. QED
  BY <1>3, <1>4 DEF FlatTo

\* The elements of a sequence.
Elements(s) == {s[i] : i \in DOMAIN s}

LEMMA ElementsOfBoth ==
    ASSUME NEW M, NEW a \in Seq(M), NEW b \in Seq(M)
    PROVE  a \o b \in Seq(M) /\ Elements(a) \cup Elements(b) \subseteq Elements(a \o b)
<1>1. /\ a \o b \in Seq(M) /\ Len(a \o b) = Len(a) + Len(b)
      /\ DOMAIN a = 1..Len(a) /\ DOMAIN b = 1..Len(b) /\ DOMAIN (a \o b) = 1..Len(a \o b)
      /\ Len(a) \in Nat /\ Len(b) \in Nat
  OBVIOUS
<1>2. \A i \in 1..Len(a) : i \in 1..Len(a \o b) /\ (a \o b)[i] = a[i]
  BY <1>1
<1>3. \A i \in 1..Len(b) : Len(a) + i \in 1..Len(a \o b) /\ (a \o b)[Len(a) + i] = b[i]
  BY <1>1
<1>. QED
  BY <1>1, <1>2, <1>3 DEF Elements

\* Sequences put one after the other are a sequence with the elements of all of them.
LEMMA FlatHasAll ==
    ASSUME NEW M, NEW n \in Nat, NEW seqs, DOMAIN seqs = 1..n, Len(seqs) = n, n # 0,
           \A i \in 1..n : seqs[i] \in Seq(M)
    PROVE  /\ FlattenSeq(seqs) \in Seq(M)
           /\ \A i \in 1..n : Elements(seqs[i]) \subseteq Elements(FlattenSeq(seqs))
<1>. DEFINE f == Flat(seqs)
            Good(m) == f[m] \in Seq(M) /\ \A i \in 1..m : Elements(seqs[i]) \subseteq Elements(f[m])
            Bad == {m \in 1..n : ~Good(m)}
<1>1. FlattenSeq(seqs) = f[n]
  BY DEF FlattenSeq, Flat
<1>2. \A i \in 1..n : f[i] = IF i = 1 THEN seqs[i] ELSE f[i - 1] \o seqs[i]
  BY FlatStepByStep DEF FlatTo
<1>. HIDE DEF f
<1>3. Bad = {}
  <2>. SUFFICES ASSUME Bad # {} PROVE FALSE
    OBVIOUS
  <2>1. PICK m \in Bad : \A l \in Bad : m <= l
    <3>. Bad \in SUBSET Nat
      OBVIOUS
    <3>. HIDE DEF Bad
    <3>. QED
      BY LeastIsMember
  <2>2. m \in 1..n /\ ~Good(m)
    BY <2>1
  <2>3. m # 1
    BY <1>2, <2>2
  <2>4. m - 1 \in 1..n
    BY <2>2, <2>3
  <2>5. Good(m - 1)
    <3>1. ~(m <= m - 1)
      BY <2>2
    <3>. HIDE DEF Good
    <3>. QED
      BY <2>1, <2>4, <3>1
  <2>6. f[m] = f[m - 1] \o seqs[m] /\ seqs[m] \in Seq(M)
    BY <1>2, <2>2, <2>3
  <2>7. f[m] \in Seq(M) /\ Elements(f[m - 1]) \cup Elements(seqs[m]) \subseteq Elements(f[m])
    BY <2>5, <2>6, ElementsOfBoth
  <2>8. \A i \in 1..m : i = m \/ i \in 1..(m - 1)
    BY <2>2
  <2>. QED
    BY <2>2, <2>5, <2>7, <2>8
<1>4. Good(n)
  <2>1. n \in 1..n
    OBVIOUS
  <2>. HIDE DEF Good
  <2>. QED
    BY <1>3, <2>1
<1>. QED
  BY <1>1, <1>4

Matches == UNION {Range(a) : a \in Answers}

\* What branches hold are matches that were answered.
LastsOK == \A i \in DOMAIN branches : branches[i].last \in Seq(Matches)

LEMMA MatchesAreAnswers ==
    /\ \A m \in Matches : m.score \in Int
    /\ \A a \in Answers : a \in Seq(Matches)
    /\ \A c \in Configs, a \in Answers : \A i \in DOMAIN Plans(c) :
          FilterRetrievalMatches(Plans(c)[i], a) \in Seq(Matches)
<1>1. ASSUME NEW a \in Answers PROVE Range(a) \subseteq Matches
  BY DEF Matches
<1>2. \A a \in Answers : \A s \in Seq(Range(a)) : s \in Seq(Matches)
  <2>. SUFFICES ASSUME NEW a \in Answers, NEW s \in Seq(Range(a)) PROVE s \in Seq(Matches)
    OBVIOUS
  <2>. HIDE DEF Matches
  <2>1. \A i \in 1..Len(s) : s[i] \in Matches
    BY <1>1
  <2>. QED
    BY <2>1
<1>3. \A m \in Matches : m.score \in Int
  BY RetrievalAssumption DEF Matches, Range
<1>. HIDE DEF Matches
<1>. QED
  BY <1>2, <1>3, RetrievalAssumption, FilterAssumption

LEMMA ReachLast ==
    ASSUME NEW br, DOMAIN br = Fields, br.last \in Seq(Matches)
    PROVE  Reach(br).last \in Seq(Matches)
<1>1. Reach(br).last = br.last \/ Reach(br).last = <<>>
  BY DEF Reach, Fields
<1>2. <<>> \in Seq(Matches)
  OBVIOUS
<1>. QED
  BY <1>1, <1>2

LEMMA LastsStep ==
    ASSUME BudgetInv, VisitInv, LastsOK, [Next]_vars
    PROVE  LastsOK'
<1>. USE DEF LastsOK
<1>0. /\ config \in Configs
      /\ \A i \in DOMAIN branches : DOMAIN branches[i] = Fields
      /\ mode = "retrieving" => DOMAIN branches = DOMAIN Plans(config)
  BY DEF BudgetInv, BranchesOK, VisitInv
<1>1. ASSUME NEW c \in Configs, Visit(c) PROVE LastsOK'
  <2>1. NewBranch.last \in Seq(Matches) /\ DOMAIN NewBranch = Fields
    BY DEF NewBranch, Fields
  <2>2. Reach(NewBranch).last \in Seq(Matches)
    BY <2>1, ReachLast
  <2>. QED
    BY <1>1, <2>1, <2>2 DEF Visit
<1>2. ASSUME NEW i \in DOMAIN branches, Answer(i) PROVE LastsOK'
  <2>1. PICK a \in Answers, d \in Durations :
            LET q == Plans(config)[i]
                matches == FilterRetrievalMatches(q, a)
                enough == Len(matches) >= q.minMatches
            IN  /\ RecordRetrievalAttempt(d, IF enough THEN "success" ELSE "empty")
                /\ branches' = [branches EXCEPT ![i].last = matches, ![i].satisfied = enough,
                       ![i].pc = IF enough THEN "done" ELSE "pausing"]
    BY <1>2 DEF Answer
  <2>. DEFINE q == Plans(config)[i]
              matches == FilterRetrievalMatches(q, a)
              enough == Len(matches) >= q.minMatches
              point == IF enough THEN "done" ELSE "pausing"
  <2>2. branches' = [branches EXCEPT ![i].last = matches, ![i].satisfied = enough,
                        ![i].pc = point]
    BY <2>1
  <2>3. matches \in Seq(Matches)
    BY <1>0, <1>2, MatchesAreAnswers DEF Answer
  <2>. HIDE DEF matches, enough, point
  <2>. QED
    BY <1>0, <2>2, <2>3 DEF Fields
<1>3. ASSUME NEW i \in DOMAIN branches, NodeAnswer(i) PROVE LastsOK'
  <2>1. PICK a \in Answers :
            branches' = [branches EXCEPT ![i].last = a, ![i].satisfied = (a # <<>>), ![i].pc = "done"]
    BY <1>3 DEF NodeAnswer
  <2>2. a \in Seq(Matches)
    BY MatchesAreAnswers
  <2>. QED
    BY <1>0, <2>1, <2>2 DEF Fields
<1>4. ASSUME NEW i \in DOMAIN branches, Fail(i) \/ NodeFail(i) PROVE LastsOK'
  BY <1>0, <1>4 DEF Fail, NodeFail, Fields
<1>5. ASSUME NEW i \in DOMAIN branches, Continue(i) PROVE LastsOK'
  <2>. DEFINE p == Plans(config)[i]
              next == NextAttempt(p, branches[i])
  <2>1. next.last = branches[i].last /\ DOMAIN next = Fields
    BY <1>0 DEF NextAttempt, Fields
  <2>2. Reach(next).last \in Seq(Matches)
    BY <2>1, ReachLast
  <2>3. [branches[i] EXCEPT !.pc = "done"].last = branches[i].last
    BY <1>0 DEF Fields
  <2>. HIDE DEF next
  <2>4. branches' = [branches EXCEPT ![i] = IF MoreAttempts(p, branches[i]) THEN Reach(next)
                                            ELSE [branches[i] EXCEPT !.pc = "done"]]
    BY <1>5 DEF Continue, next
  <2>. QED
    BY <2>2, <2>3, <2>4
<1>6. ASSUME NEW i \in DOMAIN branches, StartNext(i) PROVE LastsOK'
  <2>1. Reach(branches[i]).last \in Seq(Matches)
    BY <1>0, ReachLast
  <2>. QED
    BY <1>6, <2>1 DEF StartNext
<1>7. CASE Conclude
  BY <1>7 DEF Conclude
<1>8. CASE UNCHANGED vars
  BY <1>8 DEF vars
<1>. QED
  BY <1>1, <1>2, <1>3, <1>4, <1>5, <1>6, <1>7, <1>8 DEF Next, Step, Answered

\* What all branches of a visit hold, one after the other, is what was found.
LEMMA FoundHasAll ==
    ASSUME NEW n \in Nat, NEW b, DOMAIN b = 1..n, \A i \in 1..n : b[i].last \in Seq(Matches)
    PROVE  /\ IsFound(Found(b))
           /\ \A i \in 1..n : Elements(b[i].last) \subseteq Elements(Found(b))
<1>. DEFINE lasts == [i \in DOMAIN b |-> b[i].last]
<1>1. DOMAIN lasts = 1..n /\ Len(lasts) = n /\ \A i \in 1..n : lasts[i] = b[i].last
  OBVIOUS
<1>2. Found(b) = FlattenSeq(lasts)
  BY DEF Found
<1>. HIDE DEF lasts
<1>3. CASE n = 0
  <2>1. FlattenSeq(lasts) = lasts
    BY <1>1, <1>3 DEF FlattenSeq
  <2>. QED
    BY <1>1, <1>2, <1>3, <2>1 DEF IsFound
<1>4. CASE n # 0
  <2>1. /\ Found(b) \in Seq(Matches)
        /\ \A i \in 1..n : Elements(lasts[i]) \subseteq Elements(Found(b))
    BY <1>1, <1>2, <1>4, FlatHasAll
  <2>2. IsFound(Found(b))
    BY <2>1, MatchesAreAnswers DEF IsFound
  <2>. QED
    BY <1>1, <2>1, <2>2
<1>. QED
  BY <1>3, <1>4

\* A visit that merges and does not throw has heard all its branches.
LEMMA MergeIsOfAll ==
    ASSUME BudgetInv, Conclude, outcome'.kind = "result", Strategy(config) = "merge"
    PROVE  \/ DOMAIN branches = {} /\ outcome' = Returns(<<>>)
           \/ LET tried == [i \in DOMAIN branches |-> branches[i]]
              IN  outcome' = Returns(MergeMatches(Found(tried), config.topK))
<1>. DEFINE tried == [i \in Finished |-> branches[i]]
<1>1. /\ VisitEnds
      /\ outcome' = IF config.byNode THEN NodeResult(config, tried) ELSE EngineResult(config, tried)
  BY DEF Conclude
<1>2. Throws.kind # "result"
  BY DEF Throws
<1>3. Finished = DOMAIN branches
  <2>1. CASE \E i \in Finished : EndsVisit(config, branches[i])
    <3>1. PICK i \in Finished : EndsVisit(config, branches[i])
      BY <2>1
    <3>2. config.byNode /\ config.failOnError /\ (branches[i].failed \/ branches[i].refused)
      BY <3>1 DEF EndsVisit
    <3>3. DOMAIN tried = Finished /\ tried[i] = branches[i]
      OBVIOUS
    <3>. HIDE DEF tried
    <3>4. NodeResult(config, tried) = Throws
      BY <3>1, <3>2, <3>3 DEF NodeResult
    <3>. QED
      BY <1>1, <1>2, <3>2, <3>4
  <2>. QED
    BY <1>1, <2>1 DEF VisitEnds
<1>4. CASE ~config.byNode
  <2>1. outcome' = EngineResult(config, tried)
    BY <1>1, <1>4
  <2>. HIDE DEF tried
  <2>2. outcome' = Returns(MergeMatches(Found(tried), config.topK))
    BY <1>2, <2>1 DEF EngineResult
  <2>. QED
    BY <1>3, <2>2 DEF tried
<1>5. CASE config.byNode
  <2>1. outcome' = NodeResult(config, tried)
    BY <1>1, <1>5
  <2>2. config.strategy = "merge"
    BY DEF Strategy
  <2>3. DOMAIN tried = Finished
    OBVIOUS
  <2>. HIDE DEF tried
  <2>4. \/ tried = <<>> /\ outcome' = Returns(<<>>)
        \/ outcome' = Returns(MergeMatches(Found(tried), config.topK))
    BY <1>2, <2>1, <2>2 DEF NodeResult
  <2>. QED
    BY <1>3, <2>3, <2>4 DEF tried
<1>. QED
  BY <1>4, <1>5

LEMMA ConcludeKeepsTheBest ==
    ASSUME BudgetInv, LastsOK, Conclude
    PROVE  MergeKeepsTheBest'
<1>1. branches' = branches /\ config' = config
  BY DEF Conclude
<1>. DEFINE m == outcome'.matches
            Beaten(x) ==
                \/ \E k \in DOMAIN m : m[k].chunk = x.chunk /\ m[k].score >= x.score
                \/ Len(m) = config.topK /\ \A k \in DOMAIN m : m[k].score >= x.score
<1>2. SUFFICES ASSUME outcome'.kind = "result", Strategy(config) = "merge"
      PROVE  /\ \A j, k \in DOMAIN m :
                   j < k => m[j].chunk # m[k].chunk /\ m[j].score >= m[k].score
             /\ \A i \in DOMAIN branches : \A x \in Range(branches[i].last) : Beaten(x)
  <2>. HIDE DEF m
  <2>. QED
    BY <1>1 DEF MergeKeepsTheBest, m
<1>3. CASE DOMAIN branches = {} /\ outcome' = Returns(<<>>)
  BY <1>3 DEF Returns
<1>. DEFINE tried == [i \in DOMAIN branches |-> branches[i]]
            found == Found(tried)
<1>4. CASE outcome' = Returns(MergeMatches(found, config.topK))
  <2>1. PICK n \in 0..MaxPlans : DOMAIN branches = 1..n
    BY DEF BudgetInv, BranchesOK
  <2>2. n \in Nat
    BY RetrievalAssumption
  <2>3. DOMAIN tried = 1..n /\ \A i \in 1..n : tried[i] = branches[i]
    BY <2>1
  <2>4. \A i \in 1..n : tried[i].last \in Seq(Matches)
    BY <2>1, <2>3 DEF LastsOK
  <2>. HIDE DEF tried
  <2>5. IsFound(found) /\ \A i \in 1..n : Elements(tried[i].last) \subseteq Elements(found)
    BY <2>2, <2>3, <2>4, FoundHasAll
  <2>6. config.topK \in Nat
    <3>1. IsConfig(config)
      BY RetrievalAssumption DEF BudgetInv
    <3>2. config.topK \in 1..50
      BY <3>1, Zenon DEF IsConfig
    <3>. QED
      BY <3>2
  <2>7. m = MergeMatches(found, config.topK)
    BY <1>4 DEF Returns
  <2>. HIDE DEF found, m
  <2>8. /\ \A j, k \in DOMAIN m :
              j < k => m[j].chunk # m[k].chunk /\ m[j].score >= m[k].score
        /\ \A j \in DOMAIN found : Beaten(found[j])
    BY <2>5, <2>6, <2>7, MergeLeavesTheBest
  <2>9. ASSUME NEW i \in DOMAIN branches, NEW x \in Range(branches[i].last) PROVE Beaten(x)
    <3>1. x \in Elements(branches[i].last)
      BY DEF Range, Elements
    <3>2. x \in Elements(found)
      BY <2>1, <2>3, <2>5, <3>1
    <3>3. PICK j \in DOMAIN found : x = found[j]
      BY <3>2 DEF Elements
    <3>. QED
      BY <2>8, <3>3
  <2>. QED
    BY <2>8, <2>9
<1>. QED
  BY <1>2, <1>3, <1>4, MergeIsOfAll

\* However many branches a merge has, whatever they were answered and in which order: its
\* result has no chunk twice, is sorted, and what it leaves out was beaten
\* (mergeRetrieverMatches, and mergeMatches of knowledge-retrieve).
THEOREM MergeKeepsTheBestHolds ==
    Spec => []MergeKeepsTheBest
<1>1. Init => LastsOK /\ MergeKeepsTheBest
  BY DEF Init, LastsOK, MergeKeepsTheBest, Nothing
<1>2. BudgetInv /\ VisitInv /\ LastsOK /\ MergeKeepsTheBest /\ [Next]_vars
          => LastsOK' /\ MergeKeepsTheBest'
  <2>. SUFFICES ASSUME BudgetInv, VisitInv, LastsOK, MergeKeepsTheBest, [Next]_vars
                PROVE  MergeKeepsTheBest'
    BY LastsStep
  <2>1. CASE outcome' \in {Nothing, Throws}
    BY <2>1 DEF MergeKeepsTheBest, Nothing, Throws
  <2>2. ASSUME NEW c \in Configs, Visit(c) PROVE outcome' \in {Nothing, Throws}
    BY <2>2 DEF Visit
  <2>3. ASSUME NEW i \in DOMAIN branches, Step(i) PROVE outcome' \in {Nothing, Throws}
    BY <2>3 DEF Step, Answered, Answer, Fail, NodeAnswer, NodeFail, Continue, StartNext, VisitInv
  <2>4. CASE Conclude
    BY <2>4, ConcludeKeepsTheBest
  <2>5. CASE UNCHANGED vars
    BY <2>5 DEF vars, MergeKeepsTheBest
  <2>. QED
    BY <2>1, <2>2, <2>3, <2>4, <2>5 DEF Next
<1>. QED
  BY <1>1, <1>2, VisitInvariant, PTL DEF Spec

==============================================================================
