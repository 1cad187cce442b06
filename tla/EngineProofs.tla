----------------------------- MODULE EngineProofs -----------------------------
(***************************************************************************)
(* Theorems about executeWorkflow, for every workflow whose edges lead     *)
(* forward in the execution order, every policy of its nodes and every     *)
(* limit of the execution; and about validateDAG and buildExecutionWaves,  *)
(* that their order is such an order and that the waves keep it, for every *)
(* list of nodes and edges.                                                *)
(***************************************************************************)
EXTENDS EngineProperties, ExecutionWaves, FiniteSetTheorems, TLAPS

(***************************************************************************)
(* Type correctness.                                                       *)
(***************************************************************************)
\* While a node has its turn it is a node of the workflow, and its turn starts
\* without attempts.
Turn ==
    /\ pc \notin {"plan", "done"} => current \in Nodes
    /\ pc \in {"start", "resolve"} => attempt = 0

TypeInv == TypeOK /\ Turn

AttemptNotes == Seq([attempt : Nat, status : {"completed", "retry", "failed"}])
StepResults == Seq([node : Nodes, status : StepStatuses])

\* The types with names for those of the sequences.
Types ==
    /\ wf \in Workflows
    /\ pc \in Points
    /\ current \in 0..NumNodes
    /\ attempt \in Nat
    /\ pc = "attempt" => attempt < Policy.maxAttempts
    /\ attempts \in AttemptNotes
    /\ output \in [Nodes -> {"none", "plain", "routed"}]
    /\ control \in Control
    /\ outcome \in StepStatuses
    /\ steps \in StepResults
    /\ finalStatus \in {"completed", "failed"}
    /\ runs \in [Nodes -> Nat]
    /\ hookThrew \in BOOLEAN

LEMMA TypeNames == (TypeOK <=> Types) /\ (TypeOK' <=> Types')
  BY DEF TypeOK, Types, AttemptNotes, StepResults, Policy

\* What is noted of an attempt, and recorded of a step.
LEMMA NotesType ==
    /\ <<>> \in AttemptNotes /\ <<>> \in StepResults
    /\ \A s \in AttemptNotes, k \in Nat, status \in {"completed", "retry", "failed"} :
          Append(s, [attempt |-> k, status |-> status]) \in AttemptNotes
    /\ \A s \in StepResults, n \in Nodes, status \in StepStatuses :
          Append(s, [node |-> n, status |-> status]) \in StepResults
<1>1. \A k \in Nat, status \in {"completed", "retry", "failed"} :
        [attempt |-> k, status |-> status]
            \in [attempt : Nat, status : {"completed", "retry", "failed"}]
  OBVIOUS
<1>2. \A n \in Nodes, status \in StepStatuses :
        [node |-> n, status |-> status] \in [node : Nodes, status : StepStatuses]
  OBVIOUS
<1>3. \A s \in AttemptNotes, k \in Nat, status \in {"completed", "retry", "failed"} :
        Append(s, [attempt |-> k, status |-> status]) \in AttemptNotes
  BY <1>1 DEF AttemptNotes
<1>4. \A s \in StepResults, n \in Nodes, status \in StepStatuses :
        Append(s, [node |-> n, status |-> status]) \in StepResults
  BY <1>2 DEF StepResults
<1>5. <<>> \in AttemptNotes /\ <<>> \in StepResults
  BY DEF AttemptNotes, StepResults
<1> QED BY <1>3, <1>4, <1>5

LEMMA SizeType == NumNodes \in Nat
  BY EngineAssumption

\* A policy allows a first attempt.
LEMMA PolicyType ==
    ASSUME TypeInv, current \in Nodes
    PROVE  Policy \in Policies /\ Policy.maxAttempts \in Nat /\ Policy.maxAttempts > 0
<1>1. wf \in Workflow
  BY EngineAssumption DEF TypeInv, TypeOK
<1>2. Policy \in Policies
  BY <1>1 DEF Workflow, Policy
<1> QED BY <1>2 DEF Policies

\* What a control node may do to the counters leaves them counters.
LEMMA PatchedType ==
    ASSUME NEW c \in Control, NEW d \in Patched(c)
    PROVE  d \in Control
<1> USE DEF Control
<1>1. Values \subseteq Nat
  BY EngineAssumption
<1>2. CASE \E v \in Values : d = [c EXCEPT !.retryCount = @ + v]
  BY <1>1, <1>2
<1>3. CASE \E v \in Values : d = [c EXCEPT !.loopCount = @ + v]
  BY <1>1, <1>3
<1>4. CASE \E v \in Values : d = [c EXCEPT !.maxRetries = IF v = 0 THEN 1 ELSE v]
  BY <1>1, <1>4
<1>5. CASE \E v \in Values : d = [c EXCEPT !.maxLoops = IF v = 0 THEN 1 ELSE v]
  BY <1>1, <1>5
<1>6. CASE d = [c EXCEPT !.retryCount = 0]
  BY <1>6
<1>7. CASE d = [c EXCEPT !.loopCount = 0]
  BY <1>7
<1>8. CASE d = [c EXCEPT !.terminate = TRUE]
  BY <1>8
<1>9. CASE d = [c EXCEPT !.terminate = FALSE]
  BY <1>9
<1> HIDE DEF Control
<1> QED BY <1>2, <1>3, <1>4, <1>5, <1>6, <1>7, <1>8, <1>9 DEF Patched

LEMMA RetriedType ==
    ASSUME NEW c \in Control, NEW b \in BOOLEAN
    PROVE  Retried(c, b) \in Control /\ Retried(c, b).terminate = c.terminate
<1>1. c.retryCount + 1 \in Nat /\ c.loopCount + 1 \in Nat
  BY DEF Control
<1>2. CASE b
  BY <1>1, <1>2 DEF Control, Retried
<1>3. CASE ~b
  BY <1>1, <1>3 DEF Control, Retried
<1> QED BY <1>2, <1>3

\* A failure and a hook that throws leave the counters counters.
LEMMA TerminatedType ==
    ASSUME NEW c \in Control
    PROVE  /\ [c EXCEPT !.terminate = TRUE] \in Control
           /\ [c EXCEPT !.terminate = TRUE, !.retryCount = @ + 1] \in Control
<1>1. c.retryCount + 1 \in Nat
  BY DEF Control
<1> QED BY <1>1 DEF Control

\* Where a node's turn ends, another begins or the walk is over.
LEMMA AdvanceType ==
    ASSUME TypeInv, Advance
    PROVE  /\ pc' \in Points /\ current' \in 0..NumNodes
           /\ attempt' = 0 /\ attempts' = <<>>
           /\ pc' = "start" => current' \in Nodes
           /\ pc' \in {"start", "done"}
  BY SizeType DEF TypeInv, TypeOK, Advance, Points, Nodes

LEMMA TypeStep ==
    ASSUME TypeInv, [Next]_vars
    PROVE  TypeInv'
<1>a. Advance => /\ pc' \in Points /\ current' \in 0..NumNodes
                 /\ attempt' = 0 /\ attempts' = <<>>
                 /\ pc' = "start" => current' \in Nodes
                 /\ pc' \in {"start", "done"}
  BY AdvanceType
<1>p. current \in Nodes => Policy.countLoop \in BOOLEAN /\ Policy.maxAttempts > 0
  BY PolicyType DEF Policies
<1>t. /\ [control EXCEPT !.terminate = TRUE] \in Control
      /\ [control EXCEPT !.terminate = TRUE, !.retryCount = @ + 1] \in Control
  BY TerminatedType DEF TypeInv, TypeOK
<1>i. Types /\ Turn
  BY TypeNames DEF TypeInv
<1> SUFFICES Types' /\ Turn'
  BY TypeNames DEF TypeInv
<1> USE <1>i, SizeType, NotesType
        DEF Types, Turn, Points, StepStatuses, Abort, FailNode, Policy
<1>e. Executed => /\ current \in Nodes /\ pc = "attempt" /\ attempt' = attempt + 1
                  /\ runs' \in [Nodes -> Nat]
                  /\ \A o \in {"none", "plain", "routed"} :
                        [output EXCEPT ![current] = o] \in [Nodes -> {"none", "plain", "routed"}]
  BY DEF Executed
<1>n. ASSUME Executed, NEW status \in {"completed", "retry", "failed"}, Note(status)
      PROVE  attempts' \in AttemptNotes
  <2>1. attempt' \in Nat
    BY <1>n, <1>e
  <2>2. attempts' = Append(attempts, [attempt |-> attempt', status |-> status])
    BY <1>n DEF Note
  <2> HIDE NotesType
  <2> QED BY <2>1, <2>2, NotesType
<1>1. CASE Plan
  BY <1>1, <1>a DEF Plan
<1>2. CASE Reject
  BY <1>2, <1>t DEF Reject
<1>3. CASE StepStart
  BY <1>3, <1>t DEF StepStart
<1>4. CASE Refuse
  BY <1>4, <1>t DEF Refuse
<1>5. CASE SkipNode
  BY <1>5 DEF SkipNode
<1>6. CASE SkipHook
  <2>1. CASE Advance /\ UNCHANGED <<control, finalStatus, outcome, hookThrew>>
    BY <1>6, <2>1, <1>a DEF SkipHook
  <2>2. CASE FailNode(control) /\ hookThrew' = TRUE /\ UNCHANGED <<current, attempt, attempts>>
    BY <1>6, <2>2, <1>t DEF SkipHook
  <2> QED BY <1>6, <2>1, <2>2 DEF SkipHook
<1>7. CASE Resolve
  BY <1>7, <1>p DEF Resolve
<1>8. CASE Succeed
  <2>1. attempts' \in AttemptNotes
    BY <1>8, <1>n DEF Succeed
  <2> QED BY <1>8, <1>e, <2>1 DEF Succeed
<1>9. CASE AskRetry
  <2>1. control' \in Control
    BY <1>9, <1>p, RetriedType DEF AskRetry, Executed
  <2>2. attempts' \in AttemptNotes
    BY <1>9, <1>n DEF AskRetry
  <2> QED BY <1>9, <1>e, <2>1, <2>2 DEF AskRetry
<1>10. CASE AttemptThrows
  BY <1>10 DEF AttemptThrows, Executed
<1>11. CASE RunControl
  <2>1. control' \in Control
    BY <1>11, PatchedType DEF RunControl
  <2>2. attempts' \in AttemptNotes
    BY <1>11, <1>n DEF RunControl
  <2> QED BY <1>11, <1>e, <2>1, <2>2 DEF RunControl
<1>12. CASE AttemptError
  <2>1. /\ Retried(control, FALSE) \in Control
        /\ [Retried(control, FALSE) EXCEPT !.terminate = TRUE, !.retryCount = @ + 1] \in Control
    BY RetriedType, TerminatedType
  <2>2. attempts' \in AttemptNotes
    BY <1>12 DEF AttemptError
  <2>3. CASE FailNode(Retried(control, FALSE))
    BY <1>12, <2>1, <2>2, <2>3 DEF AttemptError
  <2>4. CASE FailNode(control)
    BY <1>12, <2>2, <2>4, <1>t DEF AttemptError
  <2>5. CASE /\ Policy.enabled /\ Policy.onError /\ attempt < Policy.maxAttempts
             /\ control' = Retried(control, FALSE) /\ pc' = "attempt"
             /\ UNCHANGED <<outcome, finalStatus>>
    BY <1>12, <2>1, <2>2, <2>5 DEF AttemptError
  <2> QED BY <1>12, <2>3, <2>4, <2>5 DEF AttemptError
<1>13. CASE Record
  <2>1. steps' \in StepResults
    BY <1>13 DEF Record
  <2>2. CASE Abort /\ UNCHANGED <<current, attempt, attempts>>
    BY <1>13, <2>1, <2>2, <1>t DEF Record
  <2>3. CASE Advance /\ UNCHANGED <<control, finalStatus, hookThrew>>
    BY <1>13, <2>1, <2>3, <1>a DEF Record
  <2>4. CASE /\ pc' = "skipRest" /\ UNCHANGED <<current, attempt, attempts, hookThrew>>
             /\ \/ UNCHANGED <<control, finalStatus>>
                \/ control' = [control EXCEPT !.terminate = TRUE] /\ finalStatus' = "failed"
    BY <1>13, <2>1, <2>4, <1>t DEF Record
  <2> QED BY <1>13, <2>2, <2>3, <2>4 DEF Record
<1>14. CASE SkipRest
  <2>1. CASE current = NumNodes
    BY <1>14, <2>1 DEF SkipRest
  <2>2. CASE current < NumNodes
    <3>1. current' \in Nodes
      BY <1>14, <2>2 DEF SkipRest, Nodes
    <3>2. steps' \in StepResults
      BY <1>14, <2>2, <3>1 DEF SkipRest
    <3>3. UNCHANGED <<wf, attempt, attempts, output, outcome, runs>>
      BY <1>14 DEF SkipRest
    <3>4. CASE Abort
      BY <3>1, <3>2, <3>3, <3>4, <1>t DEF Nodes
    <3>5. CASE UNCHANGED <<pc, control, finalStatus, hookThrew>>
      BY <1>14, <3>1, <3>2, <3>3, <3>5 DEF SkipRest
    <3> QED BY <1>14, <2>2, <3>4, <3>5 DEF SkipRest
  <2> QED BY <1>14, <2>1, <2>2 DEF SkipRest
<1>15. CASE UNCHANGED vars
  BY <1>15 DEF vars
<1> QED BY <1>1, <1>2, <1>3, <1>4, <1>5, <1>6, <1>7, <1>8, <1>9, <1>10, <1>11, <1>12,
      <1>13, <1>14, <1>15 DEF Next

LEMMA TypeInit ==
    ASSUME Init
    PROVE  TypeInv
<1>1. control \in Control
  BY EngineAssumption DEF Init, Control
<1>2. current \in 0..NumNodes /\ runs \in [Nodes -> Nat]
         /\ output \in [Nodes -> {"none", "plain", "routed"}]
  BY EngineAssumption DEF Init
<1> QED BY <1>1, <1>2, NotesType, TypeNames
        DEF Init, TypeInv, Types, Turn, Points, StepStatuses

\* Every variable keeps its type, and no node is tried more often than its policy
\* allows, for every workflow.
THEOREM EngineTypes == Spec => []TypeOK
<1>1. Init => TypeInv
  BY TypeInit
<1>2. TypeInv /\ [Next]_vars => TypeInv'
  BY TypeStep
<1> QED BY <1>1, <1>2, PTL DEF Spec, TypeInv

(***************************************************************************)
(* What is recorded.                                                       *)
(***************************************************************************)
\* The steps are those of the nodes behind the current one, in their order, and one
\* of the current node where it was skipped or the rest is skipped.
Ordered ==
    \A i, j \in DOMAIN steps : i < j =>
        \/ steps[i].node < steps[j].node
        \/ /\ steps[i].node = steps[j].node /\ j = i + 1
           /\ steps[i].status = "skipped" /\ steps[j].status = "failed"

Behind ==
    \A i \in DOMAIN steps :
        /\ steps[i].node <= current
        /\ steps[i].node = current /\ pc \notin {"skipRest", "done"} =>
              /\ i = Len(steps) /\ steps[i].status = "skipped"
              /\ pc = "skipHook" \/ (pc = "record" /\ outcome = "failed")

\* Until something fails there is one step for each node dealt with, and no limit is
\* passed where the walk goes on.
InOrder ==
    /\ Len(steps) = IF pc \in {"start", "resolve", "attempt", "caught", "record"}
                    THEN current - 1 ELSE current
    /\ \A i \in DOMAIN steps : steps[i].node = i /\ steps[i].status # "failed"

WithinLimits ==
    /\ pc = "plan" => current = 0
    /\ pc = "done" => current = NumNodes
    /\ pc = "record" => outcome = "completed"
    /\ pc = "skipRest" => control.terminate
    /\ pc \notin {"caught", "record"} => ~Exceeded(control)

\* A node that ran, and one that its edges lead to.
Ran(n) == output[n] # "none"
Led(n) == Parents(n) = {} \/ \E m \in Parents(n) : Satisfied(m, n)

\* The nodes dealt with ran where their edges led to them, and no other node did.
Decided ==
    /\ \A n \in DOMAIN steps :
          (Ran(n) <=> Led(n)) /\ (Ran(n) <=> steps[n].status = "completed")
    /\ \A n \in Nodes \ DOMAIN steps : Ran(n) => pc = "record" /\ n = current
    /\ pc \in {"attempt", "caught", "record"} => Led(current)
    /\ pc = "record" => Ran(current)

LEMMA OneMoreStep ==
    ASSUME Types, NEW x, steps' = Append(steps, x)
    PROVE  /\ Len(steps) \in Nat /\ DOMAIN steps = 1..Len(steps)
           /\ Len(steps') = Len(steps) + 1 /\ DOMAIN steps' = 1..(Len(steps) + 1)
           /\ \A i \in DOMAIN steps : steps'[i] = steps[i]
           /\ steps'[Len(steps) + 1] = x
  BY DEF Types, StepResults

LEMMA StepsType ==
    ASSUME Types
    PROVE  /\ Len(steps) \in Nat /\ DOMAIN steps = 1..Len(steps)
           /\ \A i \in DOMAIN steps : steps[i].node \in Nodes /\ steps[i].status \in StepStatuses
           /\ current \in Int /\ NumNodes \in Nat
<1>1. /\ Len(steps) \in Nat /\ DOMAIN steps = 1..Len(steps)
      /\ \A i \in DOMAIN steps : steps[i] \in [node : Nodes, status : StepStatuses]
  <2> DEFINE R == [node : Nodes, status : StepStatuses]
  <2>1. steps \in Seq(R)
    BY DEF Types, StepResults
  <2> HIDE DEF R
  <2>2. /\ Len(steps) \in Nat /\ DOMAIN steps = 1..Len(steps)
        /\ \A i \in DOMAIN steps : steps[i] \in R
    BY <2>1
  <2> QED BY <2>2 DEF R
<1>2. current \in Int /\ NumNodes \in Nat
  BY SizeType DEF Types
<1> QED BY <1>1, <1>2

\* A step that records nothing, moves the walk at most forward and leaves no mark.
LEMMA OrderKept ==
    ASSUME Types, Ordered, Behind, UNCHANGED steps, current' \in Int, current' >= current,
           \/ pc' \in {"skipRest", "done"}
           \/ current' > current
           \/ /\ current' = current
              /\ pc \notin {"skipHook", "record", "skipRest", "done"}
           \/ current' = current /\ pc = "skipHook" /\ pc' = "record" /\ outcome' = "failed"
    PROVE  Ordered' /\ Behind'
<1>1. Ordered'
  BY DEF Ordered
<1>2. Behind'
  BY StepsType, SizeType DEF Behind, Nodes
<1> QED BY <1>1, <1>2

\* A step that is recorded for a node beyond those recorded, or for a skipped one.
LEMMA OrderGrows ==
    ASSUME Types, Ordered, Behind, current \in Nodes, current' \in Int, current' >= current,
           NEW status, NEW n \in {current, current'},
           steps' = Append(steps, [node |-> n, status |-> status]),
           \/ n = current /\ pc = "resolve" /\ pc' = "skipHook" /\ status = "skipped"
           \/ n = current /\ pc = "record" /\ status = outcome
                 /\ (pc' \in {"skipRest", "done"} \/ current' > current)
           \/ n = current' /\ current' = current + 1 /\ pc' \in {"skipRest", "done"}
    PROVE  Ordered' /\ Behind'
<1> DEFINE x == [node |-> n, status |-> status]
<1>1. /\ Len(steps) \in Nat /\ DOMAIN steps = 1..Len(steps)
      /\ Len(steps') = Len(steps) + 1 /\ DOMAIN steps' = 1..(Len(steps) + 1)
      /\ \A i \in DOMAIN steps : steps'[i] = steps[i]
      /\ steps'[Len(steps) + 1] = x
  BY OneMoreStep
<1>2. /\ \A i \in DOMAIN steps : steps[i].node \in Int
      /\ current \in Int /\ n \in Int /\ n >= current /\ n <= current'
  BY StepsType, SizeType DEF Nodes
<1>3. ASSUME NEW i \in DOMAIN steps
      PROVE  \/ steps[i].node < n
             \/ steps[i].node = n /\ i = Len(steps) /\ steps[i].status = "skipped"
                  /\ status = "failed"
  BY <1>2 DEF Behind
<1>4. Ordered'
  BY <1>1, <1>2, <1>3 DEF Ordered
<1>5. Behind'
  BY <1>1, <1>2, <1>3 DEF Behind
<1> QED BY <1>4, <1>5

LEMMA OrderStep ==
    ASSUME TypeInv, Ordered, Behind, [Next]_vars
    PROVE  Ordered' /\ Behind'
<1>i. Types /\ Turn /\ current \in Int
  BY TypeNames, SizeType DEF TypeInv, Types
<1>t. current' \in Int
  BY TypeStep, TypeNames, SizeType DEF TypeInv, Types
<1>a. Advance => current' >= current /\ (pc' = "done" \/ current' > current)
  BY <1>i DEF Advance
<1> USE <1>i, <1>t DEF Turn
<1>1. CASE Plan \/ Reject
  BY <1>1, <1>a, OrderKept DEF Plan, Reject
<1>2. CASE StepStart \/ Refuse \/ Resolve
  BY <1>2, OrderKept DEF StepStart, Refuse, Resolve, Abort, FailNode
<1>3. CASE SkipNode
  BY <1>3, OrderGrows DEF SkipNode
<1>4. CASE SkipHook
  BY <1>4, <1>a, OrderKept DEF SkipHook, FailNode
<1>5. CASE Succeed \/ AskRetry \/ AttemptThrows \/ RunControl
  BY <1>5, OrderKept DEF Succeed, AskRetry, AttemptThrows, RunControl, Executed
<1>6. CASE AttemptError
  BY <1>6, OrderKept DEF AttemptError, FailNode
<1>7. CASE Record
  <2>1. /\ current \in Nodes /\ pc = "record"
        /\ steps' = Append(steps, [node |-> current, status |-> outcome])
    BY <1>7 DEF Record
  <2>2. current' >= current /\ (pc' \in {"skipRest", "done"} \/ current' > current)
    BY <1>7, <1>a DEF Record, Abort
  <2>3. current \in {current, current'}
    OBVIOUS
  <2> QED BY <2>1, <2>2, <2>3, OrderGrows
<1>8. CASE SkipRest
  <2>1. CASE current < NumNodes
    <3>1. current \in Nodes /\ current' = current + 1 /\ pc' \in {"skipRest", "done"}
             /\ steps' = Append(steps, [node |-> current', status |-> "skipped"])
      BY <1>8, <2>1 DEF SkipRest, Abort
    <3>2. current' \in {current, current'} /\ current' >= current
      BY <3>1
    <3> QED BY <3>1, <3>2, OrderGrows
  <2>2. CASE current = NumNodes
    <3>1. UNCHANGED <<current, steps>> /\ pc' = "done"
      BY <1>8, <2>2 DEF SkipRest
    <3> QED BY <3>1, OrderKept
  <2> QED BY <1>8, <2>1, <2>2 DEF SkipRest
<1>9. CASE UNCHANGED vars
  BY <1>9 DEF vars, Ordered, Behind
<1> QED BY <1>1, <1>2, <1>3, <1>4, <1>5, <1>6, <1>7, <1>8, <1>9 DEF Next

\* Even a hook that throws leaves at most one node recorded twice.
THEOREM TwiceOnlyIfSkippedHolds == Spec => []TwiceOnlyIfSkipped
<1> DEFINE Inv == TypeInv /\ Ordered /\ Behind
<1>1. ASSUME Init PROVE Inv
  <2>1. DOMAIN steps = {}
    BY <1>1 DEF Init
  <2> QED BY <1>1, <2>1, TypeInit DEF Ordered, Behind
<1>2. Inv /\ [Next]_vars => Inv'
  BY TypeStep, OrderStep
<1>3. ASSUME Inv PROVE TwiceOnlyIfSkipped
  <2>1. Types
    BY <1>3, TypeNames DEF TypeInv
  <2>2. /\ DOMAIN steps = 1..Len(steps) /\ Len(steps) \in Nat
        /\ \A i \in DOMAIN steps : steps[i].node \in Int
    BY <2>1, StepsType DEF Nodes
  <2> QED BY <1>3, <2>2 DEF Ordered, TwiceOnlyIfSkipped
<1> QED BY <1>1, <1>2, <1>3, PTL DEF Spec

(***************************************************************************)
(* What a completed execution is.                                          *)
(***************************************************************************)
Clean == finalStatus = "completed" => InOrder /\ WithinLimits

\* A step that records nothing and keeps the count of what is dealt with.
LEMMA CountKept ==
    ASSUME InOrder, UNCHANGED steps,
           LET dealt == IF pc \in {"start", "resolve", "attempt", "caught", "record"}
                        THEN current - 1 ELSE current
           IN  dealt = IF pc' \in {"start", "resolve", "attempt", "caught", "record"}
                       THEN current' - 1 ELSE current'
    PROVE  InOrder'
  BY DEF InOrder

\* A step that records one node more.
LEMMA CountGrows ==
    ASSUME Types, InOrder, NEW status, status # "failed",
           steps' = Append(steps, [node |-> Len(steps) + 1, status |-> status]),
           Len(steps) + 1 = IF pc' \in {"start", "resolve", "attempt", "caught", "record"}
                            THEN current' - 1 ELSE current'
    PROVE  InOrder'
<1>1. /\ Len(steps) \in Nat /\ DOMAIN steps = 1..Len(steps)
      /\ Len(steps') = Len(steps) + 1 /\ DOMAIN steps' = 1..(Len(steps) + 1)
      /\ \A i \in DOMAIN steps : steps'[i] = steps[i]
      /\ steps'[Len(steps) + 1] = [node |-> Len(steps) + 1, status |-> status]
  BY OneMoreStep
<1> QED BY <1>1 DEF InOrder

LEMMA CleanStep ==
    ASSUME TypeInv, Clean, [Next]_vars
    PROVE  Clean'
<1> SUFFICES ASSUME finalStatus' = "completed"
             PROVE  InOrder' /\ WithinLimits'
  BY DEF Clean
<1>i. Types /\ Turn /\ current \in 0..NumNodes /\ NumNodes \in Nat /\ Len(steps) \in Nat
  BY TypeNames, StepsType, SizeType DEF TypeInv, Types
<1>c. finalStatus = "completed"
  BY DEF Next, vars, Plan, Reject, StepStart, Refuse, SkipNode, SkipHook, Resolve, Succeed,
         AskRetry, AttemptThrows, RunControl, AttemptError, Record, SkipRest, Abort, FailNode
<1>o. InOrder /\ WithinLimits
  BY <1>c DEF Clean
<1> USE <1>i, <1>o DEF Turn
<1>1. CASE Plan
  BY <1>1, CountKept DEF Plan, Advance, WithinLimits
<1>2. CASE Reject \/ Refuse
  BY <1>2 DEF Reject, Refuse, FailNode
<1>3. CASE StepStart \/ Resolve
  BY <1>3, CountKept DEF StepStart, Resolve, Abort, WithinLimits
<1>4. CASE SkipNode
  <2>1. current \in Nodes /\ Len(steps) + 1 = current /\ pc' = "skipHook"
           /\ steps' = Append(steps, [node |-> current, status |-> "skipped"])
           /\ UNCHANGED <<control, current>>
    BY <1>4 DEF SkipNode, InOrder
  <2>2. InOrder'
    BY <2>1, CountGrows
  <2> QED BY <1>4, <2>1, <2>2 DEF SkipNode, WithinLimits
<1>5. CASE SkipHook
  BY <1>5, CountKept DEF SkipHook, FailNode, Advance, WithinLimits
<1>6. CASE Succeed \/ AttemptThrows \/ RunControl
  BY <1>6, CountKept DEF Succeed, AttemptThrows, RunControl, Executed, WithinLimits
<1>7. CASE AskRetry
  BY <1>7, CountKept DEF AskRetry, Executed, WithinLimits
<1>8. CASE AttemptError
  BY <1>8, CountKept DEF AttemptError, FailNode, WithinLimits
<1>9. CASE Record
  <2>1. current \in Nodes /\ Len(steps) + 1 = current /\ outcome = "completed"
           /\ steps' = Append(steps, [node |-> current, status |-> outcome])
    BY <1>9 DEF Record, InOrder, WithinLimits
  <2>2. CASE Advance /\ ~Exceeded(control) /\ UNCHANGED control
    <3>1. InOrder'
      BY <2>1, <2>2, CountGrows DEF Advance
    <3> QED BY <2>2, <3>1 DEF Advance, WithinLimits
  <2>3. CASE pc' = "skipRest" /\ control.terminate /\ ~Exceeded(control)
                /\ UNCHANGED <<current, control>>
    <3>1. InOrder'
      BY <2>1, <2>3, CountGrows
    <3> QED BY <2>3, <3>1 DEF WithinLimits
  <2> QED BY <1>9, <2>1, <2>2, <2>3 DEF Record, Abort
<1>10. CASE SkipRest
  <2>1. CASE current < NumNodes
    <3>1. current' = current + 1 /\ Len(steps) = current
             /\ steps' = Append(steps, [node |-> current', status |-> "skipped"])
             /\ UNCHANGED <<pc, control>> /\ pc = "skipRest"
      BY <1>10, <2>1 DEF SkipRest, Abort, InOrder
    <3>2. InOrder'
      BY <3>1, CountGrows
    <3> QED BY <3>1, <3>2 DEF WithinLimits
  <2>2. CASE current = NumNodes
    BY <1>10, <2>2, CountKept DEF SkipRest, WithinLimits
  <2> QED BY <1>10, <2>1, <2>2 DEF SkipRest
<1>11. CASE UNCHANGED vars
  BY <1>11 DEF vars, InOrder, WithinLimits
<1> QED BY <1>1, <1>2, <1>3, <1>4, <1>5, <1>6, <1>7, <1>8, <1>9, <1>10, <1>11 DEF Next

LEMMA CleanInit ==
    ASSUME Init
    PROVE  Clean
<1>1. ~Exceeded(control)
  BY EngineAssumption DEF Init, Exceeded
<1>2. Len(steps) = 0 /\ DOMAIN steps = {}
  BY DEF Init
<1> QED BY <1>1, <1>2 DEF Init, Clean, InOrder, WithinLimits

\* An execution reported completed has one step for each node, none of them failed,
\* and has passed no limit.
THEOREM CompletedIsCleanHolds == Spec => []CompletedIsClean
<1> DEFINE Inv == TypeInv /\ Clean
<1>1. Init => Inv
  BY TypeInit, CleanInit
<1>2. Inv /\ [Next]_vars => Inv'
  BY TypeStep, CleanStep
<1>3. Inv => CompletedIsClean
  BY DEF Clean, InOrder, WithinLimits, CompletedIsClean
<1> QED BY <1>1, <1>2, <1>3, PTL DEF Spec

(***************************************************************************)
(* Which nodes run.                                                        *)
(***************************************************************************)
DecidedWhileGoing ==
    finalStatus = "completed" /\ pc # "skipRest" /\ ~(pc = "done" /\ control.terminate)
        => Decided

\* Edges lead forward.
LEMMA ParentsAreBefore ==
    ASSUME Types, NEW n \in Nodes
    PROVE  \A m \in Parents(n) : m \in Nodes /\ m < n
  BY EngineAssumption DEF Types, Parents

\* Whether a node is led to depends on the outputs of the nodes before it.
LEMMA LedKept ==
    ASSUME Types, NEW n \in Nodes, UNCHANGED wf,
           \A m \in Nodes : m < n => output'[m] = output[m]
    PROVE  Led(n)' <=> Led(n)
<1>1. Parents(n)' = Parents(n)
  BY DEF Parents
<1>2. \A m \in Parents(n) : Satisfied(m, n)' <=> Satisfied(m, n)
  BY ParentsAreBefore DEF Satisfied
<1> QED BY <1>1, <1>2 DEF Led

\* A step that neither records nor runs a node.
LEMMA DecidedKept ==
    ASSUME Types, Decided, InOrder, Len(steps) <= NumNodes,
           UNCHANGED <<wf, output, steps>>, pc # "record", pc' # "record",
           pc' \in {"attempt", "caught"} =>
               \/ current' = current /\ pc \in {"attempt", "caught"}
               \/ current' \in Nodes /\ Led(current')
    PROVE  Decided'
<1>1. \A n \in Nodes : (Led(n)' <=> Led(n)) /\ (Ran(n)' <=> Ran(n))
  BY LedKept DEF Ran
<1>2. DOMAIN steps \subseteq Nodes
  BY StepsType, SizeType DEF Nodes
<1>3. ASSUME pc' \in {"attempt", "caught"} PROVE Led(current)'
  <2>1. CASE current' = current /\ pc \in {"attempt", "caught"}
    BY <1>1, <2>1, LedKept DEF Decided, Led, Parents, Satisfied
  <2>2. CASE current' \in Nodes /\ Led(current')
    BY <1>1, <2>2 DEF Led, Parents, Satisfied
  <2> QED BY <1>3, <2>1, <2>2
<1> QED BY <1>1, <1>2, <1>3 DEF Decided

\* The current node runs, and its output is kept.
LEMMA DecidedByRun ==
    ASSUME Types, Decided, InOrder, current \in Nodes, pc = "attempt",
           NEW o \in {"plain", "routed"}, output' = [output EXCEPT ![current] = o],
           UNCHANGED <<wf, steps, current>>, pc' = "record"
    PROVE  Decided'
<1>1. DOMAIN steps = 1..(current - 1) /\ current \in Int
  BY StepsType DEF InOrder
<1>2. /\ \A m \in Nodes : m # current => output'[m] = output[m]
      /\ output'[current] = o
  BY DEF Types
<1>3. \A n \in Nodes : n <= current => (Led(n)' <=> Led(n))
  BY <1>2, LedKept DEF Nodes
<1>4. DOMAIN steps \subseteq Nodes /\ \A n \in DOMAIN steps : n < current
  BY <1>1, SizeType DEF Nodes
<1>5. \A n \in DOMAIN steps : (Led(n)' <=> Led(n)) /\ (Ran(n)' <=> Ran(n))
  BY <1>2, <1>3, <1>4 DEF Ran, Nodes
<1>6. Led(current) => Led(current)'
  BY <1>3 DEF Led, Parents, Satisfied, Nodes
<1> QED BY <1>2, <1>4, <1>5, <1>6 DEF Decided, Ran

\* The step of the current node is recorded, and another node has its turn.
LEMMA DecidedByStep ==
    ASSUME Types, Decided, InOrder, current \in Nodes, Len(steps) + 1 = current,
           NEW status \in {"completed", "skipped"},
           steps' = Append(steps, [node |-> current, status |-> status]),
           Ran(current) <=> Led(current), Ran(current) <=> status = "completed",
           UNCHANGED <<wf, output>>, pc' \in {"start", "skipHook", "done"}
    PROVE  Decided'
<1>1. /\ Len(steps) \in Nat /\ DOMAIN steps = 1..Len(steps)
      /\ DOMAIN steps' = 1..(Len(steps) + 1)
      /\ \A i \in DOMAIN steps : steps'[i] = steps[i]
      /\ steps'[Len(steps) + 1] = [node |-> current, status |-> status]
  BY OneMoreStep
<1>2. \A n \in Nodes : (Led(n)' <=> Led(n)) /\ (Ran(n)' <=> Ran(n))
  BY LedKept DEF Ran
<1>3. DOMAIN steps' = DOMAIN steps \cup {current} /\ DOMAIN steps' \subseteq Nodes
         /\ current \notin DOMAIN steps
  BY <1>1, SizeType DEF Nodes
<1>4. steps'[current].status = status
  BY <1>1
<1>5. ASSUME NEW n \in DOMAIN steps'
      PROVE  (Ran(n)' <=> Led(n)') /\ (Ran(n)' <=> steps'[n].status = "completed")
  <2>1. CASE n = current
    BY <1>2, <1>3, <1>4, <2>1
  <2>2. CASE n \in DOMAIN steps
    BY <1>1, <1>2, <1>3, <2>2 DEF Decided
  <2> QED BY <1>3, <2>1, <2>2
<1>6. \A n \in Nodes \ DOMAIN steps' : ~Ran(n)'
  BY <1>2, <1>3 DEF Decided
<1> QED BY <1>5, <1>6 DEF Decided

LEMMA DecidedStep ==
    ASSUME TypeInv, Clean, DecidedWhileGoing, [Next]_vars
    PROVE  DecidedWhileGoing'
<1> SUFFICES ASSUME finalStatus' = "completed", pc' # "skipRest",
                    ~(pc' = "done" /\ control'.terminate)
             PROVE  Decided'
  BY DEF DecidedWhileGoing
<1>i. Types /\ Turn /\ current \in 0..NumNodes /\ NumNodes \in Nat /\ Len(steps) \in Nat
  BY TypeNames, StepsType, SizeType DEF TypeInv, Types
<1>c. finalStatus = "completed"
  BY DEF Next, vars, Plan, Reject, StepStart, Refuse, SkipNode, SkipHook, Resolve, Succeed,
         AskRetry, AttemptThrows, RunControl, AttemptError, Record, SkipRest, Abort, FailNode
<1>o. InOrder /\ WithinLimits
  BY <1>c DEF Clean
<1>s. Len(steps) <= NumNodes
  BY <1>i, <1>o DEF InOrder
<1>d. pc # "skipRest" /\ ~(pc = "done" /\ control.terminate) => Decided
  BY <1>c DEF DecidedWhileGoing
<1> USE <1>i, <1>o, <1>s DEF Turn
<1>1. CASE Plan
  BY <1>1, <1>d, DecidedKept DEF Plan, Advance
<1>2. CASE Reject \/ Refuse
  BY <1>2 DEF Reject, Refuse, FailNode
<1>3. CASE StepStart
  BY <1>3, <1>d, DecidedKept DEF StepStart, Abort
<1>4. CASE Resolve
  <2>1. Led(current) /\ current \in Nodes
    BY <1>4 DEF Resolve, Led
  <2> QED BY <1>4, <1>d, <2>1, DecidedKept DEF Resolve
<1>5. CASE SkipNode
  <2>1. ~Led(current)
    BY <1>5 DEF SkipNode, Led
  <2>2. /\ current \in Nodes /\ Len(steps) + 1 = current /\ pc = "resolve"
        /\ steps' = Append(steps, [node |-> current, status |-> "skipped"])
        /\ UNCHANGED <<wf, output>> /\ pc' = "skipHook"
    BY <1>5 DEF SkipNode, InOrder
  <2>3. ~Ran(current)
    BY <1>d, <2>2, StepsType DEF Decided
  <2> QED BY <1>d, <2>1, <2>2, <2>3, DecidedByStep
<1>6. CASE SkipHook
  BY <1>6, <1>d, DecidedKept DEF SkipHook, FailNode, Advance
<1>7. CASE Succeed
  BY <1>7, <1>d, DecidedByRun DEF Succeed, Executed
<1>8. CASE AskRetry \/ AttemptThrows
  BY <1>8, <1>d, DecidedKept DEF AskRetry, AttemptThrows, Executed
<1>9. CASE RunControl
  BY <1>9, <1>d, DecidedByRun DEF RunControl, Executed
<1>10. CASE AttemptError
  BY <1>10, <1>d, DecidedKept DEF AttemptError, FailNode
<1>11. CASE Record
  <2>1. /\ current \in Nodes /\ Len(steps) + 1 = current /\ outcome = "completed"
        /\ steps' = Append(steps, [node |-> current, status |-> "completed"])
        /\ UNCHANGED <<wf, output>> /\ pc = "record"
    BY <1>11 DEF Record, InOrder, WithinLimits
  <2>2. pc' \in {"start", "done"}
    BY <1>11 DEF Record, Advance, Abort
  <2>3. Ran(current) /\ Led(current)
    BY <1>d, <2>1 DEF Decided
  <2> QED BY <1>d, <2>1, <2>2, <2>3, DecidedByStep
<1>12. CASE SkipRest
  BY <1>12 DEF SkipRest, Abort, WithinLimits
<1>13. CASE UNCHANGED vars
  <2>1. Decided /\ UNCHANGED <<wf, pc, current, output, steps>>
    BY <1>13, <1>d DEF vars
  <2> QED BY <2>1 DEF Decided, Ran, Led, Parents, Satisfied
<1> QED BY <1>1, <1>2, <1>3, <1>4, <1>5, <1>6, <1>7, <1>8, <1>9, <1>10, <1>11, <1>12,
      <1>13 DEF Next

LEMMA DecidedInit ==
    ASSUME Init
    PROVE  DecidedWhileGoing
<1>1. DOMAIN steps = {} /\ \A n \in Nodes : ~Ran(n)
  BY DEF Init, Ran
<1> QED BY <1>1 DEF Init, DecidedWhileGoing, Decided

\* A set of numbers that is not empty has a least one.
LEMMA LeastNumber ==
    ASSUME NEW S \in SUBSET Nat, S # {}
    PROVE  \E n \in S : \A m \in S : n <= m
<1> DEFINE T == {1..x : x \in S}
<1>1. T \subseteq FiniteSubsetsOf(Nat) /\ T # {}
  <2>1. \A x \in S : 1..x \in SUBSET Nat /\ IsFiniteSet(1..x)
    BY FS_Interval
  <2> QED BY <2>1 DEF FiniteSubsetsOf
<1>2. PICK t \in T : \A u \in T : ~(<<u, t>> \in StrictSubsetOrdering(Nat))
  <2> HIDE DEF T
  <2> QED BY <1>1, FS_StrictSubsetOrderingWellFounded, WFMin
<1>3. PICK x \in S : t = 1..x
  BY <1>2
<1>4. ASSUME NEW y \in S PROVE x <= y
  <2>1. ~(1..y \subseteq 1..x /\ 1..y # 1..x)
    <3>1. 1..y \in T /\ 1..y \in SUBSET Nat /\ 1..x \in SUBSET Nat
      OBVIOUS
    <3>2. ~(<<1..y, 1..x>> \in StrictSubsetOrdering(Nat))
      <4> HIDE DEF T
      <4> QED BY <1>2, <1>3, <3>1
    <3> QED BY <3>1, <3>2 DEF StrictSubsetOrdering
  <2>2. x \in Nat /\ y \in Nat
    OBVIOUS
  <2>3. y < x => 1..y \subseteq 1..x /\ 1..y # 1..x
    BY <2>2
  <2> QED BY <2>1, <2>2, <2>3
<1> QED BY <1>4

\* Where the nodes that ran are those led to, each of them is reached from a root.
LEMMA ReachedRan ==
    ASSUME Types, \A n \in Nodes : Ran(n) <=> Led(n)
    PROVE  \A n \in Nodes : Reached[n] <=> Ran(n)
<1> DEFINE Body(f, n) == /\ output[n] # "none"
                         /\ Parents(n) = {} \/ \E m \in Parents(n) : Satisfied(m, n) /\ f[m]
           ran == [n \in Nodes |-> Ran(n)]
<1>1. \A m, n \in Nodes : Satisfied(m, n) => Ran(m)
  BY DEF Satisfied, Ran
<1>2. \A n \in Nodes : ran[n] <=> Body(ran, n)
  BY <1>1, ParentsAreBefore DEF Ran, Led
<1>3. Reached = [n \in Nodes |-> Body(Reached, n)]
  <2>1. ran = [n \in Nodes |-> Body(ran, n)]
    BY <1>2 DEF Ran
  <2> QED BY <2>1 DEF Reached
<1>4. \A n \in Nodes : Reached[n] <=> Body(Reached, n)
  BY <1>3
<1> DEFINE Missed == {n \in Nodes : Ran(n) /\ ~Reached[n]}
<1>5. Missed = {}
  <2> SUFFICES ASSUME Missed # {} PROVE FALSE
    OBVIOUS
  <2>1. PICK n \in Missed : \A m \in Missed : n <= m
    <3> Missed \in SUBSET Nat
      BY SizeType DEF Nodes
    <3> HIDE DEF Missed
    <3> QED BY LeastNumber
  <2>2. n \in Nodes /\ Ran(n) /\ ~Body(Reached, n)
    BY <1>4, <2>1
  <2>3. PICK m \in Parents(n) : Satisfied(m, n) /\ ~Reached[m]
    BY <2>2 DEF Ran, Led
  <2>4. m \in Nodes /\ m < n /\ Ran(m)
    BY <1>1, <2>2, <2>3, ParentsAreBefore
  <2>5. m \in Missed
    BY <2>3, <2>4
  <2>6. m \in Int /\ n \in Int
    BY <2>2, <2>4, SizeType DEF Nodes
  <2> HIDE DEF Missed
  <2> QED BY <2>1, <2>4, <2>5, <2>6
<1>6. \A n \in Nodes : Reached[n] => Ran(n)
  BY <1>4 DEF Ran
<1> QED BY <1>5, <1>6

\* A completed execution that nobody terminated ran exactly the nodes on the branches
\* taken, for every graph whose edges lead forward and every condition on them.
THEOREM BranchesDecideHolds == Spec => []BranchesDecide
<1> DEFINE Inv == TypeInv /\ Clean /\ DecidedWhileGoing
<1>1. Init => Inv
  BY TypeInit, CleanInit, DecidedInit
<1>2. Inv /\ [Next]_vars => Inv'
  BY TypeStep, CleanStep, DecidedStep
<1>3. ASSUME Inv PROVE BranchesDecide
  <2> SUFFICES ASSUME pc = "done", finalStatus = "completed", ~control.terminate,
                      NEW n \in Nodes
               PROVE  /\ output[n] # "none" <=> Reached[n]
                      /\ output[n] # "none" <=> steps[n].status = "completed"
                      /\ output[n] = "none" =>
                            Parents(n) # {} /\ \A m \in Parents(n) : ~Satisfied(m, n)
    BY DEF BranchesDecide
  <2>1. Types /\ Decided /\ InOrder /\ current = NumNodes
    BY <1>3, TypeNames DEF TypeInv, Clean, WithinLimits, DecidedWhileGoing
  <2>2. DOMAIN steps = Nodes
    BY <2>1, StepsType DEF InOrder, Nodes
  <2>3. \A k \in Nodes : (Ran(k) <=> Led(k)) /\ (Ran(k) <=> steps[k].status = "completed")
    BY <2>1, <2>2 DEF Decided
  <2>4. Reached[n] <=> Ran(n)
    BY <2>1, <2>3, ReachedRan
  <2> QED BY <2>3, <2>4 DEF Ran, Led
<1> QED BY <1>1, <1>2, <1>3, PTL DEF Spec

(***************************************************************************)
(* The walk that the caller relies on.                                     *)
(***************************************************************************)
\* The result of the execution is open until a node's turn has gone wrong or is over.
WalkInv ==
    /\ pc = "plan" => current = 0
    /\ pc \notin {"record", "skipRest", "done"} => finalStatus = "completed"
    /\ pc = "skipHook" => outcome = "skipped"
    /\ pc = "record" => outcome \in {"completed", "failed"} /\ finalStatus = outcome

LEMMA WalkInvStep ==
    ASSUME TypeInv, WalkInv, [Next]_vars
    PROVE  WalkInv'
<1> USE DEF WalkInv
<1>1. CASE Plan \/ Reject \/ StepStart \/ Refuse \/ Resolve
  BY <1>1 DEF Plan, Reject, StepStart, Refuse, Resolve, Advance, Abort, FailNode
<1>2. CASE SkipNode \/ SkipHook
  BY <1>2 DEF SkipNode, SkipHook, Advance, FailNode
<1>3. CASE Succeed \/ AskRetry \/ AttemptThrows \/ RunControl
  BY <1>3 DEF Succeed, AskRetry, AttemptThrows, RunControl, Executed
<1>4. CASE AttemptError
  BY <1>4 DEF AttemptError, FailNode
<1>5. CASE Record \/ SkipRest
  BY <1>5 DEF Record, SkipRest, Advance, Abort
<1>6. CASE UNCHANGED vars
  BY <1>6 DEF vars
<1> QED BY <1>1, <1>2, <1>3, <1>4, <1>5, <1>6 DEF Next

\* What the caller sees at each point of the engine.
LEMMA Seen ==
    /\ pc = "plan" => WalkPoint = "begin" /\ WalkCursor = 0 /\ WalkOutcome = "completed"
                         /\ WalkResult = "completed"
    /\ pc = "start" => WalkPoint = "stepStart" /\ WalkCursor = current - 1
                         /\ WalkOutcome = "completed" /\ WalkResult = "completed"
    /\ pc \in {"resolve", "attempt", "caught"} =>
          WalkPoint = "runNode" /\ WalkCursor = current - 1
             /\ WalkOutcome = "completed" /\ WalkResult = "completed"
    /\ pc \in {"skipHook", "record"} =>
          /\ WalkPoint = "record" /\ WalkCursor = current - 1 /\ WalkResult = "completed"
          /\ outcome # "completed" => WalkOutcome = outcome
          /\ outcome = "completed" =>
                WalkOutcome = IF Exceeded(control) THEN "limit"
                              ELSE IF control.terminate THEN "terminate" ELSE "completed"
    /\ pc = "skipRest" => WalkPoint = "skipRest" /\ WalkCursor = current
                         /\ WalkOutcome = "completed" /\ WalkResult = finalStatus
    /\ pc = "done" => WalkPoint = "end" /\ WalkCursor = 0
                         /\ WalkOutcome = "completed" /\ WalkResult = finalStatus
  BY DEF WalkPoint, WalkCursor, WalkOutcome, WalkResult

LEMMA SeenAfter ==
    /\ pc' = "start" => WalkPoint' = "stepStart" /\ WalkCursor' = current' - 1
                         /\ WalkOutcome' = "completed" /\ WalkResult' = "completed"
    /\ pc' \in {"resolve", "attempt", "caught"} =>
          WalkPoint' = "runNode" /\ WalkCursor' = current' - 1
             /\ WalkOutcome' = "completed" /\ WalkResult' = "completed"
    /\ pc' \in {"skipHook", "record"} =>
          /\ WalkPoint' = "record" /\ WalkCursor' = current' - 1 /\ WalkResult' = "completed"
          /\ outcome' # "completed" => WalkOutcome' = outcome'
          /\ outcome' = "completed" => WalkOutcome' \in {"limit", "terminate", "completed"}
    /\ pc' = "skipRest" => WalkPoint' = "skipRest" /\ WalkCursor' = current'
                         /\ WalkOutcome' = "completed" /\ WalkResult' = finalStatus'
    /\ pc' = "done" => WalkPoint' = "end" /\ WalkCursor' = 0
                         /\ WalkOutcome' = "completed" /\ WalkResult' = finalStatus'
  BY DEF WalkPoint, WalkCursor, WalkOutcome, WalkResult

\* Every step of the engine is a step of the walk, or none that its caller sees.
LEMMA WalkStep ==
    ASSUME TypeInv, WalkInv, [Next]_vars
    PROVE  [Walk!Next]_(Walk!walk)
<1>i. /\ Types /\ Turn /\ current \in Int /\ NumNodes \in Int
      /\ outcome \in StepStatuses /\ current <= NumNodes
  BY TypeNames, SizeType DEF TypeInv, Types
<1> USE <1>i, Seen, SeenAfter DEF Turn, WalkInv, StepStatuses
<1>1. CASE Plan
  <2>1. Walk!Begin
    BY <1>1 DEF Plan, Advance, Walk!Begin, Walk!At
  <2> QED BY <2>1 DEF Walk!Next
<1>2. CASE Reject
  <2>1. Walk!GiveUp
    BY <1>2 DEF Reject, Walk!GiveUp
  <2> QED BY <2>1 DEF Walk!Next
<1>3. CASE StepStart
  <2>1. Walk!Announce \/ Walk!GiveUp
    BY <1>3 DEF StepStart, Abort, Walk!Announce, Walk!GiveUp
  <2> QED BY <2>1 DEF Walk!Next
<1>4. CASE Refuse
  <2>1. Walk!Run
    BY <1>4 DEF Refuse, FailNode, Walk!Run
  <2> QED BY <2>1 DEF Walk!Next
<1>5. CASE SkipNode
  <2>1. current > 1
    <3>1. PICK m \in Parents(current) : TRUE
      BY <1>5 DEF SkipNode
    <3>2. m \in Nodes /\ m < current
      BY <1>5, ParentsAreBefore DEF SkipNode
    <3> QED BY <3>2 DEF Nodes
  <2>2. Walk!Run
    BY <1>5, <2>1 DEF SkipNode, Walk!Run
  <2> QED BY <2>2 DEF Walk!Next
<1>6. CASE SkipHook
  <2>1. Walk!Record \/ Walk!SkipRefused
    BY <1>6 DEF SkipHook, Advance, FailNode, Walk!Record, Walk!SkipRefused, Walk!At
  <2> QED BY <2>1 DEF Walk!Next
<1>7. CASE Resolve \/ AskRetry \/ AttemptThrows
  BY <1>7 DEF Resolve, AskRetry, AttemptThrows, Executed, Walk!walk
<1>8. CASE Succeed \/ RunControl
  <2>1. Walk!Run
    BY <1>8 DEF Succeed, RunControl, Executed, Walk!Run
  <2> QED BY <2>1 DEF Walk!Next
<1>9. CASE AttemptError
  <2>1. Walk!Run \/ UNCHANGED Walk!walk
    BY <1>9 DEF AttemptError, FailNode, Walk!Run, Walk!walk
  <2> QED BY <2>1 DEF Walk!Next
<1>10. CASE Record
  <2>1. Walk!Record \/ Walk!GiveUp
    BY <1>10 DEF Record, Advance, Abort, Walk!Record, Walk!GiveUp, Walk!At
  <2> QED BY <2>1 DEF Walk!Next
<1>11. CASE SkipRest
  <2>1. Walk!SkipRest \/ Walk!GiveUp
    BY <1>11 DEF SkipRest, Abort, Walk!SkipRest, Walk!GiveUp
  <2> QED BY <2>1 DEF Walk!Next
<1>12. CASE UNCHANGED vars
  BY <1>12 DEF vars, Walk!walk, WalkPoint, WalkCursor, WalkOutcome, WalkResult, Exceeded
<1> QED BY <1>1, <1>2, <1>3, <1>4, <1>5, <1>6, <1>7, <1>8, <1>9, <1>10, <1>11, <1>12 DEF Next

\* Every run of the engine is a walk as its caller sees it: each node is announced,
\* run or skipped, and recorded in order, and the result is the one the walk promises.
THEOREM WalkImplemented == Spec => ImplementsWalk
<1>1. Init => WalkInv /\ Walk!Init
  BY Seen DEF Init, WalkInv, Walk!Init
<1>2. TypeInv /\ WalkInv /\ [Next]_vars => WalkInv'
  BY WalkInvStep
<1>3. TypeInv /\ WalkInv /\ [Next]_vars => [Walk!Next]_(Walk!walk)
  BY WalkStep
<1>4. Spec => []TypeInv
  <2>1. Init => TypeInv
    BY TypeInit
  <2>2. TypeInv /\ [Next]_vars => TypeInv'
    BY TypeStep
  <2> QED BY <2>1, <2>2, PTL DEF Spec
<1> QED BY <1>1, <1>2, <1>3, <1>4, PTL DEF Spec, ImplementsWalk, Walk!Spec

(***************************************************************************)
(* Sums over finite sets.  MapThenSumSet takes the elements one by one; a  *)
(* function that does so exists, is the only one, and grows with one of    *)
(* the numbers that are added.  Each proof looks at a smallest set for     *)
(* which it would be otherwise.                                            *)
(***************************************************************************)
First(s) == CHOOSE x \in s : TRUE
Rest(s) == s \ {First(s)}

Sums(g, w, S) ==
    g = [s \in SUBSET S |-> IF s = {} THEN 0 ELSE w[First(s)] + g[Rest(s)]]

LEMMA SmallestSet ==
    ASSUME NEW S, IsFiniteSet(S), NEW T \in SUBSET (SUBSET S), T # {}
    PROVE  \E t \in T : \A u \in T : u \subseteq t => u = t
<1>1. T \subseteq FiniteSubsetsOf(S)
  BY FS_Subset DEF FiniteSubsetsOf
<1>2. PICK t \in T : \A u \in T : ~(<<u, t>> \in StrictSubsetOrdering(S))
  BY <1>1, FS_StrictSubsetOrderingWellFounded, WFMin
<1> QED BY <1>2 DEF StrictSubsetOrdering

LEMMA RestIsSmaller ==
    ASSUME NEW s, s # {}
    PROVE  First(s) \in s /\ Rest(s) \subseteq s /\ Rest(s) # s
  BY DEF First, Rest

\* Two functions that sum the same numbers agree where both are defined.
LEMMA SumsAgree ==
    ASSUME NEW S, IsFiniteSet(S), NEW w, NEW a \in SUBSET S, NEW b \in SUBSET S,
           NEW g, Sums(g, w, a), NEW h, Sums(h, w, b)
    PROVE  \A u \in SUBSET (a \cap b) : g[u] = h[u]
<1> DEFINE Bad == {u \in SUBSET (a \cap b) : g[u] # h[u]}
<1> SUFFICES ASSUME Bad # {} PROVE FALSE
  OBVIOUS
<1>1. PICK u \in Bad : \A t \in Bad : t \subseteq u => t = u
  <2>1. Bad \in SUBSET (SUBSET S)
    OBVIOUS
  <2> HIDE DEF Bad
  <2> QED BY <2>1, SmallestSet
<1>2. u \in SUBSET a /\ u \in SUBSET b /\ g[u] # h[u]
  OBVIOUS
<1>3. u # {}
  BY <1>2 DEF Sums
<1>4. g[Rest(u)] = h[Rest(u)]
  BY <1>1, <1>3, RestIsSmaller
<1>5. g[u] = w[First(u)] + g[Rest(u)] /\ h[u] = w[First(u)] + h[Rest(u)]
  BY <1>2, <1>3 DEF Sums
<1> QED BY <1>2, <1>4, <1>5

LEMMA SumsExist ==
    ASSUME NEW S, IsFiniteSet(S), NEW w
    PROVE  \A t \in SUBSET S : \E g : Sums(g, w, t)
<1> DEFINE Bad == {t \in SUBSET S : ~\E g : Sums(g, w, t)}
<1> SUFFICES ASSUME Bad # {} PROVE FALSE
  OBVIOUS
<1>1. PICK t \in Bad : \A v \in Bad : v \subseteq t => v = t
  <2>1. Bad \in SUBSET (SUBSET S)
    OBVIOUS
  <2> HIDE DEF Bad
  <2> QED BY <2>1, SmallestSet
<1> DEFINE Of(v) == CHOOSE g : Sums(g, w, v)
           G == [u \in SUBSET t |-> IF u = {} THEN 0 ELSE w[First(u)] + Of(Rest(u))[Rest(u)]]
<1>2. \A v \in SUBSET t : v # t => Sums(Of(v), w, v)
  BY <1>1
<1>3. ASSUME NEW u \in SUBSET t, u # {} PROVE G[u] = w[First(u)] + G[Rest(u)]
  <2> DEFINE v == Rest(u)
  <2>1. v \in SUBSET t /\ v # t /\ v \subseteq u
    BY <1>3, RestIsSmaller
  <2>2. Sums(Of(v), w, v)
    BY <1>2, <2>1
  <2>3. G[v] = Of(v)[v]
    <3>1. CASE v = {}
      BY <2>1, <2>2, <3>1 DEF Sums
    <3>2. CASE v # {}
      <4>1. Rest(v) \in SUBSET t /\ Rest(v) # t /\ Rest(v) \in SUBSET v
        BY <2>1, <3>2, RestIsSmaller
      <4>2. Sums(Of(Rest(v)), w, Rest(v))
        BY <1>2, <4>1
      <4>3. Of(v)[Rest(v)] = Of(Rest(v))[Rest(v)]
        <5> HIDE DEF v, Of, G
        <5>1. Rest(v) \in SUBSET S /\ v \in SUBSET S /\ Rest(v) \in SUBSET (v \cap Rest(v))
          BY <2>1, <4>1
        <5> QED BY <2>2, <4>2, <5>1, SumsAgree
      <4>4. Of(v)[v] = w[First(v)] + Of(v)[Rest(v)]
        BY <2>2, <3>2 DEF Sums
      <4>5. G[v] = w[First(v)] + Of(Rest(v))[Rest(v)]
        BY <2>1, <3>2
      <4> QED BY <4>3, <4>4, <4>5
    <3> QED BY <3>1, <3>2
  <2> QED BY <1>3, <2>3
<1>4. G = [u \in SUBSET t |-> IF u = {} THEN 0 ELSE w[First(u)] + G[Rest(u)]]
  <2>1. G[{}] = 0 /\ G = [u \in SUBSET t |-> G[u]]
    OBVIOUS
  <2> HIDE DEF G
  <2>2. \A u \in SUBSET t : G[u] = IF u = {} THEN 0 ELSE w[First(u)] + G[Rest(u)]
    BY <1>3, <2>1
  <2> QED BY <2>1, <2>2
<1>5. Sums(G, w, t)
  <2> HIDE DEF G
  <2> QED BY <1>4 DEF Sums
<1> QED BY <1>5

\* A sum of integers is an integer, and grows by as much as one of them.
LEMMA SumGrows ==
    ASSUME NEW S, IsFiniteSet(S), NEW w, NEW v, NEW k \in S, NEW d \in Int,
           \A x \in S : w[x] \in Int /\ v[x] = IF x = k THEN w[x] + d ELSE w[x],
           NEW g, Sums(g, w, S), NEW h, Sums(h, v, S)
    PROVE  \A u \in SUBSET S : g[u] \in Int /\ h[u] = IF k \in u THEN g[u] + d ELSE g[u]
<1> DEFINE Good(u) == g[u] \in Int /\ h[u] = IF k \in u THEN g[u] + d ELSE g[u]
           Bad == {u \in SUBSET S : ~Good(u)}
<1> SUFFICES ASSUME Bad # {} PROVE FALSE
  OBVIOUS
<1>1. PICK u \in Bad : \A t \in Bad : t \subseteq u => t = u
  <2>1. Bad \in SUBSET (SUBSET S)
    OBVIOUS
  <2> HIDE DEF Bad
  <2> QED BY <2>1, SmallestSet
<1>2. u \in SUBSET S /\ ~Good(u)
  OBVIOUS
<1>3. u # {}
  BY <1>2 DEF Sums
<1>4. First(u) \in u /\ Good(Rest(u)) /\ (k \in Rest(u) <=> k \in u /\ k # First(u))
  BY <1>1, <1>3, RestIsSmaller DEF Rest
<1>5. /\ g[u] = w[First(u)] + g[Rest(u)]
      /\ h[u] = v[First(u)] + h[Rest(u)]
  BY <1>2, <1>3 DEF Sums
<1>6. /\ w[First(u)] \in Int
      /\ v[First(u)] = IF First(u) = k THEN w[First(u)] + d ELSE w[First(u)]
  BY <1>2, <1>4
<1> QED BY <1>2, <1>4, <1>5, <1>6

LEMMA SumOfNothing ==
    ASSUME NEW S, IsFiniteSet(S), NEW g, Sums(g, [x \in S |-> 0], S)
    PROVE  \A u \in SUBSET S : g[u] = 0
<1> DEFINE Bad == {u \in SUBSET S : g[u] # 0}
<1> SUFFICES ASSUME Bad # {} PROVE FALSE
  OBVIOUS
<1>1. PICK u \in Bad : \A t \in Bad : t \subseteq u => t = u
  <2>1. Bad \in SUBSET (SUBSET S)
    OBVIOUS
  <2> HIDE DEF Bad
  <2> QED BY <2>1, SmallestSet
<1>2. u # {}
  BY DEF Sums
<1>3. First(u) \in S /\ Rest(u) \in SUBSET S /\ g[Rest(u)] = 0
  BY <1>1, <1>2, RestIsSmaller
<1> QED BY <1>2, <1>3 DEF Sums

(***************************************************************************)
(* How often nodes run again.                                              *)
(***************************************************************************)
RerunsOf(r) == MapThenSumSet(LAMBDA n : IF r[n] = 0 THEN 0 ELSE r[n] - 1, Nodes)

Again(r) == [n \in Nodes |-> IF r[n] = 0 THEN 0 ELSE r[n] - 1]

LEMMA RerunsAreASum ==
    ASSUME NEW r
    PROVE  \E g : Sums(g, Again(r), Nodes) /\ RerunsOf(r) = g[Nodes]
<1> DEFINE Body(f, s) == IF s = {} THEN 0
                         ELSE (IF r[First(s)] = 0 THEN 0 ELSE r[First(s)] - 1) + f[Rest(s)]
           iter == CHOOSE f : f = [s \in SUBSET Nodes |-> Body(f, s)]
<1>1. RerunsOf(r) = iter[Nodes]
  BY DEF RerunsOf, MapThenSumSet, MapThenFoldSet, First, Rest
<1>2. \A f : (f = [s \in SUBSET Nodes |-> Body(f, s)]) <=> Sums(f, Again(r), Nodes)
  <2>1. \A s \in SUBSET Nodes : s # {} =>
           Again(r)[First(s)] = IF r[First(s)] = 0 THEN 0 ELSE r[First(s)] - 1
    BY RestIsSmaller DEF Again
  <2>2. \A f : \A s \in SUBSET Nodes :
           Body(f, s) = IF s = {} THEN 0 ELSE Again(r)[First(s)] + f[Rest(s)]
    BY <2>1
  <2> HIDE DEF Body
  <2> QED BY <2>2 DEF Sums
<1>3. \E f : Sums(f, Again(r), Nodes)
  <2>1. IsFiniteSet(Nodes)
    BY SizeType, FS_Interval DEF Nodes
  <2> QED BY <2>1, SumsExist
<1>4. Sums(iter, Again(r), Nodes)
  <2> HIDE DEF Body
  <2> QED BY <1>2, <1>3
<1> HIDE DEF iter
<1> QED BY <1>1, <1>4

\* The first run of a node is no rerun; each further one is.
LEMMA RerunsGrow ==
    ASSUME NEW r \in [Nodes -> Nat], NEW k \in Nodes
    PROVE  /\ RerunsOf(r) \in Int
           /\ RerunsOf([r EXCEPT ![k] = @ + 1])
                 = IF r[k] = 0 THEN RerunsOf(r) ELSE RerunsOf(r) + 1
<1> DEFINE q == [r EXCEPT ![k] = @ + 1]
           d == IF r[k] = 0 THEN 0 ELSE 1
<1>1. PICK g : Sums(g, Again(r), Nodes) /\ RerunsOf(r) = g[Nodes]
  BY RerunsAreASum
<1>2. PICK h : Sums(h, Again(q), Nodes) /\ RerunsOf(q) = h[Nodes]
  BY RerunsAreASum
<1>3. \A n \in Nodes : /\ Again(r)[n] \in Int
                      /\ Again(q)[n] = IF n = k THEN Again(r)[n] + d ELSE Again(r)[n]
  <2>1. \A n \in Nodes : r[n] \in Nat /\ q[n] = IF n = k THEN r[n] + 1 ELSE r[n]
    OBVIOUS
  <2>2. \A n \in Nodes : /\ Again(r)[n] = IF r[n] = 0 THEN 0 ELSE r[n] - 1
                       /\ Again(q)[n] = IF q[n] = 0 THEN 0 ELSE q[n] - 1
    BY DEF Again
  <2> HIDE DEF q
  <2> QED BY <2>1, <2>2
<1>4. IsFiniteSet(Nodes) /\ d \in Int
  BY SizeType, FS_Interval DEF Nodes
<1>5. g[Nodes] \in Int /\ h[Nodes] = g[Nodes] + d
  <2> HIDE DEF d, q
  <2> QED BY <1>1, <1>2, <1>3, <1>4, SumGrows
<1> QED BY <1>1, <1>2, <1>5

LEMMA NoReruns ==
    RerunsOf([n \in Nodes |-> 0]) = 0
<1> DEFINE r == [n \in Nodes |-> 0]
<1>1. PICK g : Sums(g, Again(r), Nodes) /\ RerunsOf(r) = g[Nodes]
  BY RerunsAreASum
<1>2. Again(r) = [n \in Nodes |-> 0]
  BY DEF Again
<1>3. IsFiniteSet(Nodes)
  BY SizeType, FS_Interval DEF Nodes
<1> QED BY <1>1, <1>2, <1>3, SumOfNothing

\* Without control nodes every rerun has been counted before it happens, within the
\* limit; nodes that had no turn have not run.
RerunBooks ==
    (\A n \in Nodes : wf.kind[n] = "task") =>
        /\ control.maxRetries = MaxRetries
        /\ Reruns \in Int /\ Reruns <= MaxRetries
        /\ Reruns + (IF pc = "attempt" /\ attempt > 0 THEN 1 ELSE 0) <= control.retryCount
        /\ pc \in {"plan", "start", "resolve", "skipHook", "attempt"} => ~Exceeded(control)
        /\ \A n \in Nodes : n > current => runs[n] = 0
        /\ pc \in {"start", "resolve"} => runs[current] = 0
        /\ pc \in {"attempt", "caught"} => runs[current] = attempt

\* A step that runs no node.
LEMMA NothingRuns ==
    ASSUME RerunBooks, \A n \in Nodes : wf.kind[n] = "task", control.retryCount \in Nat,
           UNCHANGED <<wf, runs>>, current \in Int, current' \in Int, current' >= current,
           control'.maxRetries = MaxRetries,
           control'.retryCount \in Int, control'.retryCount >= control.retryCount,
           pc' \notin {"attempt", "caught"},
           pc' \in {"start", "resolve", "skipHook"} =>
               ~Exceeded(control'),
           pc' \in {"start", "resolve"} =>
               \/ current' = current /\ pc \in {"start", "resolve"}
               \/ current' \in Nodes /\ current' > current,
           pc' # "plan"
    PROVE  RerunBooks'
<1>1. Reruns' = Reruns
  BY DEF Reruns, MapThenSumSet, MapThenFoldSet
<1> QED BY <1>1, SizeType DEF RerunBooks, Exceeded, Nodes

LEMMA RerunStep ==
    ASSUME TypeInv, RerunBooks, [Next]_vars
    PROVE  RerunBooks'
<1> SUFFICES ASSUME \A n \in Nodes : wf'.kind[n] = "task"
             PROVE  RerunBooks'
  BY DEF RerunBooks
<1> DEFINE Goal == /\ control'.maxRetries = MaxRetries
                   /\ Reruns' \in Int /\ Reruns' <= MaxRetries
                   /\ Reruns' + (IF pc' = "attempt" /\ attempt' > 0 THEN 1 ELSE 0)
                         <= control'.retryCount
                   /\ pc' = "attempt" => ~Exceeded(control')
                   /\ pc' \in {"attempt", "caught", "record"}
                   /\ \A n \in Nodes : n > current' => runs'[n] = 0
                   /\ pc' \in {"attempt", "caught"} => runs'[current'] = attempt'
<1>q. Goal => RerunBooks'
  BY DEF RerunBooks, Exceeded
<1>w. UNCHANGED wf
  BY DEF Next, vars, Plan, Reject, StepStart, Refuse, SkipNode, SkipHook, Resolve, Succeed,
         AskRetry, AttemptThrows, RunControl, AttemptError, Record, SkipRest
<1>t. \A n \in Nodes : wf.kind[n] = "task"
  BY <1>w
<1>i. /\ Turn /\ current \in 0..NumNodes /\ NumNodes \in Nat /\ attempt \in Nat
      /\ control \in Control /\ runs \in [Nodes -> Nat] /\ MaxRetries \in Nat
      /\ pc \in Points
  BY TypeNames, SizeType, EngineAssumption DEF TypeInv, Types
<1>r. Reruns = RerunsOf(runs) /\ Reruns' = RerunsOf(runs')
  BY DEF Reruns, RerunsOf, MapThenSumSet, MapThenFoldSet
<1>b. /\ control.maxRetries = MaxRetries /\ control.retryCount \in Nat
      /\ Reruns \in Int /\ Reruns <= MaxRetries
      /\ Reruns + (IF pc = "attempt" /\ attempt > 0 THEN 1 ELSE 0) <= control.retryCount
      /\ pc \in {"plan", "start", "resolve", "skipHook", "attempt"} => ~Exceeded(control)
      /\ \A n \in Nodes : n > current => runs[n] = 0
      /\ pc \in {"start", "resolve"} => runs[current] = 0
      /\ pc \in {"attempt", "caught"} => runs[current] = attempt
  BY <1>i, <1>t DEF RerunBooks, Control
<1>f. \A c \in Control :
        /\ [c EXCEPT !.terminate = TRUE, !.retryCount = @ + 1].maxRetries = c.maxRetries
        /\ [c EXCEPT !.terminate = TRUE, !.retryCount = @ + 1].retryCount = c.retryCount + 1
        /\ [c EXCEPT !.terminate = TRUE].maxRetries = c.maxRetries
        /\ [c EXCEPT !.terminate = TRUE].retryCount = c.retryCount
        /\ \A b \in BOOLEAN : /\ Retried(c, b).maxRetries = c.maxRetries
                              /\ Retried(c, b).retryCount = c.retryCount + 1
  BY DEF Control, Retried
<1>g. /\ FailNode(control) =>
            control'.maxRetries = MaxRetries /\ control'.retryCount = control.retryCount + 1
      /\ FailNode(Retried(control, FALSE)) =>
            control'.maxRetries = MaxRetries /\ control'.retryCount = control.retryCount + 2
      /\ control' = [control EXCEPT !.terminate = TRUE] =>
            control'.maxRetries = MaxRetries /\ control'.retryCount = control.retryCount
  <2>1. /\ Retried(control, FALSE) \in Control
        /\ Retried(control, FALSE).maxRetries = MaxRetries
        /\ Retried(control, FALSE).retryCount = control.retryCount + 1
    BY <1>b, <1>f, <1>i, RetriedType
  <2>2. FailNode(control) =>
            control'.maxRetries = MaxRetries /\ control'.retryCount = control.retryCount + 1
    BY <1>b, <1>f, <1>i DEF FailNode
  <2>3. FailNode(Retried(control, FALSE)) =>
            control'.maxRetries = MaxRetries /\ control'.retryCount = control.retryCount + 2
    <3> DEFINE c == Retried(control, FALSE)
    <3> HIDE DEF c
    <3> SUFFICES ASSUME FailNode(c)
                 PROVE  control'.maxRetries = MaxRetries
                           /\ control'.retryCount = control.retryCount + 2
      BY DEF c
    <3>1. c \in Control /\ c.maxRetries = MaxRetries /\ c.retryCount = control.retryCount + 1
      BY <2>1 DEF c
    <3>2. control'.maxRetries = MaxRetries /\ control'.retryCount = c.retryCount + 1
      BY <1>f, <3>1 DEF FailNode
    <3> QED BY <1>b, <3>1, <3>2
  <2>4. control' = [control EXCEPT !.terminate = TRUE] =>
            control'.maxRetries = MaxRetries /\ control'.retryCount = control.retryCount
    BY <1>b, <1>f, <1>i
  <2> QED BY <2>2, <2>3, <2>4
<1>u. UNCHANGED runs => UNCHANGED Reruns
  BY <1>r
<1>a. Advance => /\ current' >= current /\ current' \in Int
                 /\ pc' = "start" => current' = current + 1 /\ current' \in Nodes
                 /\ pc' \in {"start", "done"}
  BY <1>i DEF Advance, Nodes
<1>e. Executed => /\ attempt' = attempt + 1 /\ Reruns' \in Int
                  /\ Reruns' <= control.retryCount /\ control.retryCount <= MaxRetries
                  /\ current \in Nodes /\ runs'[current] = attempt'
                  /\ \A n \in Nodes : n # current => runs'[n] = runs[n]
  <2> SUFFICES ASSUME Executed
               PROVE  /\ attempt' = attempt + 1 /\ Reruns' \in Int
                      /\ Reruns' <= control.retryCount /\ control.retryCount <= MaxRetries
                      /\ current \in Nodes /\ runs'[current] = attempt'
                      /\ \A n \in Nodes : n # current => runs'[n] = runs[n]
    OBVIOUS
  <2>1. /\ pc = "attempt" /\ attempt' = attempt + 1 /\ current \in Nodes
        /\ runs' = [runs EXCEPT ![current] = @ + 1]
    BY <1>i DEF Executed, Turn
  <2>2. Reruns' = IF runs[current] = 0 THEN Reruns ELSE Reruns + 1
    BY <1>i, <1>r, <2>1, RerunsGrow
  <2> QED BY <1>b, <1>i, <2>1, <2>2 DEF Exceeded
<1> USE <1>i, <1>b DEF Turn
<1>1. CASE Plan \/ Reject
  BY <1>1, <1>a, <1>g, <1>t, <1>w, NothingRuns DEF Plan, Reject
<1>2. CASE StepStart \/ Refuse
  <2>1. CASE StepStart
    BY <2>1, <1>g, <1>t, <1>w, NothingRuns DEF StepStart, Abort
  <2>2. CASE Refuse
    <3>1. FailNode(control) /\ pc' = "record" /\ UNCHANGED <<current, runs>>
      BY <2>2 DEF Refuse, FailNode
    <3> QED BY <3>1, <1>g, <1>t, <1>w, NothingRuns
  <2> QED BY <1>2, <2>1, <2>2
<1>3. CASE SkipNode
  BY <1>3, <1>t, <1>w, NothingRuns DEF SkipNode
<1>4. CASE SkipHook
  BY <1>4, <1>a, <1>g, <1>t, <1>w, NothingRuns DEF SkipHook, FailNode
<1>5. CASE Resolve
  <2>1. Goal
    BY <1>5, <1>u DEF Resolve
  <2> QED BY <1>q, <2>1
<1>6. CASE Succeed \/ AttemptThrows
  <2>1. Goal
    BY <1>6, <1>e DEF Succeed, AttemptThrows
  <2> QED BY <1>q, <2>1
<1>7. CASE AskRetry
  <2>1. Policy.countLoop \in BOOLEAN
    BY <1>7, PolicyType DEF AskRetry, Executed, Policies
  <2>2. control'.maxRetries = MaxRetries /\ control'.retryCount = control.retryCount + 1
    BY <1>7, <1>f, <2>1 DEF AskRetry
  <2>3. Goal
    BY <1>7, <1>e, <2>2 DEF AskRetry
  <2> QED BY <1>q, <2>3
<1>8. CASE RunControl
  BY <1>8, <1>t DEF RunControl, Executed
<1>9. CASE AttemptError
  <2>1. Retried(control, FALSE) \in Control
    BY RetriedType
  <2>2. /\ control'.maxRetries = MaxRetries /\ control'.retryCount \in Int
        /\ control'.retryCount >= control.retryCount
        /\ pc' = "attempt" =>
              control'.retryCount = control.retryCount + 1 /\ ~Exceeded(control')
        /\ pc' \in {"attempt", "record"}
    <3>1. CASE FailNode(control) \/ FailNode(Retried(control, FALSE))
      BY <3>1, <1>g DEF FailNode
    <3>2. CASE control' = Retried(control, FALSE) /\ ~Exceeded(control') /\ pc' = "attempt"
      <4>1. /\ Retried(control, FALSE).maxRetries = MaxRetries
            /\ Retried(control, FALSE).retryCount = control.retryCount + 1
        BY <1>b, <1>f, <1>i
      <4> DEFINE c == Retried(control, FALSE)
      <4>2. c.maxRetries = MaxRetries /\ c.retryCount = control.retryCount + 1 /\ control' = c
        BY <3>2, <4>1
      <4> HIDE DEF c
      <4>3. ~Exceeded(control') /\ pc' = "attempt"
        BY <3>2
      <4> QED BY <4>2, <4>3
    <3> QED BY <1>9, <3>1, <3>2 DEF AttemptError
  <2>3. Goal
    BY <1>9, <1>u, <2>2 DEF AttemptError
  <2> QED BY <1>q, <2>3
<1>10. CASE Record
  <2>1. CASE Advance /\ ~Exceeded(control) /\ UNCHANGED control
    BY <1>10, <2>1, <1>a, <1>t, <1>w, NothingRuns DEF Record
  <2>2. CASE UNCHANGED current /\ pc' \in {"skipRest", "done"}
    <3>1. UNCHANGED control \/ control' = [control EXCEPT !.terminate = TRUE]
      BY <1>10 DEF Record, Abort
    <3> QED BY <1>10, <2>2, <3>1, <1>g, <1>t, <1>w, NothingRuns DEF Record
  <2> QED BY <1>10, <2>1, <2>2 DEF Record, Abort
<1>11. CASE SkipRest
  BY <1>11, <1>g, <1>t, <1>w, NothingRuns DEF SkipRest, Abort
<1>12. CASE UNCHANGED vars
  BY <1>12, <1>u DEF vars, RerunBooks, Exceeded
<1> QED BY <1>1, <1>2, <1>3, <1>4, <1>5, <1>6, <1>7, <1>8, <1>9, <1>10, <1>11, <1>12 DEF Next

LEMMA RerunInit ==
    ASSUME Init
    PROVE  RerunBooks
<1>1. Reruns = 0
  <2>1. Reruns = RerunsOf(runs)
    BY DEF Reruns, RerunsOf, MapThenSumSet, MapThenFoldSet
  <2> QED BY <2>1, NoReruns DEF Init
<1> QED BY <1>1, EngineAssumption DEF Init, RerunBooks, Exceeded

\* Without control nodes that move the counters, all nodes together are executed again
\* at most maxRetries times, for every workflow and every policy of its nodes.
THEOREM RerunsWithinLimitHolds == Spec => []RerunsWithinLimit
<1> DEFINE Inv == TypeInv /\ RerunBooks
<1>1. Init => Inv
  BY TypeInit, RerunInit
<1>2. Inv /\ [Next]_vars => Inv'
  BY TypeStep, RerunStep
<1>3. Inv => RerunsWithinLimit
  BY DEF RerunBooks, RerunsWithinLimit
<1> QED BY <1>1, <1>2, <1>3, PTL DEF Spec

(***************************************************************************)
(* The order that the walk takes for granted.  validateDAG answers before  *)
(* the first node has its turn; nothing here depends on the engine.        *)
(***************************************************************************)
Elements(s) == {s[i] : i \in DOMAIN s}
NoneTwice(s) == \A i, j \in DOMAIN s : s[i] = s[j] => i = j

\* The edges read so far that count, the ones whose source has been taken, and with them
\* what is left of the edges that lead to a node.
ReadSoFar == IF phase = "edges" THEN 1..(next - 1) ELSE DOMAIN edges
Counted == {i \in ReadSoFar : Known(edges[i])}
TakenAway(i) == edges[i].source \in Elements(executionOrder) /\ i \notin Elements(neighbors)
Left(n) == {i \in Counted : edges[i].target = n /\ ~TakenAway(i)}

DagTypes ==
    /\ edges \in Seq(Edge)
    /\ phase \in {"edges", "seed", "sort", "done"}
    /\ next \in Nat \ {0}
    /\ adjacency \in [NodeIds -> Seq(Nat)]
    /\ inDegree \in [NodeIds -> Int]
    /\ errors \in BOOLEAN
    /\ queue \in Seq(NodeIds)
    /\ executionOrder \in Seq(NodeIds)
    /\ neighbors \in Seq(Nat)
    /\ valid \in BOOLEAN

\* The edges are refused if one of them is, and listed once at their source.
Listed ==
    /\ phase = "edges" => next <= Len(edges) + 1
    /\ errors <=> \E i \in ReadSoFar : ~Known(edges[i])
    /\ \A n \in NodeIds :
          /\ Elements(adjacency[n]) = {i \in Counted : edges[i].source = n}
          /\ NoneTwice(adjacency[n])

\* inDegree counts the edges left, also in the middle of a node's list.
Degrees == \A n \in NodeIds : inDegree[n] = Cardinality(Left(n))

\* The nodes without edges left are those in the queue and in the order, once.
Free ==
    /\ NoneTwice(queue) /\ NoneTwice(executionOrder)
    /\ Elements(queue) \cap Elements(executionOrder) = {}
    /\ phase = "edges" => queue = <<>>
    /\ phase = "seed" =>
          Elements(queue) =
              {n \in NodeIds : /\ inDegree[n] = 0
                                 /\ \E j \in DOMAIN NodeList : j < next /\ NodeList[j] = n}
    /\ phase = "sort" =>
          Elements(queue) \cup Elements(executionOrder) = {n \in NodeIds : inDegree[n] = 0}

\* What is still to be taken away of the node that came last.
Pending ==
    /\ phase # "sort" => executionOrder = <<>>
    /\ NoneTwice(neighbors)
    /\ \A i \in Elements(neighbors) :
          i \in Counted /\ edges[i].source \in Elements(executionOrder)

\* A node comes after all nodes with an edge to it.
Sorted(order) ==
    \A i \in Counted : \A k \in DOMAIN order :
        edges[i].target = order[k] => \E j \in DOMAIN order : j < k /\ order[j] = edges[i].source

\* Until the answer is given.
Sorting == Listed /\ Degrees /\ Free /\ Pending /\ Sorted(executionOrder) /\ ~valid

DagInv ==
    /\ DagTypes
    /\ phase # "sort" => neighbors = <<>>
    /\ phase # "done" => Sorting
    /\ phase \in {"seed", "sort"} => ~errors
    /\ phase = "done" => (valid <=> Acyclic) /\ OrderLeadsForward
-----------------------------------------------------------------------------
\* What the operations on sequences do to the elements.
LEMMA AppendElements ==
    ASSUME NEW S, NEW s \in Seq(S), NEW x \in S
    PROVE  /\ Append(s, x) \in Seq(S)
           /\ Elements(Append(s, x)) = Elements(s) \cup {x}
           /\ NoneTwice(s) /\ x \notin Elements(s) => NoneTwice(Append(s, x))
<1>1. /\ Append(s, x) \in Seq(S) /\ DOMAIN s = 1..Len(s) /\ Len(s) \in Nat
      /\ DOMAIN Append(s, x) = 1..(Len(s) + 1)
      /\ \A i \in 1..Len(s) : Append(s, x)[i] = s[i]
      /\ Append(s, x)[Len(s) + 1] = x
  OBVIOUS
<1>2. 1..(Len(s) + 1) = 1..Len(s) \cup {Len(s) + 1}
  BY <1>1
<1> QED BY <1>1, <1>2 DEF Elements, NoneTwice

LEMMA TailElements ==
    ASSUME NEW S, NEW s \in Seq(S), s # <<>>
    PROVE  /\ Head(s) \in S /\ Head(s) = s[1] /\ Tail(s) \in Seq(S) /\ Head(s) \in Elements(s)
           /\ Elements(s) = Elements(Tail(s)) \cup {Head(s)}
           /\ NoneTwice(s) => NoneTwice(Tail(s)) /\ Head(s) \notin Elements(Tail(s))
<1>1. /\ DOMAIN s = 1..Len(s) /\ Len(s) \in Nat \ {0} /\ Head(s) = s[1] /\ s[1] \in S
      /\ Tail(s) \in Seq(S) /\ DOMAIN Tail(s) = 1..(Len(s) - 1)
      /\ \A i \in 1..(Len(s) - 1) : Tail(s)[i] = s[i + 1]
  OBVIOUS
<1>2. \A i \in 1..Len(s) : i = 1 \/ (i - 1 \in 1..(Len(s) - 1) /\ i = (i - 1) + 1)
  BY <1>1
<1>3. \A i \in 1..(Len(s) - 1) : i + 1 \in 1..Len(s) /\ i + 1 # 1
  BY <1>1
<1>4. Elements(s) = Elements(Tail(s)) \cup {Head(s)}
  <2>1. ASSUME NEW i \in 1..Len(s) PROVE s[i] \in Elements(Tail(s)) \cup {Head(s)}
    <3>1. CASE i # 1
      <4>1. i - 1 \in 1..(Len(s) - 1) /\ Tail(s)[i - 1] = s[i]
        BY <1>1, <1>2, <3>1
      <4> QED BY <1>1, <4>1 DEF Elements
    <3> QED BY <1>1, <3>1
  <2>2. \A i \in 1..(Len(s) - 1) : Tail(s)[i] \in Elements(s)
    BY <1>1, <1>3 DEF Elements
  <2>3. Head(s) \in Elements(s)
    BY <1>1 DEF Elements
  <2> QED BY <1>1, <2>1, <2>2, <2>3 DEF Elements
<1>5. ASSUME NoneTwice(s) PROVE NoneTwice(Tail(s)) /\ Head(s) \notin Elements(Tail(s))
  <2>1. ASSUME NEW i \in 1..(Len(s) - 1), NEW j \in 1..(Len(s) - 1), Tail(s)[i] = Tail(s)[j]
        PROVE  i = j
    <3>1. s[i + 1] = s[j + 1]
      BY <1>1, <2>1
    <3>2. i + 1 = j + 1
      BY <1>1, <1>3, <1>5, <3>1 DEF NoneTwice
    <3> QED BY <3>2
  <2>2. ASSUME NEW i \in 1..(Len(s) - 1) PROVE Tail(s)[i] # s[1]
    <3>1. s[i + 1] = s[1] => i + 1 = 1
      BY <1>1, <1>3, <1>5 DEF NoneTwice
    <3> QED BY <1>1, <1>3, <3>1
  <2> QED BY <1>1, <2>1, <2>2 DEF NoneTwice, Elements
<1> QED BY <1>1, <1>4, <1>5

LEMMA EmptyElements == Elements(<<>>) = {} /\ NoneTwice(<<>>) /\ \A S : <<>> \in Seq(S)
  BY DEF Elements, NoneTwice

LEMMA UpTo ==
    ASSUME NEW n \in Nat
    PROVE  IsFiniteSet(1..n) /\ Cardinality(1..n) = n
<1>1. IsFiniteSet(1..n) /\ Cardinality(1..n) = IF 1 > n THEN 0 ELSE n - 1 + 1
  BY FS_Interval
<1> QED BY <1>1

\* A sequence without repetition is as long as it has elements.
LEMMA CountElements ==
    ASSUME NEW S, NEW s \in Seq(S), NoneTwice(s)
    PROVE  IsFiniteSet(Elements(s)) /\ Cardinality(Elements(s)) = Len(s)
<1>1. Len(s) \in Nat /\ DOMAIN s = 1..Len(s) /\ s = [i \in 1..Len(s) |-> s[i]]
  OBVIOUS
<1>2. s \in Bijection(1..Len(s), Elements(s))
  <2>1. s \in [1..Len(s) -> Elements(s)]
    BY <1>1 DEF Elements
  <2>2. /\ \A i, j \in 1..Len(s) : s[i] = s[j] => i = j
        /\ \A x \in Elements(s) : \E i \in 1..Len(s) : s[i] = x
    BY <1>1 DEF NoneTwice, Elements
  <2> QED BY <2>1, <2>2 DEF Bijection, Injection, IsInjective, Surjection
<1>3. ExistsBijection(1..Len(s), Elements(s))
  BY <1>2 DEF ExistsBijection
<1>4. IsFiniteSet(1..Len(s)) /\ Cardinality(1..Len(s)) = Len(s)
  BY <1>1, UpTo
<1> QED BY <1>3, <1>4, FS_Bijection

LEMMA NodesFinite ==
    /\ IsFiniteSet(NodeIds) /\ Cardinality(NodeIds) = Len(NodeList)
    /\ Elements(NodeList) = NodeIds
<1>1. NodeList \in Seq(NodeIds) /\ NoneTwice(NodeList) /\ Elements(NodeList) = NodeIds
  BY GraphAssumption DEF NoneTwice, Elements, NodeIds
<1> QED BY <1>1, CountElements

LEMMA LeftFinite ==
    ASSUME DagTypes, Listed, NEW n
    PROVE  Left(n) \subseteq Nat /\ IsFiniteSet(Left(n)) /\ ReadSoFar \subseteq DOMAIN edges
<1>1. Len(edges) \in Nat /\ DOMAIN edges = 1..Len(edges) /\ ReadSoFar \subseteq 1..Len(edges)
  BY DEF DagTypes, Listed, ReadSoFar
<1>2. Left(n) \in SUBSET (1..Len(edges))
  BY <1>1 DEF Left, Counted
<1>3. IsFiniteSet(1..Len(edges))
  BY <1>1, FS_Interval
<1>4. IsFiniteSet(Left(n))
  BY <1>2, <1>3, FS_Subset
<1> QED BY <1>1, <1>2, <1>4

LEMMA KnownEnds ==
    ASSUME DagTypes, NEW i \in DOMAIN edges, Known(edges[i])
    PROVE  /\ edges[i].source \in NodeIds /\ edges[i].target \in NodeIds
           /\ edges[i].source # edges[i].target
  BY DEF Known

LEMMA DagBegin ==
    ASSUME DagInit
    PROVE  DagInv
<1>1. /\ phase = "edges" /\ next = 1 /\ queue = <<>> /\ executionOrder = <<>> /\ neighbors = <<>>
      /\ errors = FALSE /\ valid = FALSE
      /\ adjacency = [n \in NodeIds |-> <<>>] /\ inDegree = [n \in NodeIds |-> 0]
  BY DEF DagInit
<1>2. edges \in Seq(Edge)
  <2>1. PICK k \in 0..MaxEdges : edges \in [1..k -> Edge]
    BY DEF DagInit
  <2>2. k \in Nat
    BY GraphAssumption
  <2> QED BY <2>1, <2>2
<1>3. DagTypes
  <2>1. <<>> \in Seq(NodeIds) /\ <<>> \in Seq(Nat)
    OBVIOUS
  <2>2. adjacency \in [NodeIds -> Seq(Nat)]
    BY <1>1, <2>1
  <2>3. inDegree \in [NodeIds -> Int]
    BY <1>1
  <2>4. queue \in Seq(NodeIds) /\ executionOrder \in Seq(NodeIds) /\ neighbors \in Seq(Nat)
    BY <1>1, <2>1
  <2>5. phase \in {"edges", "seed", "sort", "done"} /\ next \in Nat \ {0}
    BY <1>1
  <2>6. errors \in BOOLEAN /\ valid \in BOOLEAN
    BY Zenon DEF DagInit
  <2> QED BY <1>2, <2>2, <2>3, <2>4, <2>5, <2>6 DEF DagTypes
<1>4. ReadSoFar = {} /\ Counted = {}
  BY <1>1 DEF ReadSoFar, Counted
<1>5. Listed
  BY <1>1, <1>2, <1>4, EmptyElements DEF Listed
<1>6. Degrees
  <2>1. \A n : Left(n) = {}
    BY <1>4 DEF Left
  <2> QED BY <1>1, <2>1, FS_EmptySet DEF Degrees
<1>7. Free /\ Pending /\ Sorted(executionOrder)
  BY <1>1, <1>4, EmptyElements DEF Free, Pending, Sorted
<1> QED BY <1>1, <1>3, <1>5, <1>6, <1>7 DEF DagInv, Sorting

LEMMA ReadEdgeStep ==
    ASSUME DagInv, ReadEdge
    PROVE  DagInv'
<1> DEFINE e == edges[next]
<1>1. /\ phase = "edges" /\ next <= Len(edges) /\ next' = next + 1
      /\ UNCHANGED <<edges, phase, queue, executionOrder, neighbors, valid>>
  BY DEF ReadEdge
<1>2. DagTypes /\ Listed /\ Degrees /\ Free /\ Pending /\ ~valid
  BY <1>1 DEF DagInv, Sorting
<1>3. /\ next \in DOMAIN edges /\ e \in Edge /\ next \in Nat
      /\ DOMAIN edges = 1..Len(edges) /\ Len(edges) \in Nat
  BY <1>1, <1>2 DEF DagTypes
<1>4. ReadSoFar' = ReadSoFar \cup {next} /\ next \notin ReadSoFar
  BY <1>1, <1>3 DEF ReadSoFar
<1>5. /\ executionOrder = <<>> /\ queue = <<>> /\ neighbors = <<>>
      /\ \A i : ~TakenAway(i) /\ ~TakenAway(i)'
  <2>1. neighbors = <<>>
    BY <1>1 DEF DagInv
  <2>2. executionOrder = <<>> /\ queue = <<>>
    BY <1>1, <1>2 DEF Free, Pending
  <2>4. \A i : ~TakenAway(i)
    BY <2>2, EmptyElements DEF TakenAway
  <2>5. \A i : TakenAway(i)' = TakenAway(i)
    BY <1>1 DEF TakenAway
  <2> QED BY <2>1, <2>2, <2>4, <2>5
<1>6. Free' /\ Pending'
  BY <1>1, <1>2, <1>5, EmptyElements DEF Free, Pending
<1>7. Sorted(executionOrder)'
  BY <1>1, <1>5 DEF Sorted
<1>8. CASE Known(e)
  <2>1. /\ adjacency' = [adjacency EXCEPT ![e.source] = Append(@, next)]
        /\ inDegree' = [inDegree EXCEPT ![e.target] = @ + 1]
        /\ errors' = errors
    BY <1>8 DEF ReadEdge
  <2>2. e.source \in NodeIds /\ e.target \in NodeIds
    BY <1>8 DEF Known
  <2>3. Counted' = Counted \cup {next} /\ next \notin Counted
    BY <1>1, <1>4, <1>8 DEF Counted
  <2>4. DagTypes'
    <3>1. Append(adjacency[e.source], next) \in Seq(Nat)
      BY <1>2, <1>3, <2>2, AppendElements DEF DagTypes
    <3>2. adjacency' \in [NodeIds -> Seq(Nat)]
      BY <1>2, <2>1, <2>2, <3>1 DEF DagTypes
    <3>3. inDegree' \in [NodeIds -> Int]
      BY <1>2, <2>1, <2>2 DEF DagTypes
    <3> QED BY <1>1, <1>2, <1>3, <2>1, <3>2, <3>3 DEF DagTypes
  <2>5. ASSUME NEW n \in NodeIds
        PROVE  /\ Elements(adjacency'[n]) = {i \in Counted' : edges[i].source = n}
               /\ NoneTwice(adjacency'[n])
    <3>1. Elements(adjacency[n]) = {i \in Counted : edges[i].source = n} /\ NoneTwice(adjacency[n])
      BY <1>2 DEF Listed
    <3>2. CASE n = e.source
      <4>1. adjacency'[n] = Append(adjacency[n], next) /\ adjacency[n] \in Seq(Nat)
        BY <1>2, <2>1, <3>2 DEF DagTypes
      <4>2. next \notin Elements(adjacency[n])
        BY <2>3, <3>1
      <4>3. /\ Elements(adjacency'[n]) = Elements(adjacency[n]) \cup {next}
            /\ NoneTwice(adjacency'[n])
        BY <1>3, <3>1, <4>1, <4>2, AppendElements
      <4> QED BY <2>3, <3>1, <3>2, <4>3
    <3>3. CASE n # e.source
      <4>1. adjacency'[n] = adjacency[n]
        BY <1>2, <2>1, <3>3 DEF DagTypes
      <4> QED BY <2>3, <3>1, <3>3, <4>1
    <3> QED BY <3>2, <3>3
  <2>6. Listed'
    <3>1. errors' <=> \E i \in ReadSoFar' : ~Known(edges[i])
      BY <1>2, <1>4, <1>8, <2>1 DEF Listed
    <3> QED BY <1>1, <1>3, <2>5, <3>1 DEF Listed
  <2>7. ASSUME NEW n \in NodeIds PROVE inDegree'[n] = Cardinality(Left(n)')
    <3>1. Left(n)' = IF n = e.target THEN Left(n) \cup {next} ELSE Left(n)
      BY <1>1, <1>5, <2>3 DEF Left
    <3>2. IsFiniteSet(Left(n)) /\ inDegree[n] = Cardinality(Left(n)) /\ next \notin Left(n)
      BY <1>2, <2>3, LeftFinite DEF Degrees, Left
    <3>3. Cardinality(Left(n) \cup {next}) = Cardinality(Left(n)) + 1
      BY <3>2, FS_AddElement
    <3>4. inDegree'[n] = IF n = e.target THEN inDegree[n] + 1 ELSE inDegree[n]
      BY <1>2, <2>1 DEF DagTypes
    <3> QED BY <3>1, <3>2, <3>3, <3>4
  <2>8. Degrees'
    BY <2>7 DEF Degrees
  <2> QED BY <1>1, <1>2, <1>6, <1>7, <2>4, <2>6, <2>8 DEF DagInv, Sorting
<1>9. CASE ~Known(e)
  <2>1. UNCHANGED <<adjacency, inDegree>> /\ errors' = TRUE
    BY <1>9 DEF ReadEdge
  <2>2. Counted' = Counted
    BY <1>1, <1>4, <1>9 DEF Counted
  <2>3. Listed'
    BY <1>1, <1>2, <1>3, <1>4, <1>9, <2>1, <2>2 DEF Listed
  <2>4. Degrees'
    <3>1. \A n \in NodeIds : Left(n)' = Left(n)
      BY <1>1, <1>5, <2>2 DEF Left
    <3> QED BY <1>2, <2>1, <3>1 DEF Degrees
  <2>5. DagTypes'
    BY <1>1, <1>2, <2>1 DEF DagTypes
  <2> QED BY <1>1, <1>2, <1>6, <1>7, <2>3, <2>4, <2>5 DEF DagInv, Sorting
<1> QED BY <1>8, <1>9

\* With the last edge read, the sets above are those of all edges.
LEMMA SameEdges ==
    ASSUME UNCHANGED <<edges, adjacency, executionOrder, neighbors>>, ReadSoFar' = ReadSoFar
    PROVE  Counted' = Counted /\ \A n : Left(n)' = Left(n)
<1>1. Counted' = Counted
  BY DEF Counted
<1>2. \A i : TakenAway(i)' <=> TakenAway(i)
  BY DEF TakenAway
<1> QED BY <1>1, <1>2 DEF Left

LEMMA CheckEdgesStep ==
    ASSUME DagInv, CheckEdges
    PROVE  DagInv'
<1>1. /\ phase = "edges" /\ next > Len(edges) /\ next' = 1
      /\ phase' = IF errors THEN "done" ELSE "seed"
      /\ UNCHANGED <<edges, adjacency, inDegree, errors, queue, executionOrder, neighbors, valid>>
  BY DEF CheckEdges
<1>2. DagTypes /\ Listed /\ Degrees /\ Free /\ Pending /\ Sorted(executionOrder) /\ ~valid
  BY <1>1 DEF DagInv, Sorting
<1>3. DagTypes'
  BY <1>1, <1>2 DEF DagTypes
<1>4. ReadSoFar = DOMAIN edges /\ ReadSoFar' = DOMAIN edges
  BY <1>1, <1>2 DEF ReadSoFar, Listed, DagTypes
<1>5. CASE errors
  <2>1. ~Acyclic'
    BY <1>1, <1>2, <1>4, <1>5 DEF Listed, Acyclic
  <2>2. OrderLeadsForward'
    BY <1>1, <1>2 DEF OrderLeadsForward
  <2> QED BY <1>1, <1>2, <1>3, <1>5, <2>1, <2>2 DEF DagInv
<1>6. CASE ~errors
  <2>1. Counted' = Counted /\ \A n : Left(n)' = Left(n)
    BY <1>1, <1>4, SameEdges
  <2>2. Listed' /\ Degrees' /\ Sorted(executionOrder)'
    BY <1>1, <1>2, <1>4, <1>6, <2>1 DEF Listed, Degrees, Sorted
  <2>3. Pending'
    BY <1>1, <1>2, <2>1, EmptyElements DEF Pending
  <2>4. Free'
    <3>1. \A j \in DOMAIN NodeList : ~(j < 1)
      BY GraphAssumption
    <3> QED BY <1>1, <1>2, <1>6, <3>1, EmptyElements DEF Free
  <2> QED BY <1>1, <1>2, <1>3, <1>6, <2>2, <2>3, <2>4 DEF DagInv, Sorting
<1> QED BY <1>5, <1>6

LEMMA SeedStep ==
    ASSUME DagInv, Seed
    PROVE  DagInv'
<1> DEFINE n == NodeList[next]
<1>1. /\ phase = "seed" /\ next <= Len(NodeList) /\ next' = next + 1
      /\ queue' = IF inDegree[n] = 0 THEN Append(queue, n) ELSE queue
      /\ UNCHANGED <<edges, phase, adjacency, inDegree, errors, executionOrder, neighbors, valid>>
  BY DEF Seed
<1>2. /\ DagTypes /\ Listed /\ Degrees /\ Free /\ Pending /\ Sorted(executionOrder) /\ ~valid
      /\ ~errors
  BY <1>1 DEF DagInv, Sorting
<1>3. /\ next \in DOMAIN NodeList /\ n \in NodeIds /\ next \in Nat
      /\ DOMAIN NodeList \subseteq Nat
      /\ \A j \in DOMAIN NodeList : NodeList[j] = n => j = next
  BY <1>1, <1>2, GraphAssumption DEF DagTypes
<1>4. executionOrder = <<>> /\ Elements(executionOrder) = {}
  BY <1>1, <1>2, EmptyElements DEF Pending
<1>5. Elements(queue) = {x \in NodeIds : inDegree[x] = 0
                                          /\ \E j \in DOMAIN NodeList : j < next /\ NodeList[j] = x}
  BY <1>1, <1>2 DEF Free
<1>6. n \notin Elements(queue)
  BY <1>3, <1>5
<1>7. /\ queue' \in Seq(NodeIds) /\ NoneTwice(queue')
      /\ Elements(queue') = IF inDegree[n] = 0 THEN Elements(queue) \cup {n} ELSE Elements(queue)
  <2>1. queue \in Seq(NodeIds) /\ NoneTwice(queue)
    BY <1>2 DEF DagTypes, Free
  <2>2. CASE inDegree[n] = 0
    BY <1>1, <1>3, <1>6, <2>1, <2>2, AppendElements
  <2>3. CASE inDegree[n] # 0
    <3>1. queue' = queue
      BY <1>1, <2>3
    <3> QED BY <2>1, <2>3, <3>1
  <2> QED BY <2>2, <2>3
<1>8. \A x : (\E j \in DOMAIN NodeList : j < next + 1 /\ NodeList[j] = x)
                <=> x = n \/ \E j \in DOMAIN NodeList : j < next /\ NodeList[j] = x
  BY <1>3
<1>9. Free'
  <2>1. Elements(queue') = {x \in NodeIds : inDegree[x] = 0
                               /\ \E j \in DOMAIN NodeList : j < next + 1 /\ NodeList[j] = x}
    BY <1>3, <1>5, <1>7, <1>8
  <2> QED BY <1>1, <1>2, <1>4, <1>7, <2>1 DEF Free
<1>10. DagTypes'
  BY <1>1, <1>2, <1>7 DEF DagTypes
<1>11. ReadSoFar' = ReadSoFar /\ Counted' = Counted /\ \A x : Left(x)' = Left(x)
  <2>1. ReadSoFar' = ReadSoFar
    BY <1>1 DEF ReadSoFar
  <2> QED BY <1>1, <2>1, SameEdges
<1>12. Listed' /\ Degrees' /\ Sorted(executionOrder)' /\ Pending'
  BY <1>1, <1>2, <1>11 DEF Listed, Degrees, Sorted, Pending
<1> QED BY <1>1, <1>2, <1>9, <1>10, <1>12 DEF DagInv, Sorting

LEMMA SortStep ==
    ASSUME DagInv, Sort
    PROVE  DagInv'
<1>1. /\ phase = "seed" /\ next > Len(NodeList) /\ phase' = "sort"
      /\ UNCHANGED <<edges, next, adjacency, inDegree, errors, queue, executionOrder, neighbors,
                     valid>>
  BY DEF Sort
<1>2. /\ DagTypes /\ Listed /\ Degrees /\ Free /\ Pending /\ Sorted(executionOrder) /\ ~valid
      /\ ~errors
  BY <1>1 DEF DagInv, Sorting
<1>3. Elements(executionOrder) = {}
  BY <1>1, <1>2, EmptyElements DEF Pending
<1>4. \A x \in NodeIds : \E j \in DOMAIN NodeList : j < next /\ NodeList[j] = x
  <2>1. DOMAIN NodeList = 1..Len(NodeList) /\ Len(NodeList) \in Nat /\ next \in Nat
    BY <1>2, GraphAssumption DEF DagTypes
  <2> QED BY <1>1, <2>1 DEF NodeIds
<1>5. Free'
  BY <1>1, <1>2, <1>3, <1>4 DEF Free
<1>6. ReadSoFar' = ReadSoFar /\ Counted' = Counted /\ \A x : Left(x)' = Left(x)
  <2>1. ReadSoFar' = ReadSoFar
    BY <1>1 DEF ReadSoFar
  <2> QED BY <1>1, <2>1, SameEdges
<1>7. Listed' /\ Degrees' /\ Sorted(executionOrder)' /\ Pending' /\ DagTypes'
  BY <1>1, <1>2, <1>6 DEF Listed, Degrees, Sorted, Pending, DagTypes
<1> QED BY <1>1, <1>2, <1>5, <1>7 DEF DagInv, Sorting

LEMMA ShiftStep ==
    ASSUME DagInv, Shift
    PROVE  DagInv'
<1> DEFINE n == Head(queue)
<1>1. /\ phase = "sort" /\ neighbors = <<>> /\ queue # <<>>
      /\ executionOrder' = Append(executionOrder, n) /\ queue' = Tail(queue)
      /\ neighbors' = adjacency[n]
      /\ UNCHANGED <<edges, phase, next, adjacency, inDegree, errors, valid>>
  BY DEF Shift
<1>2. /\ DagTypes /\ Listed /\ Degrees /\ Free /\ Pending /\ Sorted(executionOrder) /\ ~valid
      /\ ~errors
  BY <1>1 DEF DagInv, Sorting
<1>3. queue \in Seq(NodeIds) /\ executionOrder \in Seq(NodeIds)
  BY <1>2 DEF DagTypes
<1>4. /\ n \in NodeIds /\ queue' \in Seq(NodeIds) /\ n \in Elements(queue)
      /\ Elements(queue) = Elements(queue') \cup {n}
      /\ NoneTwice(queue') /\ n \notin Elements(queue')
  BY <1>1, <1>2, <1>3, TailElements DEF Free
<1>5. n \notin Elements(executionOrder) /\ inDegree[n] = 0
  BY <1>1, <1>2, <1>4 DEF Free
<1>6. /\ executionOrder' \in Seq(NodeIds) /\ NoneTwice(executionOrder')
      /\ Elements(executionOrder') = Elements(executionOrder) \cup {n}
  BY <1>1, <1>2, <1>3, <1>4, <1>5, AppendElements DEF Free
<1>7. Free'
  BY <1>1, <1>2, <1>4, <1>5, <1>6 DEF Free
<1>8. ReadSoFar' = ReadSoFar /\ Counted' = Counted
  BY <1>1 DEF ReadSoFar, Counted
<1>9. Elements(neighbors') = {i \in Counted : edges[i].source = n} /\ NoneTwice(neighbors')
  BY <1>1, <1>2, <1>4 DEF Listed
<1>10. Pending'
  BY <1>1, <1>6, <1>8, <1>9 DEF Pending
<1>11. \A i \in Counted : TakenAway(i)' <=> TakenAway(i)
  BY <1>1, <1>5, <1>6, <1>9, EmptyElements DEF TakenAway
<1>12. \A x : Left(x)' = Left(x)
  BY <1>1, <1>8, <1>11 DEF Left
<1>13. Listed' /\ Degrees'
  BY <1>1, <1>2, <1>8, <1>12 DEF Listed, Degrees
<1>14. DagTypes'
  <2>1. neighbors' \in Seq(Nat)
    BY <1>1, <1>2, <1>4 DEF DagTypes
  <2> QED BY <1>1, <1>2, <1>4, <1>6, <2>1 DEF DagTypes
<1>15. Sorted(executionOrder)'
  <2>1. ASSUME NEW i \in Counted, edges[i].target = n
        PROVE  edges[i].source \in Elements(executionOrder)
    <3>1. Left(n) = {}
      BY <1>2, <1>4, <1>5, LeftFinite, FS_EmptySet DEF Degrees
    <3> QED BY <2>1, <3>1 DEF Left, TakenAway
  <2>2. /\ DOMAIN executionOrder' = 1..(Len(executionOrder) + 1)
        /\ DOMAIN executionOrder = 1..Len(executionOrder) /\ Len(executionOrder) \in Nat
        /\ \A k \in DOMAIN executionOrder : executionOrder'[k] = executionOrder[k]
        /\ executionOrder'[Len(executionOrder) + 1] = n
    BY <1>1, <1>3
  <2>3. ASSUME NEW i \in Counted, NEW k \in DOMAIN executionOrder',
               edges[i].target = executionOrder'[k]
        PROVE  \E j \in DOMAIN executionOrder' : j < k /\ executionOrder'[j] = edges[i].source
    <3>1. CASE k \in DOMAIN executionOrder
      <4>1. PICK j \in DOMAIN executionOrder : j < k /\ executionOrder[j] = edges[i].source
        BY <1>2, <2>2, <2>3, <3>1 DEF Sorted
      <4> QED BY <2>2, <4>1
    <3>2. CASE k = Len(executionOrder) + 1
      <4>1. PICK j \in DOMAIN executionOrder : executionOrder[j] = edges[i].source
        BY <2>1, <2>2, <2>3, <3>2 DEF Elements
      <4> QED BY <2>2, <3>2, <4>1
    <3> QED BY <2>2, <3>1, <3>2
  <2> QED BY <1>1, <1>8, <2>3 DEF Sorted
<1> QED BY <1>1, <1>2, <1>7, <1>10, <1>13, <1>14, <1>15 DEF DagInv, Sorting

LEMMA RelaxStep ==
    ASSUME DagInv, Relax
    PROVE  DagInv'
<1> DEFINE i == Head(neighbors)
           m == edges[i].target
<1>1. /\ neighbors # <<>> /\ neighbors' = Tail(neighbors)
      /\ inDegree' = [inDegree EXCEPT ![m] = @ - 1]
      /\ queue' = IF inDegree[m] = 1 THEN Append(queue, m) ELSE queue
      /\ UNCHANGED <<edges, phase, next, adjacency, errors, executionOrder, valid>>
  BY DEF Relax
<1>2. /\ phase = "sort" /\ ~errors /\ ~valid
      /\ DagTypes /\ Listed /\ Degrees /\ Free /\ Pending /\ Sorted(executionOrder)
  BY <1>1 DEF DagInv, Sorting
<1>3. neighbors \in Seq(Nat) /\ queue \in Seq(NodeIds) /\ inDegree \in [NodeIds -> Int]
  BY <1>2 DEF DagTypes
<1>4. /\ neighbors' \in Seq(Nat) /\ NoneTwice(neighbors') /\ i \in Elements(neighbors)
      /\ Elements(neighbors) = Elements(neighbors') \cup {i} /\ i \notin Elements(neighbors')
  BY <1>1, <1>2, <1>3, TailElements DEF Pending
<1>5. i \in Counted /\ edges[i].source \in Elements(executionOrder) /\ m \in NodeIds
  <2>1. i \in Counted /\ edges[i].source \in Elements(executionOrder)
    BY <1>2, <1>4 DEF Pending
  <2> QED BY <2>1 DEF Counted, Known
<1>6. ReadSoFar' = ReadSoFar /\ Counted' = Counted
  BY <1>1 DEF ReadSoFar, Counted
<1>7. \A x : Left(x)' = IF x = m THEN Left(x) \ {i} ELSE Left(x)
  <2>1. \A j \in Counted : TakenAway(j)' <=> TakenAway(j) \/ j = i
    BY <1>1, <1>4, <1>5 DEF TakenAway
  <2> QED BY <1>1, <1>6, <2>1 DEF Left
<1>8. i \in Left(m)
  BY <1>4, <1>5 DEF Left, TakenAway
<1>9. /\ inDegree'[m] = inDegree[m] - 1 /\ inDegree' \in [NodeIds -> Int]
      /\ \A x \in NodeIds \ {m} : inDegree'[x] = inDegree[x]
  BY <1>1, <1>3, <1>5
<1>10. Degrees'
  <2>1. ASSUME NEW x \in NodeIds PROVE inDegree'[x] = Cardinality(Left(x)')
    <3>1. inDegree[x] = Cardinality(Left(x)) /\ IsFiniteSet(Left(x))
      BY <1>2, LeftFinite DEF Degrees
    <3>2. CASE x = m
      <4>1. Cardinality(Left(x) \ {i}) = Cardinality(Left(x)) - 1
        BY <1>8, <3>1, <3>2, FS_RemoveElement
      <4> QED BY <1>7, <1>9, <3>1, <3>2, <4>1
    <3> QED BY <1>7, <1>9, <3>1, <3>2
  <2> QED BY <2>1 DEF Degrees
<1>11. inDegree[m] # 0
  <2>1. inDegree[m] = Cardinality(Left(m)) /\ IsFiniteSet(Left(m))
    BY <1>2, <1>5, LeftFinite DEF Degrees
  <2> QED BY <1>8, <2>1, FS_EmptySet
<1>12. m \notin Elements(queue) /\ m \notin Elements(executionOrder)
  BY <1>2, <1>11 DEF Free
<1>13. /\ queue' \in Seq(NodeIds) /\ NoneTwice(queue')
       /\ Elements(queue') = IF inDegree[m] = 1 THEN Elements(queue) \cup {m} ELSE Elements(queue)
  <2>1. NoneTwice(queue)
    BY <1>2 DEF Free
  <2>2. CASE inDegree[m] = 1
    BY <1>1, <1>3, <1>5, <1>12, <2>1, <2>2, AppendElements
  <2>3. CASE inDegree[m] # 1
    <3>1. queue' = queue
      BY <1>1, <2>3
    <3> QED BY <1>3, <2>1, <2>3, <3>1
  <2> QED BY <2>2, <2>3
<1>14. Free'
  <2>1. Elements(queue) \cup Elements(executionOrder) = {x \in NodeIds : inDegree[x] = 0}
    BY <1>2 DEF Free
  <2>2. {x \in NodeIds : inDegree'[x] = 0}
           = IF inDegree[m] = 1 THEN {x \in NodeIds : inDegree[x] = 0} \cup {m}
             ELSE {x \in NodeIds : inDegree[x] = 0}
    BY <1>3, <1>5, <1>9, <1>11
  <2>3. Elements(queue') \cup Elements(executionOrder) = {x \in NodeIds : inDegree'[x] = 0}
    BY <1>13, <2>1, <2>2
  <2> QED BY <1>1, <1>2, <1>12, <1>13, <2>3 DEF Free
<1>15. Pending'
  BY <1>1, <1>2, <1>4, <1>6 DEF Pending
<1>16. Listed' /\ Sorted(executionOrder)'
  BY <1>1, <1>2, <1>6 DEF Listed, Sorted
<1>17. DagTypes'
  BY <1>1, <1>2, <1>4, <1>9, <1>13 DEF DagTypes
<1> QED BY <1>1, <1>2, <1>10, <1>14, <1>15, <1>16, <1>17 DEF DagInv, Sorting

\* An order of all nodes has every node after the sources of its edges, so the first of
\* a set of nodes in it has none in the set.
LEMMA OrderIsAcyclic ==
    ASSUME DagTypes, phase # "edges", Listed, ~errors, Sorted(executionOrder),
           Elements(executionOrder) = NodeIds
    PROVE  Acyclic
<1>1. ReadSoFar = DOMAIN edges /\ Counted = DOMAIN edges
  BY DEF ReadSoFar, Counted, Listed
<1>2. \A i \in DOMAIN edges : Known(edges[i])
  BY <1>1 DEF Listed
<1>3. ASSUME NEW S \in SUBSET NodeIds, S # {}
      PROVE  \E n \in S : \A i \in DOMAIN edges : edges[i].target = n => edges[i].source \notin S
  <2> DEFINE P == {k \in DOMAIN executionOrder : executionOrder[k] \in S}
  <2>1. P \in SUBSET Nat /\ P # {}
    <3>1. DOMAIN executionOrder \subseteq Nat
      BY DEF DagTypes
    <3> QED BY <1>3, <3>1 DEF Elements
  <2>2. PICK k \in P : \A j \in P : k <= j
    <3> HIDE DEF P
    <3> QED BY <2>1, LeastNumber
  <2>3. ASSUME NEW i \in DOMAIN edges, edges[i].target = executionOrder[k], edges[i].source \in S
        PROVE  FALSE
    <3>1. PICK j \in DOMAIN executionOrder : j < k /\ executionOrder[j] = edges[i].source
      BY <1>1, <2>3 DEF Sorted
    <3>2. j \in P /\ j \in Nat /\ k \in Nat
      BY <2>1, <2>3, <3>1
    <3> QED BY <2>2, <3>1, <3>2
  <2> QED BY <2>3
<1> QED BY <1>2, <1>3 DEF Acyclic

\* The nodes that were not taken form a set each of whose nodes has an edge from it.
LEMMA RestIsCyclic ==
    ASSUME DagTypes, phase = "sort", Listed, Degrees, Free, queue = <<>>, neighbors = <<>>,
           Elements(executionOrder) # NodeIds
    PROVE  ~Acyclic
<1> DEFINE S == NodeIds \ Elements(executionOrder)
<1>1. S \in SUBSET NodeIds /\ S # {}
  <2>1. Elements(executionOrder) \subseteq NodeIds
    BY DEF DagTypes, Elements
  <2> QED BY <2>1
<1>2. ASSUME NEW n \in S
      PROVE  \E i \in DOMAIN edges : edges[i].target = n /\ edges[i].source \in S
  <2>1. inDegree[n] # 0
    BY EmptyElements DEF Free
  <2>2. PICK i \in Left(n) : TRUE
    BY <2>1, LeftFinite, FS_EmptySet DEF Degrees
  <2>3. i \in DOMAIN edges /\ Known(edges[i]) /\ edges[i].target = n
           /\ edges[i].source \notin Elements(executionOrder)
    BY <2>2, LeftFinite, EmptyElements DEF Left, Counted, TakenAway
  <2> QED BY <2>3 DEF Known
<1> HIDE DEF S
<1> QED BY <1>1, <1>2 DEF Acyclic

LEMMA FinishStep ==
    ASSUME DagInv, Finish
    PROVE  DagInv'
<1>1. /\ phase = "sort" /\ neighbors = <<>> /\ queue = <<>> /\ phase' = "done"
      /\ valid' = (Len(executionOrder) = Cardinality(NodeIds))
      /\ executionOrder' = IF valid' THEN executionOrder ELSE <<>>
      /\ UNCHANGED <<edges, next, adjacency, inDegree, errors, queue, neighbors>>
  BY DEF Finish
<1>2. /\ DagTypes /\ Listed /\ Degrees /\ Free /\ Pending /\ Sorted(executionOrder)
      /\ ~errors
  BY <1>1 DEF DagInv, Sorting
<1>3. Len(executionOrder) = Cardinality(NodeIds) <=> Elements(executionOrder) = NodeIds
  <2>1. /\ IsFiniteSet(Elements(executionOrder))
        /\ Cardinality(Elements(executionOrder)) = Len(executionOrder)
    BY <1>2, CountElements DEF DagTypes, Free
  <2>2. Elements(executionOrder) \in SUBSET NodeIds
    BY <1>2 DEF DagTypes, Elements
  <2> QED BY <2>1, <2>2, NodesFinite, FS_Subset
<1>4. valid' <=> Acyclic
  BY <1>1, <1>2, <1>3, OrderIsAcyclic, RestIsCyclic
<1>5. Acyclic' <=> Acyclic
  BY <1>1 DEF Acyclic
<1>6. DagTypes'
  <2>1. executionOrder' \in Seq(NodeIds)
    BY <1>1, <1>2, EmptyElements DEF DagTypes
  <2>2. valid' \in BOOLEAN
    BY <1>1
  <2> QED BY <1>1, <1>2, <2>1, <2>2 DEF DagTypes
<1>7. OrderLeadsForward'
  <2> SUFFICES ASSUME valid' PROVE OrderLeadsForward'
    BY DEF OrderLeadsForward
  <2>1. executionOrder' = executionOrder /\ Elements(executionOrder) = NodeIds
    BY <1>1, <1>3
  <2>2. NoneTwice(executionOrder) /\ Counted = DOMAIN edges /\ DOMAIN executionOrder \subseteq Nat
    <3>1. ReadSoFar = DOMAIN edges
      BY <1>1 DEF ReadSoFar
    <3>2. Counted = DOMAIN edges
      BY <1>2, <3>1 DEF Listed, Counted
    <3>3. DOMAIN executionOrder \subseteq Nat
      BY <1>2 DEF DagTypes
    <3> QED BY <1>2, <3>2, <3>3 DEF Free
  <2>3. ASSUME NEW i \in DOMAIN edges,
               NEW j \in DOMAIN executionOrder, NEW k \in DOMAIN executionOrder,
               executionOrder[j] = edges[i].source, executionOrder[k] = edges[i].target
        PROVE  j < k
    <3>1. PICK h \in DOMAIN executionOrder : h < k /\ executionOrder[h] = edges[i].source
      BY <1>2, <2>2, <2>3 DEF Sorted
    <3>2. h = j
      BY <2>2, <2>3, <3>1 DEF NoneTwice
    <3> QED BY <3>1, <3>2
  <2>4. \A n \in NodeIds : \E k \in DOMAIN executionOrder : executionOrder[k] = n
    BY <2>1 DEF Elements
  <2>5. edges' = edges
    BY <1>1
  <2> QED BY <2>1, <2>2, <2>3, <2>4, <2>5 DEF OrderLeadsForward, NoneTwice
<1> QED BY <1>1, <1>2, <1>4, <1>5, <1>6, <1>7 DEF DagInv

LEMMA StutterStep ==
    ASSUME DagInv, UNCHANGED dagVars
    PROVE  DagInv'
<1>1. UNCHANGED <<edges, phase, next, adjacency, inDegree, errors, queue, executionOrder,
                  neighbors, valid>>
  BY DEF dagVars
<1>2. ReadSoFar' = ReadSoFar /\ Counted' = Counted /\ \A x : Left(x)' = Left(x)
  <2>1. ReadSoFar' = ReadSoFar
    BY <1>1 DEF ReadSoFar
  <2> QED BY <1>1, <2>1, SameEdges
<1>3. DagTypes'
  BY <1>1 DEF DagInv, DagTypes
<1>4. Sorting => Sorting'
  BY <1>1, <1>2 DEF Sorting, Listed, Degrees, Free, Pending, Sorted
<1>5. Acyclic' <=> Acyclic
  BY <1>1 DEF Acyclic
<1>6. OrderLeadsForward' <=> OrderLeadsForward
  BY <1>1 DEF OrderLeadsForward
<1> QED BY <1>1, <1>3, <1>4, <1>5, <1>6 DEF DagInv

LEMMA DagInvHolds ==
    DagSpec => []DagInv
<1>1. DagInit => DagInv
  BY DagBegin
<1>2. DagInv /\ [DagNext]_dagVars => DagInv'
  BY ReadEdgeStep, CheckEdgesStep, SeedStep, SortStep, ShiftStep, RelaxStep, FinishStep,
     StutterStep DEF DagNext
<1> QED BY <1>1, <1>2, PTL DEF DagSpec

\* For every list of nodes and of edges, repeated, looping or dangling ones included:
\* validateDAG accepts exactly the directed acyclic graphs.
THEOREM ValidIffAcyclicHolds ==
    DagSpec => []ValidIffAcyclic
<1>1. DagInv => ValidIffAcyclic
  BY DEF DagInv, ValidIffAcyclic
<1> QED BY <1>1, DagInvHolds, PTL

\* The order of an accepted workflow has each node once, after the nodes with an edge to
\* it, for every list of nodes and of edges.
THEOREM OrderLeadsForwardHolds ==
    DagSpec => []OrderLeadsForward
<1>1. DagInv => OrderLeadsForward
  BY DEF DagInv, OrderLeadsForward
<1> QED BY <1>1, DagInvHolds, PTL

(***************************************************************************)
(* The waves.  The nodes are queued first in, first out, so the last place *)
(* from which an edge leads to a node does not fall along the order, and   *)
(* with it the level: the nodes of a level are a stretch of the order.     *)
(***************************************************************************)
\* Place p of the order holds the source of an edge to n.
Before(p, n) ==
    /\ p \in DOMAIN executionOrder
    /\ \E i \in Counted : edges[i].target = n /\ edges[i].source = executionOrder[p]

\* The nodes taken and the queued ones, in the order in which they were queued.
Line == executionOrder \o queue

\* First in, first out: the last source of a node in the line is not after the last
\* source of one behind it.
InTurn ==
    \A a, b \in DOMAIN Line : a < b =>
        \A p : Before(p, Line[a]) => \E q : p <= q /\ Before(q, Line[b])

\* The edges still to be taken away are those of the node that came last.
OfTheLast == \A i \in Elements(neighbors) : edges[i].source = executionOrder[Len(executionOrder)]

LineInv ==
    /\ phase = "sort" => OfTheLast /\ InTurn
    /\ phase = "done" /\ valid => queue = <<>> /\ InTurn

LEMMA LineOf ==
    ASSUME NEW S, NEW s \in Seq(S), NEW t \in Seq(S)
    PROVE  /\ DOMAIN (s \o t) = 1..(Len(s) + Len(t)) /\ Len(s) \in Nat /\ Len(t) \in Nat
           /\ DOMAIN s = 1..Len(s) /\ DOMAIN t = 1..Len(t)
           /\ s \o t \in Seq(S)
           /\ \A k \in 1..Len(s) : (s \o t)[k] = s[k]
           /\ \A k \in 1..Len(t) : (s \o t)[Len(s) + k] = t[k]
           /\ \A k \in 1..(Len(s) + Len(t)) : k \notin 1..Len(s) =>
                 k - Len(s) \in 1..Len(t) /\ (s \o t)[k] = t[k - Len(s)]
  OBVIOUS

\* Taking the first from the queue leaves the line as it is.
LEMMA LineAfterShift ==
    ASSUME NEW S, NEW s \in Seq(S), NEW t \in Seq(S), t # <<>>
    PROVE  Append(s, Head(t)) \o Tail(t) = s \o t
  OBVIOUS

LEMMA LineAfterRelax ==
    ASSUME NEW S, NEW s \in Seq(S), NEW t \in Seq(S), NEW x \in S
    PROVE  s \o Append(t, x) = Append(s \o t, x)
  OBVIOUS

LEMMA LineSort ==
    ASSUME DagInv, LineInv, Sort
    PROVE  LineInv'
<1>1. /\ phase = "seed" /\ phase' = "sort"
      /\ UNCHANGED <<edges, next, adjacency, inDegree, errors, queue, executionOrder, neighbors,
                     valid>>
  BY DEF Sort
<1>2. executionOrder' = <<>> /\ neighbors' = <<>>
  BY <1>1 DEF DagInv, Sorting, Pending
<1>3. DOMAIN executionOrder' = {}
  BY <1>2
<1>4. \A p, n : ~Before(p, n)'
  BY <1>3 DEF Before
<1>5. InTurn'
  BY <1>4 DEF InTurn
<1>6. OfTheLast'
  BY <1>2, EmptyElements DEF OfTheLast
<1> QED BY <1>1, <1>5, <1>6 DEF LineInv

LEMMA LineShift ==
    ASSUME DagInv, LineInv, Shift
    PROVE  LineInv'
<1> DEFINE n == Head(queue)
<1>1. /\ phase = "sort" /\ neighbors = <<>> /\ queue # <<>>
      /\ executionOrder' = Append(executionOrder, n) /\ queue' = Tail(queue)
      /\ neighbors' = adjacency[n]
      /\ UNCHANGED <<edges, phase, next, adjacency, inDegree, errors, valid>>
  BY DEF Shift
<1>2. /\ DagTypes /\ Listed /\ Degrees /\ Free /\ InTurn
  BY <1>1 DEF DagInv, Sorting, LineInv
<1>3. queue \in Seq(NodeIds) /\ executionOrder \in Seq(NodeIds)
  BY <1>2 DEF DagTypes
<1>4. n \in NodeIds /\ n \in Elements(queue) /\ n \notin Elements(executionOrder)
  BY <1>1, <1>2, <1>3, TailElements DEF Free
<1>5. Line' = Line
  BY <1>1, <1>3, LineAfterShift DEF Line
<1>6. /\ DOMAIN executionOrder = 1..Len(executionOrder) /\ Len(executionOrder) \in Nat
      /\ DOMAIN executionOrder' = 1..(Len(executionOrder) + 1)
      /\ Len(executionOrder') = Len(executionOrder) + 1
      /\ \A p \in 1..Len(executionOrder) : executionOrder'[p] = executionOrder[p]
      /\ executionOrder'[Len(executionOrder) + 1] = n
  BY <1>1, <1>3, <1>4
<1>7. ReadSoFar' = ReadSoFar /\ Counted' = Counted
  BY <1>1 DEF ReadSoFar, Counted
<1>8. ASSUME NEW k \in DOMAIN Line
      PROVE  Line[k] \in Elements(queue) \cup Elements(executionOrder)
  BY <1>3, LineOf DEF Line, Elements
<1>9. ASSUME NEW x \in Elements(queue) \cup Elements(executionOrder),
             NEW i \in Counted, edges[i].target = x
      PROVE  edges[i].source \in Elements(executionOrder)
  <2>1. x \in NodeIds /\ inDegree[x] = 0
    BY <1>1, <1>2, <1>9 DEF Free
  <2>2. Left(x) = {}
    BY <1>2, <2>1, LeftFinite, FS_EmptySet DEF Degrees
  <2> QED BY <1>9, <2>2 DEF Left, TakenAway
<1>10. ASSUME NEW k \in DOMAIN Line, NEW p
       PROVE  Before(p, Line[k])' <=> Before(p, Line[k])
  <2>1. ASSUME Before(p, Line[k])'
        PROVE  Before(p, Line[k])
    <3>1. PICK i \in Counted : /\ p \in 1..(Len(executionOrder) + 1)
                               /\ edges[i].target = Line[k]
                               /\ edges[i].source = executionOrder'[p]
      BY <1>1, <1>5, <1>6, <1>7, <2>1 DEF Before
    <3>2. edges[i].source \in Elements(executionOrder)
      BY <1>8, <1>9, <3>1
    <3>3. p \in 1..Len(executionOrder)
      BY <1>4, <1>6, <3>1, <3>2
    <3> QED BY <1>6, <3>1, <3>3 DEF Before
  <2>2. ASSUME Before(p, Line[k])
        PROVE  Before(p, Line[k])'
    <3>1. p \in DOMAIN executionOrder' /\ executionOrder'[p] = executionOrder[p]
      BY <1>6, <2>2 DEF Before
    <3> QED BY <1>1, <1>5, <1>7, <2>2, <3>1 DEF Before
  <2> QED BY <2>1, <2>2
<1>11. InTurn'
  <2>1. ASSUME NEW a \in DOMAIN Line, NEW b \in DOMAIN Line, a < b, NEW p,
               Before(p, Line[a])'
        PROVE  \E q : p <= q /\ Before(q, Line[b])'
    <3>1. PICK q : p <= q /\ Before(q, Line[b])
      BY <1>2, <1>10, <2>1 DEF InTurn
    <3> QED BY <1>10, <3>1
  <2> QED BY <1>5, <2>1 DEF InTurn
<1>12. OfTheLast'
  <2>1. Elements(adjacency[n]) = {i \in Counted : edges[i].source = n}
    BY <1>2, <1>4 DEF Listed
  <2> QED BY <1>1, <1>6, <2>1 DEF OfTheLast
<1> QED BY <1>1, <1>11, <1>12 DEF LineInv

LEMMA LineRelax ==
    ASSUME DagInv, LineInv, Relax
    PROVE  LineInv'
<1> DEFINE i == Head(neighbors)
           m == edges[i].target
<1>1. /\ neighbors # <<>> /\ neighbors' = Tail(neighbors)
      /\ queue' = IF inDegree[m] = 1 THEN Append(queue, m) ELSE queue
      /\ UNCHANGED <<edges, phase, next, adjacency, errors, executionOrder, valid>>
  BY DEF Relax
<1>2. /\ phase = "sort" /\ DagTypes /\ Pending /\ InTurn /\ OfTheLast
  BY <1>1 DEF DagInv, Sorting, LineInv
<1>3. queue \in Seq(NodeIds) /\ executionOrder \in Seq(NodeIds) /\ neighbors \in Seq(Nat)
  BY <1>2 DEF DagTypes
<1>4. /\ i \in Elements(neighbors)
      /\ Elements(neighbors) = Elements(neighbors') \cup {i}
  BY <1>1, <1>3, TailElements
<1>5. i \in Counted /\ edges[i].source \in Elements(executionOrder)
  BY <1>2, <1>4 DEF Pending
<1>6. m \in NodeIds
  BY <1>5 DEF Counted, Known
<1>7. ReadSoFar' = ReadSoFar /\ Counted' = Counted
  BY <1>1 DEF ReadSoFar, Counted
<1>8. \A p, x : Before(p, x)' <=> Before(p, x)
  BY <1>1, <1>7 DEF Before
<1>9. /\ DOMAIN executionOrder = 1..Len(executionOrder) /\ Len(executionOrder) \in Nat
      /\ Len(executionOrder) \in DOMAIN executionOrder
  <2>1. DOMAIN executionOrder = 1..Len(executionOrder) /\ Len(executionOrder) \in Nat
    BY <1>3
  <2>2. DOMAIN executionOrder # {}
    BY <1>5 DEF Elements
  <2> QED BY <2>1, <2>2
<1>10. Before(Len(executionOrder), m)
  BY <1>2, <1>4, <1>5, <1>9 DEF Before, OfTheLast
<1>11. InTurn'
  <2>1. CASE inDegree[m] = 1
    <3>1. Line' = Append(Line, m)
      BY <1>1, <1>3, <1>6, <2>1, LineAfterRelax DEF Line
    <3>2. Line \in Seq(NodeIds)
      BY <1>3 DEF Line
    <3>3. /\ DOMAIN Line = 1..Len(Line) /\ Len(Line) \in Nat
          /\ DOMAIN Line' = 1..(Len(Line) + 1)
          /\ \A k \in 1..Len(Line) : Line'[k] = Line[k]
          /\ Line'[Len(Line) + 1] = m
      BY <1>6, <3>1, <3>2
    <3>4. ASSUME NEW a \in 1..(Len(Line) + 1), NEW b \in 1..(Len(Line) + 1), a < b, NEW p,
                 Before(p, Line'[a])
          PROVE  \E q : p <= q /\ Before(q, Line'[b])
      <4>1. CASE b = Len(Line) + 1
        <5>1. p <= Len(executionOrder)
          BY <1>9, <3>4 DEF Before
        <5> QED BY <1>10, <3>3, <4>1, <5>1
      <4>2. CASE b # Len(Line) + 1
        <5>1. a \in DOMAIN Line /\ b \in DOMAIN Line /\ Line'[a] = Line[a] /\ Line'[b] = Line[b]
          BY <3>3, <3>4, <4>2
        <5> QED BY <1>2, <3>4, <5>1 DEF InTurn
      <4> QED BY <4>1, <4>2
    <3> QED BY <1>8, <3>3, <3>4 DEF InTurn
  <2>2. CASE inDegree[m] # 1
    <3>1. Line' = Line
      BY <1>1, <2>2 DEF Line
    <3> QED BY <1>2, <1>8, <3>1 DEF InTurn
  <2> QED BY <2>1, <2>2
<1>12. OfTheLast'
  BY <1>1, <1>2, <1>4 DEF OfTheLast
<1> QED BY <1>1, <1>2, <1>11, <1>12 DEF LineInv

LEMMA LineFinish ==
    ASSUME DagInv, LineInv, Finish
    PROVE  LineInv'
<1>1. /\ phase = "sort" /\ queue = <<>> /\ phase' = "done"
      /\ executionOrder' = IF valid' THEN executionOrder ELSE <<>>
      /\ UNCHANGED <<edges, next, adjacency, inDegree, errors, queue, neighbors>>
  BY DEF Finish
<1>2. InTurn
  BY <1>1 DEF LineInv
<1>3. ASSUME valid' PROVE InTurn'
  <2>1. executionOrder' = executionOrder /\ Line' = Line
    BY <1>1, <1>3 DEF Line
  <2>2. Counted' = Counted
    BY <1>1 DEF Counted, ReadSoFar
  <2>3. \A p, x : Before(p, x)' <=> Before(p, x)
    BY <1>1, <2>1, <2>2 DEF Before
  <2> QED BY <1>2, <2>1, <2>3 DEF InTurn
<1> QED BY <1>1, <1>3 DEF LineInv

LEMMA LineStep ==
    ASSUME DagInv, LineInv, [DagNext]_dagVars
    PROVE  LineInv'
<1>1. CASE ReadEdge
  BY <1>1 DEF ReadEdge, LineInv
<1>2. CASE CheckEdges
  <2>1. ~valid'
    BY <1>2 DEF CheckEdges, DagInv, Sorting
  <2> QED BY <1>2, <2>1 DEF CheckEdges, LineInv
<1>3. CASE Seed
  BY <1>3 DEF Seed, LineInv
<1>4. CASE Sort
  BY <1>4, LineSort
<1>5. CASE Shift
  BY <1>5, LineShift
<1>6. CASE Relax
  BY <1>6, LineRelax
<1>7. CASE Finish
  BY <1>7, LineFinish
<1>8. CASE UNCHANGED dagVars
  <2>1. UNCHANGED <<edges, phase, next, adjacency, inDegree, errors, queue, executionOrder,
                    neighbors, valid>>
    BY <1>8 DEF dagVars
  <2>2. Counted' = Counted /\ Line' = Line
    BY <2>1 DEF Counted, ReadSoFar, Line
  <2>3. \A p, x : Before(p, x)' <=> Before(p, x)
    BY <2>1, <2>2 DEF Before
  <2>4. (InTurn <=> InTurn') /\ (OfTheLast <=> OfTheLast')
    BY <2>1, <2>2, <2>3 DEF InTurn, OfTheLast
  <2> QED BY <2>1, <2>4 DEF LineInv
<1> QED BY <1>1, <1>2, <1>3, <1>4, <1>5, <1>6, <1>7, <1>8 DEF DagNext

Accepted == DagInv /\ LineInv /\ phase = "done" /\ valid

LEMMA GreatestIsMember ==
    ASSUME NEW S \in SUBSET Int, S # {}, IsFiniteSet(S)
    PROVE  Max(S) \in S /\ \A y \in S : y <= Max(S)
<1> DEFINE Above(x) == {y \in S : y > x}
           T == {Above(x) : x \in S}
<1>1. T \subseteq FiniteSubsetsOf(S) /\ T # {}
  <2>1. \A x \in S : Above(x) \in SUBSET S /\ IsFiniteSet(Above(x))
    BY FS_Subset
  <2> HIDE DEF Above
  <2> QED BY <2>1 DEF FiniteSubsetsOf
<1>2. PICK t \in T : \A u \in T : ~(<<u, t>> \in StrictSubsetOrdering(S))
  <2> HIDE DEF T
  <2> QED BY <1>1, FS_StrictSubsetOrderingWellFounded, WFMin
<1>3. PICK x \in S : t = Above(x)
  BY <1>2
<1>4. ASSUME NEW y \in S, y > x PROVE FALSE
  <2>1. /\ Above(x) \in SUBSET S /\ Above(y) \in SUBSET S
        /\ y \in Above(x) /\ y \notin Above(y)
    BY <1>4
  <2>3. Above(y) \subseteq Above(x)
    <3>1. \A z \in S : z > y => z > x
      <4>1. S \subseteq Int /\ x \in Int /\ y \in Int
        OBVIOUS
      <4> QED BY <1>4, <4>1
    <3> QED BY <3>1
  <2>4. Above(y) \in T
    OBVIOUS
  <2> HIDE DEF Above, T
  <2>2. <<Above(y), Above(x)>> \in StrictSubsetOrdering(S)
    BY <2>1, <2>3 DEF StrictSubsetOrdering
  <2> QED BY <1>2, <1>3, <2>2, <2>4
<1>5. \A y \in S : x >= y
  BY <1>4
<1>6. Max(S) \in S /\ \A y \in S : Max(S) >= y
  BY <1>5 DEF Max
<1> QED BY <1>6

LEMMA ImageFinite ==
    ASSUME NEW S, IsFiniteSet(S), NEW f, f = [x \in S |-> f[x]]
    PROVE  IsFiniteSet({f[x] : x \in S})
<1> DEFINE T == {f[x] : x \in S}
<1>1. f \in [S -> T]
  OBVIOUS
<1>2. \A y \in T : \E x \in S : f[x] = y
  OBVIOUS
<1> HIDE DEF T
<1>3. f \in Surjection(S, T)
  BY <1>1, <1>2 DEF Surjection
<1>4. IsFiniteSet(T)
  BY <1>3, FS_Surjection
<1> QED BY <1>4 DEF T

\* What the sorting leaves behind, in terms of the places in the order.
LEMMA AcceptedFacts ==
    ASSUME Accepted
    PROVE  /\ executionOrder \in Seq(NodeIds) /\ Len(executionOrder) \in Nat
           /\ DOMAIN executionOrder = 1..Len(executionOrder)
           /\ NoneTwice(executionOrder) /\ Elements(executionOrder) = NodeIds
           /\ \A n : ParentsOf(n) \subseteq NodeIds /\ IsFiniteSet(ParentsOf(n))
<1>1. DagTypes /\ OrderLeadsForward /\ Acyclic /\ phase = "done" /\ valid
  BY DEF Accepted, DagInv
<1>2. /\ executionOrder \in Seq(NodeIds) /\ Len(executionOrder) \in Nat
      /\ DOMAIN executionOrder = 1..Len(executionOrder)
      /\ DOMAIN edges = 1..Len(edges) /\ Len(edges) \in Nat
  BY <1>1 DEF DagTypes
<1>3. NoneTwice(executionOrder) /\ Elements(executionOrder) = NodeIds
  <2>1. Elements(executionOrder) \subseteq NodeIds
    BY <1>2 DEF Elements
  <2> QED BY <1>1, <1>2, <2>1 DEF OrderLeadsForward, NoneTwice, Elements
<1>4. ASSUME NEW n
      PROVE  ParentsOf(n) \subseteq NodeIds /\ IsFiniteSet(ParentsOf(n))
  <2> DEFINE I == {j \in DOMAIN edges : edges[j].target = n}
  <2>1. I \in SUBSET (1..Len(edges)) /\ IsFiniteSet(1..Len(edges))
    BY <1>2, FS_Interval
  <2>2. IsFiniteSet(I)
    BY <2>1, FS_Subset
  <2>3. IsFiniteSet({edges[i].source : i \in I})
    <3> DEFINE f == [i \in I |-> edges[i].source]
    <3>1. IsFiniteSet({f[i] : i \in I})
      <4> HIDE DEF I
      <4> QED BY <2>2, ImageFinite
    <3>2. {f[i] : i \in I} = {edges[i].source : i \in I}
      OBVIOUS
    <3> QED BY <3>1, <3>2
  <2>4. ParentsOf(n) = {edges[i].source : i \in I}
    BY DEF ParentsOf
  <2>5. \A i \in I : edges[i].source \in NodeIds
    BY <1>1 DEF Acyclic, Known
  <2> HIDE DEF I
  <2> QED BY <2>3, <2>4, <2>5
<1> QED BY <1>2, <1>3, <1>4

LEMMA AcceptedLine ==
    ASSUME Accepted
    PROVE  /\ \A k \in DOMAIN executionOrder : \A p \in ParentsOf(executionOrder[k]) :
                 \E j \in 1..(k - 1) : j \in DOMAIN executionOrder /\ executionOrder[j] = p
           /\ \A a, b, j \in DOMAIN executionOrder :
                 a < b /\ executionOrder[j] \in ParentsOf(executionOrder[a]) =>
                    \E q \in DOMAIN executionOrder :
                        j <= q /\ executionOrder[q] \in ParentsOf(executionOrder[b])
<1>1. /\ DagTypes /\ OrderLeadsForward /\ Acyclic /\ phase = "done" /\ valid
      /\ InTurn /\ queue = <<>>
  BY DEF Accepted, DagInv, LineInv
<1>2. /\ executionOrder \in Seq(NodeIds) /\ Len(executionOrder) \in Nat
      /\ DOMAIN executionOrder = 1..Len(executionOrder)
      /\ Elements(executionOrder) = NodeIds
      /\ \A n : ParentsOf(n) \subseteq NodeIds
  BY AcceptedFacts
<1>3. Line = executionOrder
  BY <1>1, <1>2 DEF Line
<1>4. Counted = DOMAIN edges
  BY <1>1 DEF Counted, ReadSoFar, Acyclic
<1>5. ASSUME NEW k \in DOMAIN executionOrder, NEW p \in ParentsOf(executionOrder[k])
      PROVE  \E j \in 1..(k - 1) : j \in DOMAIN executionOrder /\ executionOrder[j] = p
  <2>1. PICK i \in DOMAIN edges : edges[i].target = executionOrder[k] /\ edges[i].source = p
    BY <1>5 DEF ParentsOf
  <2>2. PICK j \in DOMAIN executionOrder : executionOrder[j] = p
    BY <1>2, <1>5 DEF Elements
  <2>3. j < k
    BY <1>1, <2>1, <2>2 DEF OrderLeadsForward
  <2> QED BY <1>2, <2>2, <2>3
<1>6. \A p \in DOMAIN executionOrder : \A n :
         Before(p, n) <=> executionOrder[p] \in ParentsOf(n)
  BY <1>4 DEF Before, ParentsOf
<1>7. ASSUME NEW a \in DOMAIN executionOrder, NEW b \in DOMAIN executionOrder,
             NEW j \in DOMAIN executionOrder, a < b,
             executionOrder[j] \in ParentsOf(executionOrder[a])
      PROVE  \E q \in DOMAIN executionOrder :
                 j <= q /\ executionOrder[q] \in ParentsOf(executionOrder[b])
  <2>1. PICK q : j <= q /\ Before(q, executionOrder[b])
    BY <1>1, <1>3, <1>6, <1>7 DEF InTurn
  <2>2. q \in DOMAIN executionOrder
    BY <2>1 DEF Before
  <2> QED BY <1>6, <2>1, <2>2
<1> QED BY <1>5, <1>7

-----------------------------------------------------------------------------
\* The levels.
LEMMA LevelBelowIs ==
    ASSUME Accepted, NEW levels \in [NodeIds -> Nat], NEW n
    PROVE  /\ LevelBelow(levels, n) \in Nat
           /\ \A p \in ParentsOf(n) : levels[p] + 1 <= LevelBelow(levels, n)
           /\ LevelBelow(levels, n) = 0 \/ \E p \in ParentsOf(n) :
                 LevelBelow(levels, n) = levels[p] + 1
<1> DEFINE below == {levels[p] + 1 : p \in ParentsOf(n)}
<1>1. ParentsOf(n) \subseteq NodeIds /\ IsFiniteSet(ParentsOf(n))
  BY AcceptedFacts
<1>2. below \subseteq Nat
  BY <1>1
<1>3. IsFiniteSet(below)
  <2> DEFINE f == [p \in ParentsOf(n) |-> levels[p] + 1]
  <2>1. IsFiniteSet({f[p] : p \in ParentsOf(n)})
    BY <1>1, ImageFinite
  <2>2. {f[p] : p \in ParentsOf(n)} = below
    OBVIOUS
  <2> QED BY <2>1, <2>2
<1>4. IsFiniteSet({0} \cup below)
  BY <1>3, FS_AddElement, FS_EmptySet, FS_Union, FS_Singleton
<1>5. \A p \in ParentsOf(n) : levels[p] + 1 \in below
  OBVIOUS
<1>6. \A x \in below : \E p \in ParentsOf(n) : x = levels[p] + 1
  OBVIOUS
<1>7. LevelBelow(levels, n) = Max({0} \cup below)
  BY DEF LevelBelow
<1> HIDE DEF below
<1>8. /\ {0} \cup below \in SUBSET Int /\ {0} \cup below # {}
  BY <1>2
<1>9. /\ Max({0} \cup below) \in {0} \cup below
      /\ \A y \in {0} \cup below : y <= Max({0} \cup below)
  BY <1>4, <1>8, GreatestIsMember
<1>10. \A p \in ParentsOf(n) : levels[p] + 1 <= LevelBelow(levels, n)
  BY <1>5, <1>7, <1>9
<1>11. LevelBelow(levels, n) \in {0} \cup below
  BY <1>7, <1>9
<1>12. LevelBelow(levels, n) \in Nat
  <2>1. {0} \cup below \subseteq Nat
    BY <1>2
  <2> HIDE DEF LevelBelow
  <2> QED BY <1>11, <2>1
<1>13. LevelBelow(levels, n) = 0 \/ LevelBelow(levels, n) \in below
  BY <1>11
<1> QED BY <1>6, <1>10, <1>12, <1>13

\* The function after m turns of the loop over the order.
LevelsTo(m, f) ==
    /\ f[0] = [n \in NodeIds |-> 0]
    /\ \A k \in 1..m :
          f[k] = [f[k - 1] EXCEPT ![executionOrder[k]] = LevelBelow(f[k - 1], executionOrder[k])]

LEMMA LevelsExist == \A m \in Nat : \E f : LevelsTo(m, f)
<1> DEFINE Missing == {m \in Nat : ~\E f : LevelsTo(m, f)}
<1> SUFFICES ASSUME Missing # {} PROVE FALSE
  OBVIOUS
<1>1. PICK m \in Missing : \A l \in Missing : m <= l
  <2> HIDE DEF Missing
  <2>1. Missing \in SUBSET Nat
    BY DEF Missing
  <2> QED BY <2>1, LeastNumber
<1>2. m \in Nat /\ ~\E f : LevelsTo(m, f)
  OBVIOUS
<1> DEFINE f0 == [k \in {0} |-> [n \in NodeIds |-> 0]]
<1>3. m # 0
  <2>1. LevelsTo(0, f0)
    BY DEF LevelsTo
  <2> QED BY <1>2, <2>1
<1>4. m - 1 \in Nat /\ m - 1 \notin Missing
  BY <1>1, <1>2, <1>3
<1>5. PICK f : LevelsTo(m - 1, f)
  BY <1>4
<1> DEFINE last == [f[m - 1] EXCEPT ![executionOrder[m]] = LevelBelow(f[m - 1], executionOrder[m])]
           h == [k \in 0..m |-> IF k = m THEN last ELSE f[k]]
<1>6. h[m] = last /\ \A k \in 0..m : k # m => h[k] = f[k]
  BY <1>2
<1>7. LevelsTo(m, h)
  <2> HIDE DEF h, last
  <2>1. h[0] = [n \in NodeIds |-> 0]
    BY <1>2, <1>3, <1>5, <1>6 DEF LevelsTo
  <2>2. ASSUME NEW k \in 1..m
        PROVE  h[k] = [h[k - 1] EXCEPT ![executionOrder[k]] =
                          LevelBelow(h[k - 1], executionOrder[k])]
    <3>1. h[k - 1] = f[k - 1]
      BY <1>2, <1>6
    <3>2. CASE k = m
      BY <1>6, <3>1, <3>2 DEF last
    <3>3. CASE k # m
      <4>1. h[k] = f[k] /\ k \in 1..(m - 1)
        BY <1>2, <1>6, <3>3
      <4> QED BY <1>5, <3>1, <4>1 DEF LevelsTo
    <3> QED BY <3>2, <3>3
  <2> QED BY <2>1, <2>2 DEF LevelsTo
<1> QED BY <1>2, <1>7

LEMMA LevelsStepByStep ==
    ASSUME Len(executionOrder) \in Nat
    PROVE  LevelsTo(Len(executionOrder), LevelsAfter)
<1> DEFINE N == Len(executionOrder)
           Turn1(f) == [k \in 0..N |->
               IF k = 0 THEN [n \in NodeIds |-> 0]
               ELSE [f[k - 1] EXCEPT ![executionOrder[k]] =
                        LevelBelow(f[k - 1], executionOrder[k])]]
<1>1. PICK f : LevelsTo(N, f)
  BY LevelsExist
<1> DEFINE h == [k \in 0..N |-> f[k]]
<1>2. h = Turn1(h)
  <2>1. ASSUME NEW k \in 0..N
        PROVE  h[k] = IF k = 0 THEN [n \in NodeIds |-> 0]
                      ELSE [h[k - 1] EXCEPT ![executionOrder[k]] =
                               LevelBelow(h[k - 1], executionOrder[k])]
    <3>1. CASE k = 0
      BY <1>1, <3>1 DEF LevelsTo
    <3>2. CASE k # 0
      <4>1. h[k - 1] = f[k - 1] /\ h[k] = f[k] /\ k \in 1..N
        BY <3>2
      <4> HIDE DEF h
      <4> QED BY <1>1, <3>2, <4>1 DEF LevelsTo
    <3> QED BY <3>1, <3>2
  <2>2. h = [k \in 0..N |-> h[k]]
    OBVIOUS
  <2> HIDE DEF h
  <2> QED BY <2>1, <2>2
<1>3. LevelsAfter = Turn1(LevelsAfter)
  <2>1. \E g : g = Turn1(g)
    <3> HIDE DEF h, Turn1
    <3> QED BY <1>2
  <2>2. LevelsAfter = CHOOSE g : g = Turn1(g)
    BY DEF LevelsAfter
  <2> HIDE DEF Turn1
  <2> QED BY <2>1, <2>2
<1>4. \A k \in 0..N : Turn1(LevelsAfter)[k] =
               IF k = 0 THEN [n \in NodeIds |-> 0]
               ELSE [LevelsAfter[k - 1] EXCEPT ![executionOrder[k]] =
                        LevelBelow(LevelsAfter[k - 1], executionOrder[k])]
  OBVIOUS
<1> HIDE DEF Turn1
<1>5. \A k \in 0..N : LevelsAfter[k] =
               IF k = 0 THEN [n \in NodeIds |-> 0]
               ELSE [LevelsAfter[k - 1] EXCEPT ![executionOrder[k]] =
                        LevelBelow(LevelsAfter[k - 1], executionOrder[k])]
  BY <1>3, <1>4
<1>6. LevelsAfter[0] = [n \in NodeIds |-> 0]
  <2>1. 0 \in 0..N
    OBVIOUS
  <2> QED BY <1>5, <2>1
<1>7. \A k \in 1..N : LevelsAfter[k] = [LevelsAfter[k - 1] EXCEPT ![executionOrder[k]] =
                                           LevelBelow(LevelsAfter[k - 1], executionOrder[k])]
  <2>1. \A k \in 1..N : k \in 0..N /\ k # 0
    OBVIOUS
  <2> QED BY <1>5, <2>1
<1> QED BY <1>6, <1>7 DEF LevelsTo

LEMMA LevelsTyped ==
    ASSUME Accepted
    PROVE  /\ \A k \in 0..Len(executionOrder) : LevelsAfter[k] \in [NodeIds -> Nat]
           /\ \A k \in 1..Len(executionOrder) :
                 LevelsAfter[k] = [LevelsAfter[k - 1] EXCEPT ![executionOrder[k]] =
                                      LevelBelow(LevelsAfter[k - 1], executionOrder[k])]
<1> DEFINE N == Len(executionOrder)
           Bad == {k \in 0..N : LevelsAfter[k] \notin [NodeIds -> Nat]}
<1>1. N \in Nat
  BY AcceptedFacts
<1>2. /\ LevelsAfter[0] = [n \in NodeIds |-> 0]
      /\ \A k \in 1..N : LevelsAfter[k] =
            [LevelsAfter[k - 1] EXCEPT ![executionOrder[k]] =
                LevelBelow(LevelsAfter[k - 1], executionOrder[k])]
  BY <1>1, LevelsStepByStep DEF LevelsTo
<1>3. Bad = {}
  <2> SUFFICES ASSUME Bad # {} PROVE FALSE
    OBVIOUS
  <2>1. PICK m \in Bad : \A l \in Bad : m <= l
    <3>1. Bad \in SUBSET Nat
      BY <1>1
    <3> HIDE DEF Bad
    <3> QED BY <3>1, LeastNumber
  <2>2. m \in 0..N /\ LevelsAfter[m] \notin [NodeIds -> Nat]
    OBVIOUS
  <2>3. m # 0
    BY <1>2, <2>2
  <2>4. m - 1 \in 0..N /\ m - 1 \notin Bad /\ m \in 1..N
    BY <1>1, <2>1, <2>2, <2>3
  <2>5. LevelsAfter[m - 1] \in [NodeIds -> Nat]
    BY <2>4
  <2>6. LevelBelow(LevelsAfter[m - 1], executionOrder[m]) \in Nat
    BY <2>5, LevelBelowIs
  <2>7. LevelsAfter[m] \in [NodeIds -> Nat]
    <3> DEFINE level == LevelBelow(LevelsAfter[m - 1], executionOrder[m])
    <3>1. LevelsAfter[m] = [LevelsAfter[m - 1] EXCEPT ![executionOrder[m]] = level]
      BY <1>2, <2>4
    <3>2. level \in Nat
      BY <2>6
    <3> HIDE DEF Bad, level
    <3> QED BY <2>5, <3>1, <3>2
  <2> QED BY <2>2, <2>7
<1> QED BY <1>2, <1>3

\* A node's level is written in its turn of the loop only.
LEMMA LevelStays ==
    ASSUME Accepted, NEW j \in 1..Len(executionOrder)
    PROVE  \A k \in j..Len(executionOrder) :
              LevelsAfter[k][executionOrder[j]] = LevelsAfter[j][executionOrder[j]]
<1> DEFINE N == Len(executionOrder)
           n == executionOrder[j]
           Bad == {k \in j..N : LevelsAfter[k][n] # LevelsAfter[j][n]}
<1>1. N \in Nat /\ DOMAIN executionOrder = 1..N /\ n \in NodeIds /\ NoneTwice(executionOrder)
  BY AcceptedFacts DEF Elements
<1>2. Bad = {}
  <2> SUFFICES ASSUME Bad # {} PROVE FALSE
    OBVIOUS
  <2>1. PICK m \in Bad : \A l \in Bad : m <= l
    <3>1. Bad \in SUBSET Nat
      BY <1>1
    <3> HIDE DEF Bad
    <3> QED BY <3>1, LeastNumber
  <2>2. m \in j..N /\ LevelsAfter[m][n] # LevelsAfter[j][n]
    OBVIOUS
  <2>3. m - 1 \in j..N /\ m \in 1..N /\ m - 1 \in 0..N /\ m - 1 \notin Bad
    BY <1>1, <2>1, <2>2
  <2>4. LevelsAfter[m - 1][n] = LevelsAfter[j][n]
    BY <2>3
  <2>5. executionOrder[m] # n
    BY <1>1, <2>2, <2>3 DEF NoneTwice
  <2>6. /\ LevelsAfter[m - 1] \in [NodeIds -> Nat]
        /\ LevelsAfter[m] = [LevelsAfter[m - 1] EXCEPT ![executionOrder[m]] =
                                LevelBelow(LevelsAfter[m - 1], executionOrder[m])]
    BY <2>3, LevelsTyped
  <2>7. LevelsAfter[m][n] = LevelsAfter[m - 1][n]
    <3> HIDE DEF Bad, n
    <3> QED BY <1>1, <2>5, <2>6
  <2> QED BY <2>2, <2>4, <2>7
<1> QED BY <1>2

\* A node is one level below the deepest of its parents.
LEMMA LevelOfIs ==
    ASSUME Accepted
    PROVE  \A n \in NodeIds :
              /\ LevelOf(n) \in Nat
              /\ \A p \in ParentsOf(n) : LevelOf(p) + 1 <= LevelOf(n)
              /\ LevelOf(n) = 0 \/ \E p \in ParentsOf(n) : LevelOf(n) = LevelOf(p) + 1
<1> DEFINE N == Len(executionOrder)
<1>1. /\ N \in Nat /\ DOMAIN executionOrder = 1..N /\ Elements(executionOrder) = NodeIds
      /\ \A x : ParentsOf(x) \subseteq NodeIds
  BY AcceptedFacts
<1>2. ASSUME NEW n \in NodeIds
      PROVE  /\ LevelOf(n) \in Nat
             /\ \A p \in ParentsOf(n) : LevelOf(p) + 1 <= LevelOf(n)
             /\ LevelOf(n) = 0 \/ \E p \in ParentsOf(n) : LevelOf(n) = LevelOf(p) + 1
  <2>1. PICK j \in 1..N : executionOrder[j] = n
    BY <1>1 DEF Elements
  <2> DEFINE before == LevelsAfter[j - 1]
  <2>2. /\ before \in [NodeIds -> Nat]
        /\ LevelsAfter[j] = [before EXCEPT ![n] = LevelBelow(before, n)]
    BY <1>1, <2>1, LevelsTyped
  <2>3. LevelsAfter[j][n] = LevelBelow(before, n)
    <3> HIDE DEF before
    <3> QED BY <2>2
  <2>4. N \in j..N
    BY <1>1
  <2>5. LevelOf(n) = LevelBelow(before, n)
    BY <2>1, <2>3, <2>4, LevelStays DEF LevelOf
  <2>6. ASSUME NEW p \in ParentsOf(n) PROVE before[p] = LevelOf(p)
    <3>1. PICK h \in 1..(j - 1) : h \in 1..N /\ executionOrder[h] = p
      BY <1>1, <2>1, AcceptedLine
    <3>2. j - 1 \in h..N /\ N \in h..N
      BY <1>1, <3>1
    <3>3. before[p] = LevelsAfter[h][p] /\ LevelOf(p) = LevelsAfter[h][p]
      BY <3>1, <3>2, LevelStays DEF LevelOf
    <3> QED BY <3>3
  <2> HIDE DEF before
  <2>7. /\ LevelBelow(before, n) \in Nat
        /\ \A p \in ParentsOf(n) : before[p] + 1 <= LevelBelow(before, n)
        /\ LevelBelow(before, n) = 0 \/ \E p \in ParentsOf(n) :
              LevelBelow(before, n) = before[p] + 1
    BY <2>2, LevelBelowIs
  <2> QED BY <2>5, <2>6, <2>7
<1> QED BY <1>2

\* The level of the node at place k.
Depth(k) == LevelOf(executionOrder[k])

LEMMA DepthIs ==
    ASSUME Accepted
    PROVE  /\ \A k \in DOMAIN executionOrder : Depth(k) \in Nat
           /\ \A k, j \in DOMAIN executionOrder :
                 executionOrder[j] \in ParentsOf(executionOrder[k]) => Depth(j) + 1 <= Depth(k)
           /\ \A k \in DOMAIN executionOrder :
                 \/ Depth(k) = 0
                 \/ \E j \in DOMAIN executionOrder :
                       /\ j < k /\ Depth(k) = Depth(j) + 1
                       /\ executionOrder[j] \in ParentsOf(executionOrder[k])
<1>1. /\ \A k \in DOMAIN executionOrder : executionOrder[k] \in NodeIds
      /\ DOMAIN executionOrder \subseteq Nat
  BY AcceptedFacts DEF Elements
<1>2. ASSUME NEW k \in DOMAIN executionOrder, Depth(k) # 0
      PROVE  \E j \in DOMAIN executionOrder :
                 /\ j < k /\ Depth(k) = Depth(j) + 1
                 /\ executionOrder[j] \in ParentsOf(executionOrder[k])
  <2>1. PICK p \in ParentsOf(executionOrder[k]) : Depth(k) = LevelOf(p) + 1
    BY <1>1, <1>2, LevelOfIs DEF Depth
  <2>2. PICK j \in 1..(k - 1) : j \in DOMAIN executionOrder /\ executionOrder[j] = p
    BY AcceptedLine
  <2>3. j < k
    BY <1>1, <2>2
  <2> QED BY <2>1, <2>2, <2>3 DEF Depth
<1>3. \A k \in DOMAIN executionOrder : Depth(k) \in Nat
  BY <1>1, LevelOfIs DEF Depth
<1>4. \A k, j \in DOMAIN executionOrder :
         executionOrder[j] \in ParentsOf(executionOrder[k]) => Depth(j) + 1 <= Depth(k)
  BY <1>1, LevelOfIs DEF Depth
<1> QED BY <1>2, <1>3, <1>4

\* First in, first out: the levels do not fall along the order.
LEMMA LevelsRise ==
    ASSUME Accepted
    PROVE  \A a, b \in DOMAIN executionOrder : a <= b => Depth(a) <= Depth(b)
<1> DEFINE Bad == {b \in DOMAIN executionOrder :
                      \E a \in DOMAIN executionOrder : a < b /\ Depth(a) > Depth(b)}
<1>1. DOMAIN executionOrder \subseteq Nat
  BY AcceptedFacts
<1>2. Bad = {}
  <2> SUFFICES ASSUME Bad # {} PROVE FALSE
    OBVIOUS
  <2>1. PICK b \in Bad : \A l \in Bad : b <= l
    <3>1. Bad \in SUBSET Nat
      BY <1>1
    <3> HIDE DEF Bad
    <3> QED BY <3>1, LeastNumber
  <2>2. PICK a \in DOMAIN executionOrder : a < b /\ Depth(a) > Depth(b)
    OBVIOUS
  <2>3. b \in DOMAIN executionOrder
    OBVIOUS
  <2>4. Depth(a) \in Nat /\ Depth(b) \in Nat /\ Depth(a) # 0
    BY <2>2, <2>3, DepthIs
  <2>5. PICK j \in DOMAIN executionOrder : /\ Depth(a) = Depth(j) + 1
                                           /\ executionOrder[j] \in ParentsOf(executionOrder[a])
    BY <2>4, DepthIs
  <2>6. PICK q \in DOMAIN executionOrder :
           j <= q /\ executionOrder[q] \in ParentsOf(executionOrder[b])
    BY <2>2, <2>3, <2>5, AcceptedLine
  <2>7. Depth(q) + 1 <= Depth(b) /\ Depth(q) \in Nat /\ Depth(j) \in Nat
    BY <2>3, <2>6, DepthIs
  <2>8. q < b
    <3>1. PICK h \in 1..(b - 1) : h \in DOMAIN executionOrder
                                    /\ executionOrder[h] = executionOrder[q]
      BY <2>3, <2>6, AcceptedLine
    <3>2. h = q
      BY <2>6, <3>1, AcceptedFacts DEF NoneTwice
    <3> QED BY <1>1, <2>3, <3>1, <3>2
  <2>9. q \notin Bad
    BY <1>1, <2>1, <2>3, <2>8
  <2>10. Depth(j) <= Depth(q)
    <3>1. j \in Nat /\ q \in Nat
      BY <1>1
    <3>2. CASE j = q
      BY <2>7, <3>2
    <3>3. CASE j # q
      <4>1. j < q
        BY <2>6, <3>1, <3>3
      <4> QED BY <2>7, <2>9, <4>1
    <3> QED BY <3>2, <3>3
  <2> QED BY <2>2, <2>4, <2>5, <2>7, <2>10
<1>3. ASSUME NEW a \in DOMAIN executionOrder, NEW b \in DOMAIN executionOrder, a <= b
      PROVE  Depth(a) <= Depth(b)
  <2>1. Depth(a) \in Nat /\ Depth(b) \in Nat /\ a \in Nat /\ b \in Nat
    BY <1>1, DepthIs
  <2>2. CASE a = b
    BY <2>1, <2>2
  <2>3. CASE a < b
    BY <1>2, <2>1, <2>3
  <2> QED BY <1>3, <2>1, <2>2, <2>3
<1> QED BY <1>3

\* No level is left out below one that a node has.
LEMMA NoGaps ==
    ASSUME Accepted
    PROVE  \A k \in DOMAIN executionOrder : \A l \in 0..Depth(k) :
              \E j \in DOMAIN executionOrder : Depth(j) = l
<1> DEFINE Bad == {k \in DOMAIN executionOrder : \E l \in 0..Depth(k) :
                      ~\E j \in DOMAIN executionOrder : Depth(j) = l}
<1>1. DOMAIN executionOrder \subseteq Nat
  BY AcceptedFacts
<1>2. Bad = {}
  <2> SUFFICES ASSUME Bad # {} PROVE FALSE
    OBVIOUS
  <2>1. PICK k \in Bad : \A i \in Bad : k <= i
    <3>1. Bad \in SUBSET Nat
      BY <1>1
    <3> HIDE DEF Bad
    <3> QED BY <3>1, LeastNumber
  <2>2. k \in DOMAIN executionOrder
    OBVIOUS
  <2>3. PICK l \in 0..Depth(k) : \A j \in DOMAIN executionOrder : Depth(j) # l
    OBVIOUS
  <2>4. Depth(k) \in Nat /\ Depth(k) # l
    BY <2>2, <2>3, DepthIs
  <2>5. PICK j \in DOMAIN executionOrder : j < k /\ Depth(k) = Depth(j) + 1
    BY <2>2, <2>3, <2>4, DepthIs
  <2>6. l \in 0..Depth(j)
    BY <2>3, <2>4, <2>5, DepthIs
  <2>7. j \in Bad
    BY <2>3, <2>6
  <2> QED BY <1>1, <2>1, <2>2, <2>5, <2>7
<1> QED BY <1>2

-----------------------------------------------------------------------------
\* The waves as stretches of the order.
\* A set of numbers 1..n with all numbers below each of its own.
LEMMA DownClosed ==
    ASSUME NEW n \in Nat, NEW S \in SUBSET (1..n), \A b \in S : \A a \in 1..b : a \in S
    PROVE  \E c \in 0..n : S = 1..c
<1> DEFINE Out == {k \in Nat : k # 0 /\ k \notin S}
<1>1. n + 1 \in Out
  OBVIOUS
<1>2. PICK m \in Out : \A k \in Out : m <= k
  <2>1. Out \in SUBSET Nat /\ Out # {}
    BY <1>1
  <2> HIDE DEF Out
  <2> QED BY <2>1, LeastNumber
<1>3. m - 1 \in 0..n
  BY <1>1, <1>2
<1>4. ASSUME NEW k \in S PROVE k \in 1..(m - 1)
  <2>1. k \in Nat /\ k # 0 /\ m \in Nat /\ m # 0 /\ m \notin S
    BY <1>2
  <2>2. m \notin 1..k
    BY <1>2, <2>1
  <2> QED BY <2>1, <2>2
<1>5. ASSUME NEW k \in 1..(m - 1) PROVE k \in S
  <2>1. k \in Nat /\ k # 0 /\ k < m
    BY <1>2
  <2>2. k \notin Out
    BY <1>2, <2>1
  <2> QED BY <2>1, <2>2
<1> QED BY <1>3, <1>4, <1>5

\* The numbers a + 1 to b, ascending.
LEMMA AscendingRange ==
    ASSUME NEW a \in Int, NEW b \in Int, a <= b
    PROVE  Ascending((a + 1)..b) = [i \in 1..(b - a) |-> a + i]
<1> DEFINE S == (a + 1)..b
           d == b - a
           Up(f) == \A i, j \in DOMAIN f : i < j => f[i] < f[j]
           w == [i \in 1..d |-> a + i]
<1>1. d \in Nat /\ Cardinality(S) = d
  <2>1. Cardinality(S) = IF a + 1 > b THEN 0 ELSE b - (a + 1) + 1
    BY FS_Interval
  <2> QED BY <2>1
<1>2. w \in [1..d -> S] /\ Up(w)
  BY <1>1
<1>3. ASSUME NEW f \in [1..d -> S], Up(f)
      PROVE  f = w
  <2> DEFINE Low == {i \in 1..d : f[i] < a + i}
             High == {k \in 0..(d - 1) : f[d - k] > a + (d - k)}
  <2>0. /\ \A i \in 1..d : f[i] \in Int /\ a + 1 <= f[i] /\ f[i] <= b
        /\ \A i, j \in 1..d : i < j => f[i] < f[j]
    BY <1>3
  <2>1. Low = {}
    <3> SUFFICES ASSUME Low # {} PROVE FALSE
      OBVIOUS
    <3>1. PICK m \in Low : \A l \in Low : m <= l
      <4>1. Low \in SUBSET Nat
        BY <1>1
      <4> HIDE DEF Low
      <4> QED BY <4>1, LeastNumber
    <3>2. m \in 1..d /\ f[m] < a + m
      OBVIOUS
    <3>3. m # 1
      BY <2>0, <3>2
    <3>4. m - 1 \in 1..d /\ m - 1 \notin Low
      BY <1>1, <3>1, <3>2, <3>3
    <3>5. f[m - 1] >= a + (m - 1)
      BY <1>1, <2>0, <3>4
    <3>6. f[m - 1] < f[m] /\ f[m] \in Int /\ f[m - 1] \in Int /\ m \in Int
      BY <1>1, <2>0, <3>2, <3>4
    <3> HIDE DEF Low
    <3> QED BY <3>2, <3>5, <3>6
  <2>2. High = {}
    <3> SUFFICES ASSUME High # {} PROVE FALSE
      OBVIOUS
    <3>1. PICK m \in High : \A l \in High : m <= l
      <4>1. High \in SUBSET Nat
        BY <1>1
      <4> HIDE DEF High
      <4> QED BY <4>1, LeastNumber
    <3>2. m \in 0..(d - 1) /\ f[d - m] > a + (d - m)
      OBVIOUS
    <3>3. m # 0
      <4>1. m = 0 => d \in 1..d /\ d - m = d /\ a + d = b
        BY <1>1, <3>2
      <4> HIDE DEF d
      <4> QED BY <1>1, <2>0, <3>2, <4>1
    <3>4. m - 1 \in 0..(d - 1) /\ m - 1 \notin High
      <4>1. m - 1 \in 0..(d - 1) /\ m \in Nat
        BY <1>1, <3>2, <3>3
      <4> HIDE DEF High
      <4> QED BY <3>1, <4>1
    <3> DEFINE p == d - m
               q == d - (m - 1)
    <3>5. p \in 1..d /\ q \in 1..d /\ q = p + 1 /\ p \in Int
      BY <1>1, <3>2, <3>4
    <3>6. f[p] > a + p
      BY <3>2
    <3>7. ~(f[q] > a + q)
      BY <3>4
    <3> HIDE DEF p, q, d, High
    <3>8. f[p] \in Int /\ f[q] \in Int /\ f[p] < f[q]
      BY <2>0, <3>5
    <3> QED BY <3>5, <3>6, <3>7, <3>8
  <2>3. ASSUME NEW i \in 1..d PROVE f[i] = a + i
    <3>1. ~(f[i] < a + i)
      BY <2>1
    <3>2. d - i \in 0..(d - 1) /\ d - (d - i) = i
      BY <1>1
    <3>3. ~(f[d - (d - i)] > a + (d - (d - i)))
      BY <2>2, <3>2
    <3>4. ~(f[i] > a + i)
      BY <3>2, <3>3
    <3>5. f[i] \in Int /\ a + i \in Int
      BY <1>1, <2>0
    <3> HIDE DEF d, Low, High
    <3> QED BY <3>1, <3>4, <3>5
  <2> QED BY <2>3
<1>4. Ascending(S) = CHOOSE f \in [1..d -> S] : Up(f)
  BY <1>1 DEF Ascending
<1>5. Ascending(S) \in [1..d -> S] /\ Up(Ascending(S))
  <2> HIDE DEF S, d, w, Up
  <2> QED BY <1>2, <1>4
<1>6. Ascending(S) = w
  <2> HIDE DEF S, d, w, Up
  <2> QED BY <1>3, <1>5
<1> QED BY <1>6

\* The place where the levels up to l end.
Cut(l) == CHOOSE c \in 0..Len(executionOrder) :
              {k \in DOMAIN executionOrder : Depth(k) <= l} = 1..c

\* The nodes at the places a + 1 to b.
Stretch(a, b) == [i \in 1..(b - a) |-> executionOrder[a + i]]

LEMMA CutIs ==
    ASSUME Accepted, NEW l \in Int
    PROVE  /\ Cut(l) \in 0..Len(executionOrder)
           /\ \A k \in DOMAIN executionOrder : Depth(k) <= l <=> k <= Cut(l)
<1> DEFINE N == Len(executionOrder)
           S == {k \in DOMAIN executionOrder : Depth(k) <= l}
<1>1. N \in Nat /\ DOMAIN executionOrder = 1..N
  BY AcceptedFacts
<1>2. ASSUME NEW b \in S, NEW a \in 1..b PROVE a \in S
  <2>1. a \in DOMAIN executionOrder /\ b \in DOMAIN executionOrder /\ a <= b /\ Depth(b) <= l
    BY <1>1, <1>2
  <2>2. Depth(a) <= Depth(b) /\ Depth(a) \in Nat /\ Depth(b) \in Nat
    BY <2>1, LevelsRise, DepthIs
  <2> QED BY <2>1, <2>2
<1>3. S \in SUBSET (1..N)
  BY <1>1
<1>4. \E c \in 0..N : S = 1..c
  <2> HIDE DEF S
  <2> QED BY <1>1, <1>2, <1>3, DownClosed
<1>5. Cut(l) \in 0..N /\ S = 1..Cut(l)
  <2>1. Cut(l) = CHOOSE c \in 0..N : S = 1..c
    BY DEF Cut
  <2> HIDE DEF S
  <2> QED BY <1>4, <2>1
<1>6. ASSUME NEW k \in DOMAIN executionOrder PROVE Depth(k) <= l <=> k <= Cut(l)
  <2>1. Depth(k) <= l <=> k \in S
    OBVIOUS
  <2>2. k \in Nat /\ k # 0
    BY <1>1
  <2> HIDE DEF S
  <2> QED BY <1>1, <1>5, <2>1, <2>2
<1> QED BY <1>5, <1>6

\* The wave of a level is the stretch of the order from the end of the levels below it.
LEMMA WaveIs ==
    ASSUME Accepted, NEW l \in Nat
    PROVE  Wave(l) = Stretch(Cut(l - 1), Cut(l)) /\ Cut(l - 1) <= Cut(l)
<1> DEFINE N == Len(executionOrder)
           a == Cut(l - 1)
           b == Cut(l)
           S == {k \in DOMAIN executionOrder : LevelOf(executionOrder[k]) = l}
<1>1. N \in Nat /\ DOMAIN executionOrder = 1..N
  BY AcceptedFacts
<1>2. /\ a \in 0..N /\ \A k \in DOMAIN executionOrder : Depth(k) <= l - 1 <=> k <= a
      /\ b \in 0..N /\ \A k \in DOMAIN executionOrder : Depth(k) <= l <=> k <= b
  BY CutIs
<1>3. \A k \in DOMAIN executionOrder : Depth(k) \in Nat
  BY DepthIs
<1> HIDE DEF a, b
<1>4. a <= b
  <2>1. CASE a = 0
    BY <1>2, <2>1
  <2>2. CASE a # 0
    <3>1. a \in DOMAIN executionOrder /\ a \in Int
      BY <1>1, <1>2, <2>2
    <3>2. Depth(a) <= l - 1 /\ Depth(a) \in Nat
      BY <1>2, <1>3, <3>1
    <3>3. Depth(a) <= l
      BY <3>2
    <3> QED BY <1>2, <3>1, <3>3
  <2> QED BY <2>1, <2>2
<1>5. S = (a + 1)..b
  <2>1. ASSUME NEW k \in 1..N PROVE Depth(k) = l <=> k \in (a + 1)..b
    <3>1. Depth(k) \in Nat
      BY <1>1, <1>3
    <3>2. (Depth(k) <= l - 1 <=> k <= a) /\ (Depth(k) <= l <=> k <= b)
      BY <1>1, <1>2
    <3> QED BY <1>2, <3>1, <3>2
  <2>2. (a + 1)..b \subseteq 1..N
    BY <1>1, <1>2
  <2>3. S = {k \in 1..N : Depth(k) = l}
    BY <1>1 DEF Depth
  <2> HIDE DEF S
  <2> QED BY <2>1, <2>2, <2>3
<1> DEFINE places == Ascending(S)
<1>6. places = [i \in 1..(b - a) |-> a + i]
  <2>1. Ascending((a + 1)..b) = [i \in 1..(b - a) |-> a + i]
    <3>1. a \in Int /\ b \in Int
      BY <1>2
    <3> QED BY <1>4, <3>1, AscendingRange
  <2> HIDE DEF S
  <2> QED BY <1>5, <2>1
<1>7. Wave(l) = [i \in DOMAIN places |-> executionOrder[places[i]]]
  BY DEF Wave
<1> HIDE DEF places, S
<1>8. DOMAIN places = 1..(b - a) /\ \A i \in 1..(b - a) : places[i] = a + i
  BY <1>6
<1>9. Wave(l) = Stretch(a, b)
  BY <1>7, <1>8 DEF Stretch
<1> QED BY <1>4, <1>9 DEF a, b

\* The levels in use are those from 0 to that of the last node: one wave for each.
LEMMA WavesAre ==
    ASSUME Accepted, executionOrder # <<>>
    PROVE  /\ Depth(Len(executionOrder)) \in Nat
           /\ Len(executionOrder) \in DOMAIN executionOrder
           /\ Waves = [i \in 1..(Depth(Len(executionOrder)) + 1) |->
                          Stretch(Cut(i - 2), Cut(i - 1))]
<1> DEFINE N == Len(executionOrder)
           M == Depth(N)
           S == {LevelOf(n) : n \in ToSet(executionOrder)}
<1>1. /\ N \in Nat /\ DOMAIN executionOrder = 1..N /\ N \in DOMAIN executionOrder
      /\ executionOrder \in Seq(NodeIds)
  <2>1. N \in Nat /\ DOMAIN executionOrder = 1..N /\ executionOrder \in Seq(NodeIds)
    BY AcceptedFacts
  <2>2. N # 0
    BY <2>1
  <2> QED BY <2>1, <2>2
<1>2. M \in Nat
  BY <1>1, DepthIs
<1>3. S = {Depth(k) : k \in DOMAIN executionOrder}
  BY DEF ToSet, Depth
<1>4. S = 0..M
  <2>1. ASSUME NEW k \in DOMAIN executionOrder PROVE Depth(k) \in 0..M
    <3>1. k <= N
      BY <1>1
    <3>2. Depth(k) <= M /\ Depth(k) \in Nat
      BY <1>1, <3>1, LevelsRise, DepthIs
    <3> QED BY <1>2, <3>2
  <2>2. \A l \in 0..M : \E k \in DOMAIN executionOrder : Depth(k) = l
    BY <1>1, NoGaps
  <2> HIDE DEF M, S
  <2> QED BY <1>3, <2>1, <2>2
<1> DEFINE used == Ascending(S)
<1>5. used = [i \in 1..(M + 1) |-> i - 1]
  <2> HIDE DEF M, S
  <2>1. -1 \in Int /\ M \in Int /\ -1 <= M /\ (-1) + 1 = 0 /\ M - (-1) = M + 1
    BY <1>2
  <2>2. Ascending(((-1) + 1)..M) = [i \in 1..(M - (-1)) |-> (-1) + i]
    BY <2>1, AscendingRange
  <2>3. Ascending(0..M) = [i \in 1..(M + 1) |-> (-1) + i]
    BY <2>1, <2>2
  <2>4. \A i \in 1..(M + 1) : (-1) + i = i - 1
    OBVIOUS
  <2> QED BY <1>4, <2>3, <2>4
<1>6. Waves = [i \in DOMAIN used |-> Wave(used[i])]
  BY DEF Waves
<1> HIDE DEF used, S, M
<1>7. ASSUME NEW i \in 1..(M + 1) PROVE Wave(used[i]) = Stretch(Cut(i - 2), Cut(i - 1))
  <2>1. i - 1 \in Nat /\ (i - 1) - 1 = i - 2 /\ used[i] = i - 1
    BY <1>2, <1>5
  <2>2. Wave(i - 1) = Stretch(Cut((i - 1) - 1), Cut(i - 1))
    BY <2>1, WaveIs
  <2> QED BY <2>1, <2>2
<1>8. DOMAIN used = 1..(M + 1)
  BY <1>5
<1>9. Waves = [i \in 1..(M + 1) |-> Stretch(Cut(i - 2), Cut(i - 1))]
  BY <1>6, <1>7, <1>8
<1> QED BY <1>1, <1>2, <1>9 DEF M

LEMMA StretchesMeet ==
    ASSUME NEW a \in Nat, NEW b \in Nat, a <= b
    PROVE  Stretch(0, a) \o Stretch(a, b) = Stretch(0, b)
<1> DEFINE s == Stretch(0, a)
           t == Stretch(a, b)
           r == Stretch(0, b)
           S == {executionOrder[i] : i \in 1..b}
<1>1. /\ a - 0 = a /\ b - 0 = b /\ b - a \in Nat
      /\ \A i \in 1..b : 0 + i = i
      /\ \A i \in 1..(b - a) : a + i \in 1..b
      /\ 1..a \subseteq 1..b
  OBVIOUS
<1>2. s = [i \in 1..a |-> executionOrder[i]]
  BY <1>1 DEF Stretch
<1>3. r = [i \in 1..b |-> executionOrder[i]]
  BY <1>1 DEF Stretch
<1>4. t = [i \in 1..(b - a) |-> executionOrder[a + i]]
  BY DEF Stretch
<1>5. s \in Seq(S) /\ Len(s) = a
  BY <1>1, <1>2
<1>6. t \in Seq(S) /\ Len(t) = b - a
  BY <1>1, <1>4
<1> HIDE DEF s, t, r, S
<1>7. /\ s \o t \in Seq(S) /\ Len(s \o t) = b
      /\ \A i \in 1..b : (s \o t)[i] = IF i <= a THEN s[i] ELSE t[i - a]
  BY <1>1, <1>5, <1>6
<1>8. ASSUME NEW i \in 1..b PROVE (s \o t)[i] = executionOrder[i]
  <2>1. CASE i <= a
    BY <1>2, <1>7, <2>1
  <2>2. CASE ~(i <= a)
    <3>1. i - a \in 1..(b - a) /\ a + (i - a) = i
      BY <2>2
    <3> QED BY <1>4, <1>7, <2>2, <3>1
  <2> QED BY <2>1, <2>2
<1>9. s \o t = [i \in 1..b |-> (s \o t)[i]]
  <2> DEFINE st == s \o t
  <2>1. st \in Seq(S) /\ Len(st) = b
    BY <1>7
  <2> HIDE DEF st
  <2>2. st = [i \in 1..b |-> st[i]]
    BY <2>1
  <2> QED BY <2>2 DEF st
<1> QED BY <1>3, <1>8, <1>9 DEF s, t, r

\* Put one after the other, the waves up to a level are the order up to the end of it.
LEMMA FlatWaves ==
    ASSUME Accepted, executionOrder # <<>>
    PROVE  FlattenSeq(Waves) = Stretch(0, Cut(Depth(Len(executionOrder))))
<1> DEFINE w == Waves
           n == Depth(Len(executionOrder)) + 1
           f(i) == Stretch(0, Cut(i - 1))
           h == [i \in 1..n |-> f(i)]
           Next1(g) == [i \in 1..n |-> IF i = 1 THEN w[i] ELSE g[i - 1] \o w[i]]
           Bad(g) == {i \in 1..n : g[i] # f(i)}
<1>1. n \in Nat \ {0} /\ w = [i \in 1..n |-> Stretch(Cut(i - 2), Cut(i - 1))]
  BY WavesAre
<1>2. Len(w) = n
  <2>1. w \in Seq({Stretch(Cut(i - 2), Cut(i - 1)) : i \in 1..n})
    <3> DEFINE wave(i) == Stretch(Cut(i - 2), Cut(i - 1))
               R == {wave(i) : i \in 1..n}
    <3>1. \A i \in 1..n : wave(i) \in R
      OBVIOUS
    <3>2. n \in Nat /\ w = [i \in 1..n |-> wave(i)]
      BY <1>1
    <3> HIDE DEF w, n, wave, R
    <3>3. w \in Seq(R)
      BY <3>1, <3>2
    <3> QED BY <3>3 DEF R, wave
  <2> HIDE DEF w, n
  <2> QED BY <1>1, <2>1
<1> HIDE DEF w, n
<1>3. Cut(-1) = 0
  <2>1. /\ Cut(-1) \in 0..Len(executionOrder)
        /\ \A k \in DOMAIN executionOrder : Depth(k) <= -1 <=> k <= Cut(-1)
    BY CutIs
  <2>2. /\ DOMAIN executionOrder = 1..Len(executionOrder) /\ Len(executionOrder) \in Nat
        /\ \A k \in DOMAIN executionOrder : Depth(k) \in Nat
    BY AcceptedFacts, DepthIs
  <2>3. Cut(-1) \in DOMAIN executionOrder => Depth(Cut(-1)) <= -1
    BY <2>1
  <2> QED BY <2>1, <2>2, <2>3
<1>4. f(1) = w[1]
  <2>1. w[1] = Stretch(Cut(1 - 2), Cut(1 - 1))
    BY <1>1
  <2>2. 1 - 2 = -1
    OBVIOUS
  <2> QED BY <1>3, <2>1, <2>2
<1>5. ASSUME NEW i \in 1..n, i # 1
      PROVE  i - 1 \in 1..n /\ f(i) = f(i - 1) \o w[i]
  <2>1. /\ i - 1 \in Nat /\ i - 1 \in Int /\ i - 2 \in Int
        /\ i - 2 = (i - 1) - 1 /\ i - 1 \in 1..n
    BY <1>1, <1>5
  <2>2. Cut((i - 1) - 1) <= Cut(i - 1)
    BY <2>1, WaveIs
  <2>3. Cut(i - 1) \in 0..Len(executionOrder) /\ Cut(i - 2) \in 0..Len(executionOrder)
    BY <2>1, CutIs
  <2>4. Cut(i - 1) \in Nat /\ Cut(i - 2) \in Nat
    BY <2>3
  <2>5. Stretch(0, Cut(i - 2)) \o Stretch(Cut(i - 2), Cut(i - 1)) = Stretch(0, Cut(i - 1))
    BY <2>1, <2>2, <2>4, StretchesMeet
  <2>6. w[i] = Stretch(Cut(i - 2), Cut(i - 1)) /\ f(i - 1) = Stretch(0, Cut(i - 2))
    BY <1>1, <2>1
  <2> QED BY <2>1, <2>5, <2>6
<1>6. h = Next1(h)
  <2>1. ASSUME NEW i \in 1..n
        PROVE  h[i] = IF i = 1 THEN w[i] ELSE h[i - 1] \o w[i]
    <3>1. h[i] = f(i)
      OBVIOUS
    <3>2. i # 1 => h[i - 1] = f(i - 1)
      BY <1>5
    <3> HIDE DEF h, f
    <3> QED BY <1>4, <1>5, <3>1, <3>2
  <2>2. h = [i \in 1..n |-> h[i]]
    OBVIOUS
  <2> HIDE DEF h, f
  <2> QED BY <2>1, <2>2
<1> DEFINE g == CHOOSE flatten : flatten = Next1(flatten)
<1>7. g = Next1(g)
  <2> HIDE DEF h, Next1
  <2> QED BY <1>6
<1>8. FlattenSeq(w) = g[n]
  BY <1>1, <1>2 DEF FlattenSeq
<1>9. \A i \in 1..n : g[i] = IF i = 1 THEN w[i] ELSE g[i - 1] \o w[i]
  <2>1. \A i \in 1..n : Next1(g)[i] = IF i = 1 THEN w[i] ELSE g[i - 1] \o w[i]
    OBVIOUS
  <2> HIDE DEF g, Next1
  <2> QED BY <1>7, <2>1
<1> HIDE DEF g
<1>10. Bad(g) = {}
  <2> SUFFICES ASSUME Bad(g) # {} PROVE FALSE
    OBVIOUS
  <2>1. PICK m \in Bad(g) : \A l \in Bad(g) : m <= l
    <3>1. Bad(g) \in SUBSET Nat
      BY <1>1
    <3> HIDE DEF Bad
    <3> QED BY <3>1, LeastNumber
  <2>2. m \in 1..n /\ g[m] # f(m)
    OBVIOUS
  <2>3. m # 1
    BY <1>4, <1>9, <2>2
  <2>4. m - 1 \in 1..n /\ f(m) = f(m - 1) \o w[m]
    BY <1>5, <2>2, <2>3
  <2>5. m - 1 \notin Bad(g)
    <3> HIDE DEF Bad
    <3> QED BY <1>1, <2>1, <2>2
  <2>6. g[m - 1] = f(m - 1)
    BY <2>4, <2>5
  <2> HIDE DEF f, Bad
  <2> QED BY <1>9, <2>2, <2>3, <2>4, <2>6
<1>11. g[n] = f(n)
  <2>1. n \in 1..n
    BY <1>1
  <2> HIDE DEF f
  <2> QED BY <1>10, <2>1
<1>12. f(n) = Stretch(0, Cut(Depth(Len(executionOrder))))
  <2>1. Depth(Len(executionOrder)) \in Nat
    BY WavesAre
  <2>2. n - 1 = Depth(Len(executionOrder))
    BY <2>1 DEF n
  <2> QED BY <2>2
<1> HIDE DEF f
<1> QED BY <1>8, <1>11, <1>12 DEF w

LEMMA WavesKeep ==
    ASSUME Accepted
    PROVE  FlattenSeq(Waves) = executionOrder
<1> DEFINE N == Len(executionOrder)
<1>1. /\ N \in Nat /\ DOMAIN executionOrder = 1..N /\ executionOrder \in Seq(NodeIds)
  BY AcceptedFacts
<1>2. CASE executionOrder = <<>>
  <2>1. {LevelOf(n) : n \in ToSet(executionOrder)} = {}
    BY <1>2 DEF ToSet
  <2>2. Ascending({}) = <<>>
    <3>1. Cardinality({}) = 0
      BY FS_EmptySet
    <3>2. \A f \in [1..0 -> {}] : f = <<>>
      OBVIOUS
    <3>3. <<>> \in [1..0 -> {}] /\ \A i, j \in DOMAIN <<>> : i < j => <<>>[i] < <<>>[j]
      OBVIOUS
    <3>4. \E f \in [1..0 -> {}] : \A i, j \in DOMAIN f : i < j => f[i] < f[j]
      BY <3>3
    <3>5. Ascending({}) \in [1..0 -> {}]
      BY <3>1, <3>4 DEF Ascending
    <3> QED BY <3>2, <3>5
  <2>3. DOMAIN Ascending({}) = 1..0
    BY <2>2
  <2>4. Waves = [i \in 1..0 |-> Wave(Ascending({})[i])]
    BY <2>1, <2>3 DEF Waves
  <2>5. Waves = <<>>
    <3> HIDE DEF Wave, Ascending
    <3> QED BY <2>4
  <2>6. FlattenSeq(<<>>) = <<>>
    BY DEF FlattenSeq
  <2> QED BY <1>2, <2>5, <2>6
<1>3. CASE executionOrder # <<>>
  <2>1. Depth(N) \in Nat /\ N \in DOMAIN executionOrder
    BY <1>3, WavesAre
  <2>2. Cut(Depth(N)) \in 0..N /\ N <= Cut(Depth(N))
    BY <2>1, CutIs
  <2>3. Cut(Depth(N)) = N
    BY <1>1, <2>2
  <2>4. Stretch(0, N) = executionOrder
    <3>1. N - 0 = N /\ \A i \in 1..N : 0 + i = i
      BY <1>1
    <3>2. Stretch(0, N) = [i \in 1..N |-> executionOrder[i]]
      BY <3>1 DEF Stretch
    <3> QED BY <1>1, <3>2
  <2> QED BY <1>3, <2>3, <2>4, FlatWaves
<1> QED BY <1>2, <1>3

\* The wave of a node is that of its level.
LEMMA WaveOfIs ==
    ASSUME Accepted, NEW n \in NodeIds
    PROVE  WaveOf(n) = LevelOf(n) + 1
<1> DEFINE N == Len(executionOrder)
           M == Depth(N)
<1>1. /\ N \in Nat /\ DOMAIN executionOrder = 1..N /\ Elements(executionOrder) = NodeIds
      /\ NoneTwice(executionOrder)
  BY AcceptedFacts
<1>2. PICK k \in DOMAIN executionOrder : executionOrder[k] = n
  BY <1>1 DEF Elements
<1>3. executionOrder # <<>>
  BY <1>2
<1>4. /\ M \in Nat /\ N \in DOMAIN executionOrder
      /\ Waves = [i \in 1..(M + 1) |-> Stretch(Cut(i - 2), Cut(i - 1))]
  BY <1>3, WavesAre
<1>5. k \in Nat /\ Depth(k) \in Nat /\ LevelOf(n) = Depth(k)
  BY <1>1, <1>2, DepthIs DEF Depth
<1>6. Depth(k) + 1 \in 1..(M + 1)
  <2>1. k <= N
    BY <1>1, <1>2
  <2>2. Depth(k) <= M
    BY <1>2, <1>4, <2>1, LevelsRise
  <2> HIDE DEF M
  <2> QED BY <1>4, <1>5, <2>2
<1> HIDE DEF M
<1>7. ASSUME NEW i \in 1..(M + 1)
      PROVE  Contains(Waves[i], n) <=> i = Depth(k) + 1
  <2> DEFINE a == Cut(i - 2)
             b == Cut(i - 1)
  <2>1. /\ a \in 0..N /\ b \in 0..N /\ a <= b
        /\ Depth(k) <= i - 2 <=> k <= a
        /\ Depth(k) <= i - 1 <=> k <= b
    <3>1. i - 1 \in Nat /\ i - 2 \in Int /\ i - 1 \in Int /\ (i - 1) - 1 = i - 2
      BY <1>4
    <3>2. Cut((i - 1) - 1) <= Cut(i - 1)
      BY <3>1, WaveIs
    <3>3. a \in 0..N /\ b \in 0..N
      BY <3>1, CutIs
    <3>4. (Depth(k) <= i - 2 <=> k <= a) /\ (Depth(k) <= i - 1 <=> k <= b)
      BY <1>2, <3>1, CutIs
    <3> QED BY <3>1, <3>2, <3>3, <3>4
  <2> HIDE DEF a, b
  <2>2. Waves[i] = [h \in 1..(b - a) |-> executionOrder[a + h]]
    BY <1>4 DEF Stretch, a, b
  <2>3. Len(Waves[i]) = b - a
    <3>1. b - a \in Nat
      BY <2>1
    <3>2. Waves[i] \in Seq({executionOrder[a + h] : h \in 1..(b - a)})
      BY <2>2, <3>1
    <3> QED BY <2>2, <3>1, <3>2
  <2>4. Contains(Waves[i], n) <=> \E h \in 1..(b - a) : executionOrder[a + h] = n
    BY <2>2, <2>3 DEF Contains
  <2>5. \A h \in 1..(b - a) : executionOrder[a + h] = n <=> a + h = k
    <3>1. \A h \in 1..(b - a) : a + h \in DOMAIN executionOrder
      BY <1>1, <2>1
    <3> QED BY <1>1, <1>2, <3>1 DEF NoneTwice
  <2>6. (\E h \in 1..(b - a) : a + h = k) <=> (~(k <= a) /\ k <= b)
    <3>1. ASSUME ~(k <= a), k <= b PROVE k - a \in 1..(b - a) /\ a + (k - a) = k
      BY <1>5, <2>1, <3>1
    <3>2. ASSUME NEW h \in 1..(b - a), a + h = k PROVE ~(k <= a) /\ k <= b
      BY <2>1, <3>2
    <3> QED BY <3>1, <3>2
  <2>7. (~(k <= a) /\ k <= b) <=> i = Depth(k) + 1
    BY <1>4, <1>5, <2>1
  <2> QED BY <2>4, <2>5, <2>6, <2>7
<1>8. DOMAIN Waves = 1..(M + 1)
  BY <1>4
<1>9. WaveOf(n) = CHOOSE i \in 1..(M + 1) : Contains(Waves[i], n)
  BY <1>8 DEF WaveOf
<1>10. (CHOOSE i \in 1..(M + 1) : Contains(Waves[i], n)) = Depth(k) + 1
  BY <1>6, <1>7
<1> QED BY <1>5, <1>9, <1>10

LEMMA WavesReady ==
    ASSUME Accepted, NEW n \in NodeIds
    PROVE  WaveOf(n) = Max({0} \cup {WaveOf(p) : p \in ParentsOf(n)}) + 1
<1> DEFINE S == {0} \cup {WaveOf(p) : p \in ParentsOf(n)}
           l == LevelOf(n)
<1>1. ParentsOf(n) \subseteq NodeIds
  BY AcceptedFacts
<1>2. \A p \in ParentsOf(n) : WaveOf(p) = LevelOf(p) + 1 /\ LevelOf(p) \in Nat
  BY <1>1, WaveOfIs, LevelOfIs
<1>3. /\ l \in Nat /\ \A p \in ParentsOf(n) : LevelOf(p) + 1 <= l
      /\ l = 0 \/ \E p \in ParentsOf(n) : l = LevelOf(p) + 1
  BY LevelOfIs
<1>4. WaveOf(n) = l + 1
  BY WaveOfIs
<1> HIDE DEF l
<1>5. S \subseteq Int /\ l \in S /\ \A y \in S : y <= l
  BY <1>2, <1>3
<1>6. Max(S) = l
  <2> HIDE DEF S
  <2>1. \A y \in S : l >= y
    BY <1>3, <1>5
  <2>2. Max(S) \in S /\ \A y \in S : Max(S) >= y
    BY <1>5, <2>1 DEF Max
  <2>3. Max(S) \in Int /\ l \in Int /\ Max(S) <= l /\ l <= Max(S)
    BY <1>3, <1>5, <2>2
  <2> QED BY <2>3
<1> QED BY <1>4, <1>6

LEMMA LineInvHolds == DagSpec => [](DagInv /\ LineInv)
<1>1. DagInit => LineInv
  BY DEF DagInit, LineInv
<1>2. DagInv /\ LineInv /\ [DagNext]_dagVars => LineInv'
  BY LineStep
<1> QED BY <1>1, <1>2, DagInvHolds, PTL DEF DagSpec

\* For every list of nodes and of edges that validateDAG accepts: the waves that
\* buildExecutionWaves makes of the order, one after the other, are the order.
THEOREM WavesKeepTheOrderHolds ==
    DagSpec => []WavesKeepTheOrder
<1>1. DagInv /\ LineInv => WavesKeepTheOrder
  BY WavesKeep DEF WavesKeepTheOrder, Accepted
<1> QED BY <1>1, LineInvHolds, PTL

\* For every list of nodes and of edges that validateDAG accepts: the wave of a node is
\* the one after the last wave of its parents.
THEOREM WavesAreReadyHolds ==
    DagSpec => []WavesAreReady
<1>1. DagInv /\ LineInv => WavesAreReady
  BY WavesReady DEF WavesAreReady, Accepted
<1> QED BY <1>1, LineInvHolds, PTL

(***************************************************************************)
(* The validation cannot go on for ever either, whatever cycles the graph  *)
(* has: a step goes to a later phase, or leaves less of its loop.          *)
(***************************************************************************)
PhasesLeft ==
    CASE phase = "edges" -> 3 [] phase = "seed" -> 2 [] phase = "sort" -> 1 [] phase = "done" -> 0

LoopLeft ==
    CASE phase = "edges" -> Len(edges) + 1 - next
      [] phase = "seed"  -> Len(NodeList) + 1 - next
      [] phase = "sort"  -> Len(NodeList) - Len(executionOrder)
      [] phase = "done"  -> 0

ComesToAnAnswer ==
    \/ PhasesLeft' < PhasesLeft
    \/ PhasesLeft' = PhasesLeft /\ LoopLeft' < LoopLeft
    \/ PhasesLeft' = PhasesLeft /\ LoopLeft' = LoopLeft /\ Len(neighbors') < Len(neighbors)

WithinNodes == phase = "seed" => next <= Len(NodeList) + 1

LEMMA LoopLeftIs ==
    /\ phase = "edges" => PhasesLeft = 3 /\ LoopLeft = Len(edges) + 1 - next
    /\ phase = "seed"  => PhasesLeft = 2 /\ LoopLeft = Len(NodeList) + 1 - next
    /\ phase = "sort"  => PhasesLeft = 1 /\ LoopLeft = Len(NodeList) - Len(executionOrder)
    /\ phase = "done"  => PhasesLeft = 0 /\ LoopLeft = 0
  BY DEF PhasesLeft, LoopLeft

LEMMA LoopLeftNext ==
    /\ phase' = "edges" => PhasesLeft' = 3 /\ LoopLeft' = Len(edges') + 1 - next'
    /\ phase' = "seed"  => PhasesLeft' = 2 /\ LoopLeft' = Len(NodeList) + 1 - next'
    /\ phase' = "sort"  => PhasesLeft' = 1 /\ LoopLeft' = Len(NodeList) - Len(executionOrder')
    /\ phase' = "done"  => PhasesLeft' = 0 /\ LoopLeft' = 0
  BY DEF PhasesLeft, LoopLeft

\* No more nodes are taken than there are.
LEMMA LoopLeftIsNat ==
    ASSUME DagInv, WithinNodes
    PROVE  PhasesLeft \in Nat /\ LoopLeft \in Nat /\ Len(neighbors) \in Nat
<1>1. /\ DagTypes
      /\ phase \in {"edges", "seed", "sort", "done"} /\ next \in Nat /\ Len(edges) \in Nat
      /\ Len(executionOrder) \in Nat /\ Len(neighbors) \in Nat /\ Len(NodeList) \in Nat
  BY GraphAssumption DEF DagInv, DagTypes
<1>2. phase = "edges" => next <= Len(edges) + 1
  BY DEF DagInv, Sorting, Listed
<1>3. phase = "sort" => Len(executionOrder) <= Len(NodeList)
  <2> SUFFICES ASSUME phase = "sort" PROVE Len(executionOrder) <= Len(NodeList)
    OBVIOUS
  <2>1. executionOrder \in Seq(NodeIds) /\ NoneTwice(executionOrder)
    BY <1>1 DEF DagInv, DagTypes, Sorting, Free
  <2>2. /\ IsFiniteSet(Elements(executionOrder))
        /\ Cardinality(Elements(executionOrder)) = Len(executionOrder)
    BY <2>1, CountElements
  <2>3. Elements(executionOrder) \in SUBSET NodeIds
    BY <2>1 DEF Elements
  <2>4. Cardinality(Elements(executionOrder)) <= Cardinality(NodeIds)
    BY <2>3, NodesFinite, FS_Subset
  <2> QED BY <2>2, <2>4, NodesFinite
<1> QED BY <1>1, <1>2, <1>3, LoopLeftIs DEF WithinNodes

LEMMA AnswerStep ==
    ASSUME DagInv, WithinNodes, DagNext
    PROVE  WithinNodes' /\ ComesToAnAnswer
<1>1. /\ DagTypes
      /\ phase \in {"edges", "seed", "sort", "done"} /\ next \in Nat /\ Len(edges) \in Nat
      /\ Len(executionOrder) \in Nat /\ Len(neighbors) \in Nat /\ Len(NodeList) \in Nat
  BY GraphAssumption DEF DagInv, DagTypes
<1>2. CASE ReadEdge
  <2>1. phase = "edges" /\ phase' = "edges" /\ next' = next + 1 /\ edges' = edges
    BY <1>2 DEF ReadEdge
  <2> QED BY <1>1, <2>1, LoopLeftIs, LoopLeftNext DEF WithinNodes, ComesToAnAnswer
<1>3. CASE CheckEdges
  <2>1. phase = "edges" /\ phase' \in {"seed", "done"} /\ next' = 1
    BY <1>3 DEF CheckEdges
  <2> QED BY <1>1, <2>1, LoopLeftIs, LoopLeftNext DEF WithinNodes, ComesToAnAnswer
<1>4. CASE Seed
  <2>1. phase = "seed" /\ phase' = "seed" /\ next' = next + 1 /\ next <= Len(NodeList)
    BY <1>4 DEF Seed
  <2> QED BY <1>1, <2>1, LoopLeftIs, LoopLeftNext DEF WithinNodes, ComesToAnAnswer
<1>5. CASE Sort
  <2>1. phase = "seed" /\ phase' = "sort"
    BY <1>5 DEF Sort
  <2> QED BY <2>1, LoopLeftIs, LoopLeftNext DEF WithinNodes, ComesToAnAnswer
<1>6. CASE Shift
  <2>1. /\ phase = "sort" /\ phase' = "sort" /\ queue # <<>>
        /\ executionOrder' = Append(executionOrder, Head(queue))
    BY <1>6 DEF Shift
  <2>2. Len(executionOrder') = Len(executionOrder) + 1
    BY <1>1, <2>1 DEF DagTypes
  <2> QED BY <1>1, <2>1, <2>2, LoopLeftIs, LoopLeftNext DEF WithinNodes, ComesToAnAnswer
<1>7. CASE Relax
  <2>1. /\ neighbors # <<>> /\ neighbors' = Tail(neighbors)
        /\ phase' = phase /\ executionOrder' = executionOrder
    BY <1>7 DEF Relax
  <2>2. phase = "sort"
    BY <2>1 DEF DagInv
  <2>3. Len(neighbors') < Len(neighbors)
    BY <1>1, <2>1 DEF DagTypes
  <2> QED BY <2>1, <2>2, <2>3, LoopLeftIs, LoopLeftNext DEF WithinNodes, ComesToAnAnswer
<1>8. CASE Finish
  <2>1. phase = "sort" /\ phase' = "done"
    BY <1>8 DEF Finish
  <2> QED BY <2>1, LoopLeftIs, LoopLeftNext DEF WithinNodes, ComesToAnAnswer
<1> QED BY <1>2, <1>3, <1>4, <1>5, <1>6, <1>7, <1>8 DEF DagNext

\* Each step of validateDAG leaves fewer phases, or fewer turns of the phase's loop, or
\* fewer edges of the current node, all of them natural numbers: also a graph with
\* cycles, loops and repeated edges is answered after finitely many steps.
THEOREM ValidationDescends ==
    DagSpec => /\ [](PhasesLeft \in Nat /\ LoopLeft \in Nat /\ Len(neighbors) \in Nat)
               /\ [][ComesToAnAnswer]_dagVars
<1> DEFINE Inv == DagInv /\ WithinNodes
<1>1. DagInit => Inv
  BY DagBegin DEF DagInit, WithinNodes
<1>2. DagInv /\ [DagNext]_dagVars => DagInv'
  BY ReadEdgeStep, CheckEdgesStep, SeedStep, SortStep, ShiftStep, RelaxStep, FinishStep,
     StutterStep DEF DagNext
<1>3. Inv /\ [DagNext]_dagVars => WithinNodes'
  <2>1. ASSUME Inv, UNCHANGED dagVars PROVE WithinNodes'
    BY <2>1 DEF dagVars, WithinNodes
  <2> QED BY <2>1, AnswerStep
<1>4. Inv => PhasesLeft \in Nat /\ LoopLeft \in Nat /\ Len(neighbors) \in Nat
  BY LoopLeftIsNat
<1>5. Inv /\ [DagNext]_dagVars => [ComesToAnAnswer]_dagVars
  BY AnswerStep
<1> QED BY <1>1, <1>2, <1>3, <1>4, <1>5, PTL DEF DagSpec

(***************************************************************************)
(* The walk cannot go on for ever.  Every step leaves fewer nodes, or as   *)
(* many and less of the current one's turn.                                *)
(***************************************************************************)
NodesLeft == NumNodes - current

\* Attempts count twice: for the attempt itself and for what the catch block makes of it.
TurnLeft ==
    CASE pc = "start"    -> 2 * Policy.maxAttempts + 5
      [] pc = "resolve"  -> 2 * Policy.maxAttempts + 4
      [] pc = "caught"   -> 2 * (Policy.maxAttempts - attempt) + 3
      [] pc = "attempt"  -> 2 * (Policy.maxAttempts - attempt) + 2
      [] pc = "skipHook" -> 3
      [] pc = "record"   -> 2
      [] pc \in {"plan", "skipRest"} -> 1
      [] pc = "done"     -> 0

Descends ==
    \/ NodesLeft' < NodesLeft
    \/ NodesLeft' = NodesLeft /\ TurnLeft' < TurnLeft

WithinAttempts == pc = "caught" => attempt <= Policy.maxAttempts

\* The value of TurnLeft at each point.
LEMMA TurnLeftIs ==
    /\ pc = "start"    => TurnLeft = 2 * Policy.maxAttempts + 5
    /\ pc = "resolve"  => TurnLeft = 2 * Policy.maxAttempts + 4
    /\ pc = "caught"   => TurnLeft = 2 * (Policy.maxAttempts - attempt) + 3
    /\ pc = "attempt"  => TurnLeft = 2 * (Policy.maxAttempts - attempt) + 2
    /\ pc = "skipHook" => TurnLeft = 3
    /\ pc = "record"   => TurnLeft = 2
    /\ pc \in {"plan", "skipRest"} => TurnLeft = 1
    /\ pc = "done"     => TurnLeft = 0
  BY DEF TurnLeft

LEMMA TurnLeftNext ==
    /\ pc' = "start"    => TurnLeft' = 2 * Policy'.maxAttempts + 5
    /\ pc' = "resolve"  => TurnLeft' = 2 * Policy'.maxAttempts + 4
    /\ pc' = "caught"   => TurnLeft' = 2 * (Policy'.maxAttempts - attempt') + 3
    /\ pc' = "attempt"  => TurnLeft' = 2 * (Policy'.maxAttempts - attempt') + 2
    /\ pc' = "skipHook" => TurnLeft' = 3
    /\ pc' = "record"   => TurnLeft' = 2
    /\ pc' \in {"plan", "skipRest"} => TurnLeft' = 1
    /\ pc' = "done"     => TurnLeft' = 0
  BY DEF TurnLeft

LEMMA LeftIsNat ==
    ASSUME TypeInv, WithinAttempts
    PROVE  NodesLeft \in Nat /\ TurnLeft \in Nat
<1>1. NodesLeft \in Nat
  BY SizeType DEF TypeInv, TypeOK, NodesLeft
<1>2. pc \in Points /\ attempt \in Nat /\ (pc = "attempt" => attempt < Policy.maxAttempts)
  BY TypeNames DEF TypeInv, Types
<1>3. pc \in {"start", "resolve", "attempt", "caught"} => Policy.maxAttempts \in Nat
  BY PolicyType DEF TypeInv, Turn
<1>4. TurnLeft \in Nat
  BY <1>2, <1>3, TurnLeftIs DEF Points, WithinAttempts
<1> QED BY <1>1, <1>4

LEMMA DescendStep ==
    ASSUME TypeInv, WithinAttempts, Next
    PROVE  WithinAttempts' /\ Descends
<1>1. /\ pc \in Points /\ attempt \in Nat /\ current \in 0..NumNodes /\ NumNodes \in Nat
      /\ pc = "attempt" => attempt < Policy.maxAttempts
      /\ pc \in {"start", "resolve"} => attempt = 0
  BY TypeNames, SizeType DEF TypeInv, Types, Turn
<1>2. pc \notin {"plan", "done"} =>
         /\ current \in Nodes
         /\ Policy.maxAttempts \in Nat /\ Policy.maxAttempts > 0
  BY PolicyType DEF TypeInv, Turn
<1>3. wf' = wf
  BY DEF Next, Plan, Reject, StepStart, Refuse, SkipNode, SkipHook, Resolve, Succeed, AskRetry,
         AttemptThrows, RunControl, AttemptError, Record, SkipRest
<1>4. current' = current => NodesLeft' = NodesLeft /\ Policy' = Policy
  BY <1>3 DEF NodesLeft, Policy
<1>5. current' = current + 1 => NodesLeft' < NodesLeft
  BY <1>1 DEF NodesLeft
<1>6. ASSUME Advance, pc # "done"
      PROVE  WithinAttempts' /\ Descends
  <2>1. CASE current = NumNodes
    <3>1. pc' = "done" /\ current' = current
      BY <1>6, <2>1 DEF Advance
    <3>2. TurnLeft' = 0 /\ TurnLeft \in Nat /\ TurnLeft # 0
      BY <1>1, <1>2, <1>6, <3>1, TurnLeftIs, TurnLeftNext DEF Points, WithinAttempts
    <3> QED BY <1>4, <3>1, <3>2 DEF WithinAttempts, Descends
  <2>2. CASE current # NumNodes
    <3>1. pc' = "start" /\ current' = current + 1
      BY <1>6, <2>2 DEF Advance
    <3> QED BY <1>5, <3>1 DEF WithinAttempts, Descends
  <2> QED BY <2>1, <2>2
<1>7. CASE Plan
  BY <1>6, <1>7 DEF Plan
<1>8. CASE Reject
  <2>1. pc = "plan" /\ pc' = "done" /\ current' = current
    BY <1>8 DEF Reject
  <2> QED BY <1>4, <2>1, TurnLeftIs, TurnLeftNext DEF WithinAttempts, Descends
<1>9. CASE StepStart
  <2>1. pc = "start" /\ pc' \in {"resolve", "done"} /\ current' = current
    BY <1>9 DEF StepStart, Abort
  <2>2. TurnLeft' < TurnLeft
    BY <1>2, <1>4, <2>1, TurnLeftIs, TurnLeftNext
  <2> QED BY <1>4, <2>1, <2>2 DEF WithinAttempts, Descends
<1>10. CASE Refuse
  <2>1. pc = "resolve" /\ pc' = "record" /\ current' = current
    BY <1>10 DEF Refuse, FailNode
  <2>2. TurnLeft' < TurnLeft
    BY <1>2, <2>1, TurnLeftIs, TurnLeftNext
  <2> QED BY <1>4, <2>1, <2>2 DEF WithinAttempts, Descends
<1>11. CASE SkipNode
  <2>1. pc = "resolve" /\ pc' = "skipHook" /\ current' = current
    BY <1>11 DEF SkipNode
  <2>2. TurnLeft' < TurnLeft
    BY <1>2, <2>1, TurnLeftIs, TurnLeftNext
  <2> QED BY <1>4, <2>1, <2>2 DEF WithinAttempts, Descends
<1>12. CASE SkipHook
  <2>1. CASE Advance
    BY <1>6, <1>12, <2>1 DEF SkipHook
  <2>2. CASE FailNode(control) /\ UNCHANGED <<current, attempt, attempts>>
    <3>1. pc = "skipHook" /\ pc' = "record" /\ current' = current
      BY <1>12, <2>2 DEF SkipHook, FailNode
    <3> QED BY <1>4, <3>1, TurnLeftIs, TurnLeftNext DEF WithinAttempts, Descends
  <2> QED BY <1>12, <2>1, <2>2 DEF SkipHook
<1>13. CASE Resolve
  <2>1. pc = "resolve" /\ pc' = "attempt" /\ current' = current /\ attempt' = attempt
    BY <1>13 DEF Resolve
  <2>2. TurnLeft' < TurnLeft
    BY <1>1, <1>2, <1>4, <2>1, TurnLeftIs, TurnLeftNext
  <2> QED BY <1>4, <2>1, <2>2 DEF WithinAttempts, Descends
<1>14. CASE Succeed \/ RunControl
  <2>1. pc = "attempt" /\ pc' = "record" /\ current' = current
    BY <1>14 DEF Succeed, RunControl, Executed
  <2>2. TurnLeft' < TurnLeft
    BY <1>1, <1>2, <2>1, TurnLeftIs, TurnLeftNext
  <2> QED BY <1>4, <2>1, <2>2 DEF WithinAttempts, Descends
<1>15. CASE AskRetry \/ AttemptThrows
  <2>1. /\ pc = "attempt" /\ pc' \in {"attempt", "caught"} /\ current' = current
        /\ attempt' = attempt + 1
    BY <1>15 DEF AskRetry, AttemptThrows, Executed
  <2>2. TurnLeft' < TurnLeft
    BY <1>1, <1>2, <1>4, <2>1, TurnLeftIs, TurnLeftNext
  <2>3. attempt' <= Policy'.maxAttempts
    BY <1>1, <1>2, <1>4, <2>1
  <2> QED BY <1>4, <2>1, <2>2, <2>3 DEF WithinAttempts, Descends
<1>16. CASE AttemptError
  <2>1. pc = "caught" /\ pc' \in {"attempt", "record"} /\ current' = current /\ attempt' = attempt
    BY <1>16 DEF AttemptError, FailNode
  <2>2. TurnLeft' < TurnLeft
    BY <1>1, <1>2, <1>4, <2>1, TurnLeftIs, TurnLeftNext DEF WithinAttempts
  <2> QED BY <1>4, <2>1, <2>2 DEF WithinAttempts, Descends
<1>17. CASE Record
  <2>1. CASE Advance
    BY <1>6, <1>17, <2>1 DEF Record
  <2>2. CASE ~Advance
    <3>1. pc = "record" /\ pc' \in {"skipRest", "done"} /\ current' = current
      BY <1>17, <2>2 DEF Record, Abort
    <3> QED BY <1>4, <3>1, TurnLeftIs, TurnLeftNext DEF WithinAttempts, Descends
  <2> QED BY <2>1, <2>2
<1>18. CASE SkipRest
  <2>1. CASE current' = current + 1
    <3>1. pc' # "caught"
      BY <1>18 DEF SkipRest, Abort
    <3> QED BY <1>5, <2>1, <3>1 DEF WithinAttempts, Descends
  <2>2. CASE current' # current + 1
    <3>1. pc = "skipRest" /\ pc' = "done" /\ current' = current
      BY <1>18, <2>2 DEF SkipRest
    <3> QED BY <1>4, <3>1, TurnLeftIs, TurnLeftNext DEF WithinAttempts, Descends
  <2> QED BY <2>1, <2>2
<1> QED BY <1>7, <1>8, <1>9, <1>10, <1>11, <1>12, <1>13, <1>14, <1>15, <1>16, <1>17, <1>18
        DEF Next

\* Every step of the walk leaves fewer nodes or less of the current one's turn, both of
\* them natural numbers: whatever nodes answer and hooks do, and whatever the counters
\* and the policies allow, the loop over a node's attempts and the loop over the nodes
\* take finitely many steps.
THEOREM WalkDescends ==
    Spec => [](NodesLeft \in Nat /\ TurnLeft \in Nat) /\ [][Descends]_vars
<1> DEFINE Inv == TypeInv /\ WithinAttempts
<1>1. Init => Inv
  BY TypeInit DEF Init, WithinAttempts
<1>2. Inv /\ [Next]_vars => Inv'
  <2>1. CASE Next
    BY <2>1, TypeStep, DescendStep
  <2>2. ASSUME Inv, UNCHANGED vars PROVE WithinAttempts'
    BY <2>2 DEF vars, WithinAttempts, Policy
  <2> QED BY <2>1, <2>2, TypeStep
<1>3. Inv => NodesLeft \in Nat /\ TurnLeft \in Nat
  BY LeftIsNat
<1>4. Inv /\ [Next]_vars => [Descends]_vars
  BY DescendStep
<1> QED BY <1>1, <1>2, <1>3, <1>4, PTL DEF Spec
==============================================================================
