------------------------------ MODULE Execution ------------------------------
(***************************************************************************)
(* The life of a workflow execution, across the three programs that touch  *)
(* its row of the table "executions":                                      *)
(*                                                                         *)
(*   - the API (execution.service.ts): trigger() inserts the row, issues   *)
(*     the authorization and adds the BullMQ job, three awaits that no     *)
(*     transaction joins; stop() reads the status and then writes          *)
(*     "canceled"; deleting the workflow cascades to the row, and the      *)
(*     retention sweep deletes the step rows and then the row;             *)
(*   - the queue (BullMQ on Redis, external): hands a waiting job to a     *)
(*     free handler under a lock, retries a failed attempt, puts a job     *)
(*     whose lock expired back, and gives up past its limits;              *)
(*   - the worker (handler.ts): handleExecutionJob, one database call or   *)
(*     one node per action, because any other program may run between two  *)
(*     of its awaits.                                                      *)
(*                                                                         *)
(* No UPDATE of the row has a condition on its status, so which program    *)
(* wins is decided by the order of the calls alone.  The walk of the       *)
(* engine over the graph is reduced to its order and its hooks here;       *)
(* module Engine has the detail.                                           *)
(***************************************************************************)
EXTENDS Integers

CONSTANTS
    Execs,          \* ids of executions
    Handlers,       \* job slots of all worker processes together
    None,           \* no execution, no handler
    NumNodes,       \* nodes of the workflow, taken in execution order
    MaxAttempts,    \* "attempts" of the queue's default job options
    MaxStalled,     \* maxStalledCount of the BullMQ worker
    MaxFaults       \* bound: database calls of the worker that may throw

ASSUME ConstantsAssumption ==
    /\ None \notin Execs
    /\ None \notin Handlers
    /\ NumNodes \in Nat
    /\ MaxAttempts \in Nat \ {0}
    /\ MaxStalled \in Nat
    /\ MaxFaults \in Nat

Nodes == 1..NumNodes

VARIABLES
    (* the database *)
    row,            \* status of the row, or "none" when there is no row
    auth,           \* the row of execution_authorizations
    workflow,       \* whether the workflow's row exists
    recorded,       \* nodes that have a row in execution_steps
    (* the requests of the API in progress *)
    trigger,        \* how far trigger() has come
    stopping,       \* stop() has read an active status and will write
    sweeping,       \* the retention sweep has deleted the step rows
    (* the queue *)
    job,            \* state of the job
    attemptsMade,   \* attempts that ended in an error
    stalled,        \* times the lock of the job expired
    owner,          \* the handler that holds the lock of the job
    (* the handlers *)
    pc,             \* the next call of the handler
    exec,           \* the execution it works on
    cursor,         \* nodes it has passed in this attempt
    outcome,        \* how the node it is about to record ended
    verdict,        \* finalStatus of the engine
    (* history, read by properties only *)
    started,        \* how often each node was started
    heldStop,       \* stop() wrote while no handler was about to mark "running"
    mishaps,        \* what went wrong around an execution
    faults          \* database calls that threw so far

dbVars      == <<row, auth, workflow, recorded>>
apiVars     == <<trigger, stopping, sweeping>>
queueVars   == <<job, attemptsMade, stalled, owner>>
passVars    == <<cursor, outcome, verdict>>
historyVars == <<started, heldStop, mishaps, faults>>
vars == <<dbVars, apiVars, queueVars, pc, exec, passVars, historyVars>>

Statuses == {"pending", "running", "completed", "failed", "canceled"}
Active   == {"pending", "running"}
Terminal == {"completed", "failed", "canceled"}

Points == {"idle", "read", "mark", "authorize", "load", "stepStart", "runNode",
           "record", "skipRest", "finish", "failWrite", "cancelWrite", "ack", "nack"}
Engaged == {"stepStart", "runNode", "record", "skipRest"}
Outcomes == {"completed", "skipped", "failed", "terminate", "limit"}

DbType ==
    /\ row \in [Execs -> Statuses \cup {"none"}]
    /\ auth \in [Execs -> {"none", "valid", "expired"}]
    /\ workflow \in [Execs -> BOOLEAN]
    /\ recorded \in [Execs -> SUBSET Nodes]

ApiType ==
    /\ trigger \in [Execs -> {"idle", "inserted", "issued", "queued", "error"}]
    /\ stopping \in [Execs -> BOOLEAN]
    /\ sweeping \in [Execs -> BOOLEAN]

QueueType ==
    /\ job \in [Execs -> {"none", "waiting", "active", "completed", "failed"}]
    /\ attemptsMade \in [Execs -> 0..MaxAttempts]
    /\ stalled \in [Execs -> 0..(MaxStalled + 1)]
    /\ owner \in [Execs -> Handlers \cup {None}]

HandlerType ==
    /\ pc \in [Handlers -> Points]
    /\ exec \in [Handlers -> Execs \cup {None}]
    /\ cursor \in [Handlers -> 0..NumNodes]
    /\ outcome \in [Handlers -> Outcomes]
    /\ verdict \in [Handlers -> {"completed", "failed"}]

HistoryType ==
    /\ started \in [Execs -> [Nodes -> Nat]]
    /\ heldStop \in [Execs -> BOOLEAN]
    /\ mishaps \in [Execs -> SUBSET {"fault", "crash", "orphan", "stalledOut"}]
    /\ faults \in 0..MaxFaults

TypeOK == DbType /\ ApiType /\ QueueType /\ HandlerType /\ HistoryType

Init ==
    /\ row = [e \in Execs |-> "none"]
    /\ auth = [e \in Execs |-> "none"]
    /\ workflow = [e \in Execs |-> TRUE]
    /\ recorded = [e \in Execs |-> {}]
    /\ trigger = [e \in Execs |-> "idle"]
    /\ stopping = [e \in Execs |-> FALSE]
    /\ sweeping = [e \in Execs |-> FALSE]
    /\ job = [e \in Execs |-> "none"]
    /\ attemptsMade = [e \in Execs |-> 0]
    /\ stalled = [e \in Execs |-> 0]
    /\ owner = [e \in Execs |-> None]
    /\ pc = [h \in Handlers |-> "idle"]
    /\ exec = [h \in Handlers |-> None]
    /\ cursor = [h \in Handlers |-> 0]
    /\ outcome = [h \in Handlers |-> "completed"]
    /\ verdict = [h \in Handlers |-> "completed"]
    /\ started = [e \in Execs |-> [n \in Nodes |-> 0]]
    /\ heldStop = [e \in Execs |-> FALSE]
    /\ mishaps = [e \in Execs |-> {}]
    /\ faults = 0

(***************************************************************************)
(* An UPDATE ... WHERE id = e: it changes nothing when the row is gone.    *)
(***************************************************************************)
Update(e, status) ==
    row' = IF row[e] = "none" THEN row ELSE [row EXCEPT ![e] = status]

(***************************************************************************)
(* The API.                                                                *)
(***************************************************************************)
\* trigger(): INSERT of the row.
TriggerInsert(e) ==
    /\ trigger[e] = "idle"
    /\ workflow[e]
    /\ row' = [row EXCEPT ![e] = "pending"]
    /\ trigger' = [trigger EXCEPT ![e] = "inserted"]
    /\ UNCHANGED <<auth, workflow, recorded, stopping, sweeping, queueVars, pc, exec,
                   passVars, historyVars>>

\* trigger(): the authorization, whose foreign key needs the row.
TriggerAuthorize(e) ==
    /\ trigger[e] = "inserted"
    /\ row[e] # "none"
    /\ auth' = [auth EXCEPT ![e] = "valid"]
    /\ trigger' = [trigger EXCEPT ![e] = "issued"]
    /\ UNCHANGED <<row, workflow, recorded, stopping, sweeping, queueVars, pc, exec,
                   passVars, historyVars>>

\* trigger(): queue.add with the execution's id as job id: Redis takes the job.  The
\* call may return, or throw all the same, or the API process die; the client hears
\* of a success or of an error, but nothing more is called, and "queued" is all three.
TriggerEnqueue(e) ==
    /\ trigger[e] = "issued"
    /\ job' = [job EXCEPT ![e] = "waiting"]
    /\ trigger' = [trigger EXCEPT ![e] = "queued"]
    /\ UNCHANGED <<dbVars, stopping, sweeping, attemptsMade, stalled, owner, pc, exec,
                   passVars, historyVars>>

\* trigger(): an await throws, or the API process dies, before Redis has the job;
\* nothing undoes the INSERT.
TriggerFail(e) ==
    /\ trigger[e] \in {"inserted", "issued"}
    /\ trigger' = [trigger EXCEPT ![e] = "error"]
    /\ UNCHANGED <<dbVars, stopping, sweeping, queueVars, pc, exec, passVars, historyVars>>

\* The time to live of the authorization runs out.
Expire(e) ==
    /\ auth[e] = "valid"
    /\ auth' = [auth EXCEPT ![e] = "expired"]
    /\ UNCHANGED <<row, workflow, recorded, apiVars, queueVars, pc, exec, passVars, historyVars>>

\* stop(): the SELECT found an active execution.
StopRead(e) ==
    /\ ~stopping[e]
    /\ row[e] \in Active
    /\ stopping' = [stopping EXCEPT ![e] = TRUE]
    /\ UNCHANGED <<dbVars, trigger, sweeping, queueVars, pc, exec, passVars, historyVars>>

\* stop(): the UPDATE, whatever the status has become since.
StopWrite(e) ==
    /\ stopping[e]
    /\ stopping' = [stopping EXCEPT ![e] = FALSE]
    /\ Update(e, "canceled")
    /\ heldStop' = [heldStop EXCEPT ![e] =
           @ \/ (row[e] # "none" /\ \A h \in Handlers : exec[h] = e => pc[h] # "mark")]
    /\ UNCHANGED <<auth, workflow, recorded, trigger, sweeping, queueVars, pc, exec,
                   passVars, started, mishaps, faults>>

\* Deleting the workflow: one DELETE that cascades to the execution and its rows.
DeleteWorkflow(e) ==
    /\ workflow[e]
    /\ workflow' = [workflow EXCEPT ![e] = FALSE]
    /\ row' = [row EXCEPT ![e] = "none"]
    /\ recorded' = [recorded EXCEPT ![e] = {}]
    /\ UNCHANGED <<auth, apiVars, queueVars, pc, exec, passVars, historyVars>>

\* runRetentionSweep(): the step rows go first ...
SweepSteps(e) ==
    /\ ~sweeping[e]
    /\ row[e] # "none"
    /\ sweeping' = [sweeping EXCEPT ![e] = TRUE]
    /\ recorded' = [recorded EXCEPT ![e] = {}]
    /\ UNCHANGED <<row, auth, workflow, trigger, stopping, queueVars, pc, exec, passVars,
                   historyVars>>

\* ... and the execution, with what was recorded in between, in a later DELETE.
SweepRow(e) ==
    /\ sweeping[e]
    /\ row[e] # "none"
    /\ row' = [row EXCEPT ![e] = "none"]
    /\ recorded' = [recorded EXCEPT ![e] = {}]
    /\ UNCHANGED <<auth, workflow, apiVars, queueVars, pc, exec, passVars, historyVars>>

(***************************************************************************)
(* The queue.                                                              *)
(***************************************************************************)
\* A free handler takes a waiting job.
Pickup(h, e) ==
    /\ pc[h] = "idle"
    /\ job[e] = "waiting"
    /\ job' = [job EXCEPT ![e] = "active"]
    /\ owner' = [owner EXCEPT ![e] = h]
    /\ pc' = [pc EXCEPT ![h] = "read"]
    /\ exec' = [exec EXCEPT ![h] = e]
    /\ UNCHANGED <<dbVars, apiVars, attemptsMade, stalled, passVars, historyVars>>

\* The lock of an active job expires, because its handler died or because its
\* renewal did not get through while the handler goes on.
Stall(e) ==
    /\ job[e] = "active"
    /\ stalled' = [stalled EXCEPT ![e] = @ + 1]
    /\ owner' = [owner EXCEPT ![e] = None]
    /\ job' = [job EXCEPT ![e] = IF stalled[e] < MaxStalled THEN "waiting" ELSE "failed"]
    /\ mishaps' = [mishaps EXCEPT ![e] =
           IF stalled[e] < MaxStalled THEN @ ELSE @ \cup {"stalledOut"}]
    /\ UNCHANGED <<dbVars, apiVars, attemptsMade, pc, exec, passVars, started, heldStop, faults>>

\* The handler is free again, and the local variables of its pass are gone.
Release(h) ==
    /\ pc' = [pc EXCEPT ![h] = "idle"]
    /\ exec' = [exec EXCEPT ![h] = None]
    /\ cursor' = [cursor EXCEPT ![h] = 0]
    /\ outcome' = [outcome EXCEPT ![h] = "completed"]
    /\ verdict' = [verdict EXCEPT ![h] = "completed"]

\* The process of the handler dies.
Crash(h) ==
    /\ pc[h] # "idle"
    /\ Release(h)
    /\ mishaps' = [mishaps EXCEPT ![exec[h]] =
           @ \cup {"crash"} \cup (IF owner[exec[h]] = h THEN {} ELSE {"orphan"})]
    /\ UNCHANGED <<dbVars, apiVars, queueVars, started, heldStop, faults>>

\* handleExecutionJob returned: the job completes if the lock is still held.
Ack(h) ==
    /\ pc[h] = "ack"
    /\ Release(h)
    /\ \/ /\ owner[exec[h]] = h
          /\ job' = [job EXCEPT ![exec[h]] = "completed"]
          /\ owner' = [owner EXCEPT ![exec[h]] = None]
       \/ /\ owner[exec[h]] # h
          /\ UNCHANGED <<job, owner>>
    /\ UNCHANGED <<dbVars, apiVars, attemptsMade, stalled, historyVars>>

\* handleExecutionJob threw: another attempt, until there have been MaxAttempts.
Nack(h) ==
    /\ pc[h] = "nack"
    /\ Release(h)
    /\ \/ /\ owner[exec[h]] = h
          /\ attemptsMade' = [attemptsMade EXCEPT ![exec[h]] = @ + 1]
          /\ job' = [job EXCEPT ![exec[h]] =
                 IF attemptsMade[exec[h]] + 1 < MaxAttempts THEN "waiting" ELSE "failed"]
          /\ owner' = [owner EXCEPT ![exec[h]] = None]
       \/ /\ owner[exec[h]] # h
          /\ UNCHANGED <<job, attemptsMade, owner>>
    /\ UNCHANGED <<dbVars, apiVars, stalled, historyVars>>

(***************************************************************************)
(* The worker: handleExecutionJob.                                         *)
(***************************************************************************)
Goto(h, point) == pc' = [pc EXCEPT ![h] = point]

\* The first SELECT: a job whose execution is missing or canceled is skipped.
ReadStatus(h) ==
    /\ pc[h] = "read"
    /\ Goto(h, IF row[exec[h]] \in {"none", "canceled"} THEN "ack" ELSE "mark")
    /\ UNCHANGED <<dbVars, apiVars, queueVars, exec, passVars, historyVars>>

\* Variant: the UPDATE to "running" is left out.
MarkNothing(h) ==
    /\ pc[h] = "mark"
    /\ Goto(h, "authorize")
    /\ UNCHANGED <<dbVars, apiVars, queueVars, exec, passVars, historyVars>>

\* The UPDATE to "running": the last call before the try block.
MarkRunning(h) ==
    /\ pc[h] = "mark"
    /\ Update(exec[h], "running")
    /\ Goto(h, "authorize")
    /\ UNCHANGED <<auth, workflow, recorded, apiVars, queueVars, exec, passVars, historyVars>>

\* Variant: the query does not compare expiresAt.
AuthorizeExpired(h) ==
    /\ pc[h] = "authorize"
    /\ Goto(h, IF auth[exec[h]] # "none" /\ row[exec[h]] # "none"
               THEN "load" ELSE "failWrite")
    /\ UNCHANGED <<dbVars, apiVars, queueVars, exec, passVars, historyVars>>

\* assertExecutionAuthorized: the authorization's row goes with the execution's.
Authorize(h) ==
    /\ pc[h] = "authorize"
    /\ Goto(h, IF auth[exec[h]] = "valid" /\ row[exec[h]] # "none"
               THEN "load" ELSE "failWrite")
    /\ UNCHANGED <<dbVars, apiVars, queueVars, exec, passVars, historyVars>>

\* Where a pass goes when the engine has dealt with its first c nodes.
NextPoint(c) == IF c = NumNodes THEN "finish" ELSE "stepStart"

\* The workflow and the domain configuration are loaded and the engine starts;
\* a missing workflow is an ExecutionStoppedError.
LoadWorkflow(h) ==
    /\ pc[h] = "load"
    /\ Goto(h, IF workflow[exec[h]] THEN NextPoint(0) ELSE "cancelWrite")
    /\ UNCHANGED <<dbVars, apiVars, queueVars, exec, passVars, historyVars>>

\* The engine refuses the graph: the result is "failed", nothing is thrown.
RejectGraph(h) ==
    /\ pc[h] = "load"
    /\ workflow[exec[h]]
    /\ verdict' = [verdict EXCEPT ![h] = "failed"]
    /\ Goto(h, "finish")
    /\ UNCHANGED <<dbVars, apiVars, queueVars, exec, cursor, outcome, historyVars>>

\* Variant: the hook does not look at the status.
StepStartUnchecked(h) ==
    /\ pc[h] = "stepStart"
    /\ Goto(h, "runNode")
    /\ UNCHANGED <<dbVars, apiVars, queueVars, exec, passVars, historyVars>>

\* onStepStart: the hook throws when the execution is missing or canceled, and
\* the engine turns what it throws into the result "failed".
StepStart(h) ==
    /\ pc[h] = "stepStart"
    /\ \/ /\ row[exec[h]] \notin {"none", "canceled"}
          /\ Goto(h, "runNode")
          /\ UNCHANGED verdict
       \/ /\ row[exec[h]] \in {"none", "canceled"}
          /\ Goto(h, "finish")
          /\ verdict' = [verdict EXCEPT ![h] = "failed"]
    /\ UNCHANGED <<dbVars, apiVars, queueVars, exec, cursor, outcome, historyVars>>

\* The node runs, with whatever effects it has, and ends one way or another:
\* "terminate" is a completed node that leaves control.terminate set, "limit" a
\* completed node that leaves a retry or loop counter over its maximum.
RunNode(h) ==
    /\ pc[h] = "runNode"
    /\ \E o \in Outcomes \ {"skipped"} : outcome' = [outcome EXCEPT ![h] = o]
    /\ started' = [started EXCEPT ![exec[h]][cursor[h] + 1] = @ + 1]
    /\ Goto(h, "record")
    /\ UNCHANGED <<dbVars, apiVars, queueVars, exec, cursor, verdict, heldStop, mishaps, faults>>

\* The node is skipped: it has parents, and no edge from them is satisfied.
SkipNode(h) ==
    /\ pc[h] = "runNode"
    /\ cursor[h] > 0
    /\ outcome' = [outcome EXCEPT ![h] = "skipped"]
    /\ Goto(h, "record")
    /\ UNCHANGED <<dbVars, apiVars, queueVars, exec, cursor, verdict, historyVars>>

\* onStepComplete: the INSERT of the step's row.
RecordStep(h) ==
    /\ pc[h] = "record"
    /\ row[exec[h]] # "none"
    /\ recorded' = [recorded EXCEPT ![exec[h]] = @ \cup {cursor[h] + 1}]
    /\ cursor' = [cursor EXCEPT ![h] = @ + 1]
    /\ outcome' = [outcome EXCEPT ![h] = "completed"]
    /\ \/ /\ outcome[h] \in {"completed", "skipped"}
          /\ Goto(h, NextPoint(cursor[h] + 1))
          /\ UNCHANGED verdict
       \/ /\ outcome[h] = "terminate"
          /\ Goto(h, "skipRest")
          /\ UNCHANGED verdict
       \/ /\ outcome[h] \in {"failed", "limit"}
          /\ Goto(h, "skipRest")
          /\ verdict' = [verdict EXCEPT ![h] = "failed"]
    /\ UNCHANGED <<row, auth, workflow, apiVars, queueVars, exec, historyVars>>

\* Variant: the nodes that were not reached get no row.
SkipRestUnrecorded(h) ==
    /\ pc[h] = "skipRest"
    /\ Goto(h, "finish")
    /\ UNCHANGED <<dbVars, apiVars, queueVars, exec, passVars, historyVars>>

\* Variant: the loop runs one index too far.
SkipRestPastEnd(h) ==
    /\ pc[h] = "skipRest"
    /\ cursor[h] <= NumNodes
    /\ recorded' = [recorded EXCEPT ![exec[h]] = @ \cup {cursor[h] + 1}]
    /\ cursor' = [cursor EXCEPT ![h] = @ + 1]
    /\ UNCHANGED <<row, auth, workflow, apiVars, queueVars, pc, exec, outcome, verdict, historyVars>>

\* Variant: the loop over the remaining nodes has no end.
SkipRestForever(h) ==
    /\ pc[h] = "skipRest"
    /\ cursor[h] < NumNodes
    /\ recorded' = [recorded EXCEPT ![exec[h]] = @ \cup {cursor[h] + 1}]
    /\ cursor' = [cursor EXCEPT ![h] = @ + 1]
    /\ UNCHANGED <<row, auth, workflow, apiVars, queueVars, pc, exec, outcome, verdict, historyVars>>

\* appendSkippedSteps: one INSERT for each node that was not reached.
SkipRest(h) ==
    /\ pc[h] = "skipRest"
    /\ \/ /\ cursor[h] < NumNodes
          /\ row[exec[h]] # "none"
          /\ recorded' = [recorded EXCEPT ![exec[h]] = @ \cup {cursor[h] + 1}]
          /\ cursor' = [cursor EXCEPT ![h] = @ + 1]
          /\ UNCHANGED pc
       \/ /\ cursor[h] = NumNodes
          /\ Goto(h, "finish")
          /\ UNCHANGED <<recorded, cursor>>
    /\ UNCHANGED <<row, auth, workflow, apiVars, queueVars, exec, outcome, verdict, historyVars>>

\* Variant: the handler throws when the engine's result is "failed".
FinishRethrowing(h) ==
    /\ pc[h] = "finish"
    /\ Update(exec[h], verdict[h])
    /\ Goto(h, IF verdict[h] = "failed" THEN "nack" ELSE "ack")
    /\ UNCHANGED <<auth, workflow, recorded, apiVars, queueVars, exec, passVars, historyVars>>

\* Variant: the evaluation of the alert rules lets its errors out.
FinishThenAlert(h) ==
    /\ pc[h] = "finish"
    /\ Update(exec[h], verdict[h])
    /\ \E p \in {"ack", "failWrite"} : Goto(h, p)
    /\ UNCHANGED <<auth, workflow, recorded, apiVars, queueVars, exec, passVars, historyVars>>

\* The UPDATE to the engine's result.
Finish(h) ==
    /\ pc[h] = "finish"
    /\ Update(exec[h], verdict[h])
    /\ Goto(h, "ack")
    /\ UNCHANGED <<auth, workflow, recorded, apiVars, queueVars, exec, passVars, historyVars>>

\* Variant: the error is thrown on without the UPDATE.
FailWithoutUpdate(h) ==
    /\ pc[h] = "failWrite"
    /\ Goto(h, "nack")
    /\ UNCHANGED <<dbVars, apiVars, queueVars, exec, passVars, historyVars>>

\* The catch block: the UPDATE to "failed", and the error is thrown on to BullMQ.
FailWrite(h) ==
    /\ pc[h] = "failWrite"
    /\ Update(exec[h], "failed")
    /\ Goto(h, "nack")
    /\ UNCHANGED <<auth, workflow, recorded, apiVars, queueVars, exec, passVars, historyVars>>

\* The catch block for an ExecutionStoppedError: the job counts as done.
CancelWrite(h) ==
    /\ pc[h] = "cancelWrite"
    /\ Update(exec[h], "canceled")
    /\ Goto(h, "ack")
    /\ UNCHANGED <<auth, workflow, recorded, apiVars, queueVars, exec, passVars, historyVars>>

\* Where an exception of a database call takes the handler.  A hook's exception
\* ends the engine's walk, except that of the hook for a skipped node: that one
\* is thrown inside the node's own try block, and the node is recorded again, as
\* failed.
AfterThrow(h) ==
    CASE pc[h] \in {"read", "mark", "failWrite", "cancelWrite"} -> "nack"
      [] pc[h] \in {"authorize", "load", "finish"} -> "failWrite"
      [] pc[h] = "record" /\ outcome[h] = "skipped" -> "record"
      [] OTHER -> "finish"

Throw(h) ==
    /\ Goto(h, AfterThrow(h))
    /\ outcome' = [outcome EXCEPT ![h] = IF pc[h] = "record" /\ @ = "skipped" THEN "failed" ELSE "completed"]
    /\ verdict' = [verdict EXCEPT ![h] = IF pc[h] \in Engaged THEN "failed" ELSE @]
    /\ UNCHANGED <<dbVars, apiVars, queueVars, exec, cursor, started, heldStop>>

\* An INSERT of a step violates its foreign key: the execution is gone.
MissingRow(h) ==
    /\ \/ pc[h] = "record"
       \/ pc[h] = "skipRest" /\ cursor[h] < NumNodes
    /\ row[exec[h]] = "none"
    /\ Throw(h)
    /\ UNCHANGED <<mishaps, faults>>

\* A database call of the handler throws for a reason of its own.
DatabaseFault(h) ==
    /\ faults < MaxFaults
    /\ pc[h] \notin {"idle", "runNode", "ack", "nack"}
    /\ pc[h] = "skipRest" => cursor[h] < NumNodes
    /\ faults' = faults + 1
    /\ mishaps' = [mishaps EXCEPT ![exec[h]] = @ \cup {"fault"}]
    /\ Throw(h)

(***************************************************************************)
(* The specification.                                                      *)
(***************************************************************************)
Api(e) ==
    \/ TriggerInsert(e) \/ TriggerAuthorize(e) \/ TriggerEnqueue(e) \/ TriggerFail(e)
    \/ Expire(e) \/ StopRead(e) \/ StopWrite(e)
    \/ DeleteWorkflow(e) \/ SweepSteps(e) \/ SweepRow(e)

\* What a handler does of itself, short of failing.
HandlerStep(h) ==
    \/ ReadStatus(h) \/ MarkRunning(h) \/ Authorize(h) \/ LoadWorkflow(h) \/ RejectGraph(h)
    \/ StepStart(h) \/ RunNode(h) \/ SkipNode(h) \/ RecordStep(h) \/ SkipRest(h)
    \/ Finish(h) \/ FailWrite(h) \/ CancelWrite(h) \/ MissingRow(h)
    \/ Ack(h) \/ Nack(h)

Next ==
    \/ \E e \in Execs : Api(e) \/ Stall(e)
    \/ \E h \in Handlers :
          \/ HandlerStep(h) \/ DatabaseFault(h) \/ Crash(h)
          \/ \E e \in Execs : Pickup(h, e)

Spec == Init /\ [][Next]_vars

\* The event loop runs every handler on, a free handler polls the queue, and the
\* stall check finds the jobs whose handler is gone.  Users, faults and crashes
\* owe nothing.
LostJob(e) == owner[e] # None /\ exec[owner[e]] # e

Fairness ==
    /\ \A h \in Handlers : WF_vars(HandlerStep(h))
    /\ \A h \in Handlers : WF_vars(\E e \in Execs : Pickup(h, e))
    /\ \A e \in Execs : WF_vars(LostJob(e) /\ Stall(e))

FairSpec == Spec /\ Fairness
==============================================================================
