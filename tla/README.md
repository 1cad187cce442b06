# Verification of REX

TLA+ models of the REX workflow platform, the TLC configurations that check them and the
theorems TLAPS proves about them. Paths are relative to `src/`, the root of the repository.
`PROJECT.json` maps every definition to the lines it models and lists components, runs,
mutants, hazards, findings and theorems.

    cd tla
    tlc -workers 2 -config MCExecution.cfg MCExecution     # any of the runs below
    tlapm ExecutionProofs.tla                              # any of the proof modules

## 1. The system

REX runs workflows: graphs of nodes (HTTP calls, LLM calls, retrieval, code, control) that a
user draws, stores and triggers. There are three kinds of processes - the Fastify **backend**
(`apps/backend`), the BullMQ **worker** (`apps/worker`, several processes with several job slots
each) and the React frontend - which share a Postgres database and a Redis queue. No transaction
spans two statements anywhere on the path of an execution.

| Component | State it keeps | Operations | Interacts with |
|---|---|---|---|
| Execution API (`execution.service.ts`, `execution-authorization.service.ts`) | rows of `executions`, `execution_authorizations` | trigger: INSERT, authorize, enqueue; stop: SELECT, UPDATE | database, queue; concurrent with the handlers |
| Execution queue (BullMQ; `queue/client.ts`, `worker.ts`) | job state, attempts, lock, stalls | add, hand out, renew, stall check, complete, retry, give up | API adds, handlers take and answer |
| Job handler (`apps/worker/src/handler.ts`) | its position in `handleExecutionJob`; rows of `executions`, `execution_steps` | read status, mark running, authorize, load, run the engine with its hooks, write the end | database, queue, engine (callbacks) |
| Workflow engine (`execution-engine.ts`, `dag-validator.ts`) | outputs, control counters, steps | validate, plan waves, walk, retry, skip, terminate | hooks of the handler, nodes |
| Nodes (`packages/engine/src/nodes`) | none; `execution-control` writes the control state | execute | engine context |
| Retrieval (`execution-engine.ts` from 1249) | budget counters, orchestration | single, first-non-empty, merge, best-score, adaptive, speculative | engine, knowledge store |
| Knowledge (`knowledge.service.ts`, `knowledge-handler.ts`, `handler.ts` from 1000) | corpora, documents, chunks | upload, ingest in the worker, retry; ingest from a node of an execution | database, second queue, retention sweep |
| Scheduler (`scheduler.service.ts`) | map of last runs in memory | check every 30 s, trigger | Execution API |
| Workflow service, compliance, GDPR | `workflows`, retention policies, consent | delete with cascade, retention sweep | deletes executions while they run |
| IAM, policies, RBAC, ABAC, tenants | policies, memberships | evaluate, attach | in front of every route |
| BYOK keys, API keys, publications, workspaces | one row per object | create, update, upsert in one statement | routes |
| Registries (`model-registry.service.ts`, `domain-config.service.ts`; consents and legal bases of compliance) | one row per key | SELECT, then UPDATE or INSERT; the registry of models seeds itself | routes |
| REX scoring, autofix (`rex/scorer.ts`, `rex-autofix.service.ts`) | scores of nodes | score, preview, fix: read a graph, insert helper nodes, write it back | workflow rows that editors save meanwhile |
| Frontend (`lib/api`, `lib/query`, `lib/auth`, `features`) | token, user, cached lists, calls on their way | call with two levels of retries, invalidate, sign in and out, refresh the user | API over a network that loses and delays |
| KPI, alerts, LLM providers, HTTP routes | - | read, compute, I/O | - |

**What is hard.** (1) Three programs write `executions.status` with unconditional UPDATEs: the order
of calls decides. (2) BullMQ delivers a job at least once: an expired lock puts a second handler on
an execution the first one still runs. (3) A handler can die, or a database call throw, between any
two awaits, and what its `catch` blocks do depends on which call it was. (4) The engine catches what
its hooks throw and reports it as a result. (5) Rows are deleted while handlers use them.
(6) Inside the engine, retries are counted by three mechanisms at once - the node's policy, the
execution's limits, and control nodes - and hooks are called from inside and from outside the try
block of a node. (7) Nearly every service reads a row in one statement and writes it in another: documents and
corpora, graphs and scores, the keyed rows, the scheduler's map. (8) The frontend repeats calls whose
answers it gave up on. The `hazards` of `PROJECT.json` name each of these at its line.

**What makes each part correct.**
*Execution*: no execution the queue has taken is lost or left running, unless a call or a lock was lost in a
way no retry repairs; nothing runs twice without a cause, without authorization, or after a stop;
"completed" means every node is recorded.
*Engine*: a topological order exactly for acyclic graphs; each node at most once; branches, limits
and terminations obeyed; the walk ends.
*Retrieval*: the budget holds up to the branches in flight, a branch makes every attempt it is allowed,
the strategy takes the right result. *Ingestion*: a document that is ready has all its chunks, once, and
every document settles, unless a call threw or the queue gave its job up. *Scheduler*: a workflow runs when its interval has passed, not before and not
much later. *Editing*: a fix closes the gap it was asked to close, opens none, and leaves a graph
`validateDAG` accepts; a score is that of the graph. *Registries*: a key has one row, with what was written
last, where nobody wrote on stale knowledge. *Frontend*: a click takes effect at most once, what is shown is
not older than what was reported, but for loads the query cache does not drop, and token and user agree.
Section 5 lists where the code falls short of this.

## 2. Plan

| # | Module | Status |
|---|---|---|
| 1 | `ExecutionLifecycle` (abstract), `Execution`, `ExecutionProperties` | done |
| 2 | `ExecutionProofs` | done: every safety property of the run `execution` and both refinements |
| 3 | `DagValidator`, `ExecutionWaves` | done; Kahn's algorithm and the waves proved, in `EngineProofs` |
| 4 | `EngineWalk` (abstract), `Engine`, `EngineProperties`, `EngineProofs`; `Execution` implements `EngineWalk` | done; all proved, of termination that no step can be repeated for ever |
| 5 | `Retrieval`, `RetrievalProperties`, `RetrievalProofs` | done; all proved |
| 6 | `Ingestion`, `IngestionProperties`, `IngestionProofs`: documents and corpora between API, queue and worker | done; the invariants proved |
| 7 | `Scheduler`, `SchedulerProofs`: overlapping checks, restarts, the map written after the trigger | done; all proved |
| 8 | `RexScorer`, `WorkflowEditing`, `WorkflowEditingProperties`, `WorkflowEditingProofs`: scores and fixes while a workflow is edited | done; all proved |
| 9 | `Frontend`, `FrontendProofs`: calls, retries, cache and session of one tab | done; all proved |
| 10 | `Records`, `RecordsProofs`: the services that look a row up and then write it | done; all proved |

Abstract specifications: `ExecutionLifecycle` (what a client may see of an execution) and
`EngineWalk` (what passes between the handler and the engine). `EngineWalk` ties the two detailed
models together: `Engine` implements it and so does every handler of `Execution`, so the reduced
engine inside `Execution` is not an invention of its own.

## 3. The models

### Execution (`Execution.tla`, `ExecutionProperties.tla`)

State: the row (`row`), its authorization (`auth`), the workflow's row (`workflow`) and the steps
(`recorded`); the calls of the API in progress (`trigger`, `stopping`, `sweeping`); the job (`job`,
`attemptsMade`, `stalled`, `owner`); for each handler the next call of `handleExecutionJob` (`pc`),
its execution and its local state (`exec`, `cursor`, `outcome`, `verdict`); and history that only
properties read (`started`, `heldStop`, `mishaps`, `faults`).

| Code | Actions |
|---|---|
| `trigger()` | `TriggerInsert`, `TriggerAuthorize`, `TriggerEnqueue`, `TriggerFail` between any two |
| `stop()` | `StopRead`, `StopWrite` |
| workflow delete; retention sweep | `DeleteWorkflow`; `SweepSteps`, `SweepRow` |
| BullMQ (external) | `Pickup`, `Stall`, `Ack`, `Nack`; `Crash` of a handler |
| `handleExecutionJob` | `ReadStatus`, `MarkRunning`, `Authorize`, `LoadWorkflow`, `Finish`, `FailWrite`, `CancelWrite` |
| `executeWorkflow` with the hooks | `RejectGraph`, `StepStart`, `RunNode`, `SkipNode`, `RecordStep`, `SkipRest` |
| exceptions | `MissingRow` (foreign key), `DatabaseFault` (any call), both through `AfterThrow` |

One action is one database call, queue call or node: between two of them any other program may act.
`TriggerEnqueue` is the moment Redis has the job; whether the client then hears of it, or `queue.add` throws
after that, or the API dies, is all one to the rest of the system, which does not look at `trigger()` again. A
failure before that moment is `TriggerFail`, and leaves a row that nobody takes up.
Abstracted: ids of users and tenants, payloads and outputs, logs, telemetry writes whose errors the
code swallows, delays of retries, and the age of jobs. An execution's workflow is its own (`workflow`
is per execution), which is general enough as executions share no row. `Expire` may happen at any
time, as the time to live is not related to anything else in the model.

### The graph (`DagValidator.tla`, `ExecutionWaves.tla`)

`DagValidator` takes an arbitrary list of edges and does Kahn's algorithm turn by turn: `ReadEdge`,
`Seed`, `Shift` and `Relax` are the bodies of the loops of `validateDAG`, `CheckEdges`, `Sort` and `Finish`
what stands between and behind them. The adjacency list
holds positions in the list of edges instead of targets, so that repeated edges stay apart as they do
in the code's arrays. `Unknown` stands for ids that no node has. `ExecutionWaves` adds
`buildExecutionWaves`: `LevelsAfter` is the loop that gives each node its level, `Wave` and `Waves`
group the order by level.

### The engine (`Engine.tla`, `EngineProperties.tla`)

State: the workflow as input (`wf`: conditions of the edges, kind and retry policy of the nodes), the
place in the walk (`pc`, `current`, `attempt`), the traces of the attempts, `output`, `control`, the
recorded `steps` and `finalStatus`; history `runs`, `hookThrew`.

| Code | Actions |
|---|---|
| planning | `Plan`, `Reject` |
| a node's turn | `StepStart`, `Refuse`, `SkipNode`, `SkipHook`, `Resolve` |
| an attempt | `Succeed`, `AskRetry`, `AttemptThrows`, `RunControl`, and the catch block `AttemptError` |
| after it | `Record` (hook, limit, terminate, failure), `SkipRest` |
| catch blocks | `FailNode` (of a node's turn), `Abort` (of the walk) |

A node is its place in the execution order; two nodes have at most one edge, with condition `always`
(also `any`, or none) or `route` (every condition on the parent's output: boolean, pass/fail, route).
An output is `plain` or `routed`, by whether it satisfies such a condition. Two parallel edges behave
like one. The engine runs one workflow in one process; nothing interleaves with it, and its
nondeterminism is that of the nodes and hooks. `clampInt` and `parseBooleanLike` have been applied to
a policy before the model sees it. A node's retrieval, like its validation, either fails the node's
turn (`Refuse`) or lets it go on.

### Retrieval (`Retrieval.tla`, `RetrievalProperties.tla`)

`runNodeRetrieval` for one visit of a node after the other, and the loop of a `knowledge-retrieve` node
(`byNode`), which share the budget of the execution. `ResolveRetrieverPlans` and the parsing around it
are operators on a configuration; a branch (`branches[i]`) is a call of `runRetrieverPlan` with its
nested loops over queries and attempts. `Visit` starts the branches, all of them where the strategy is
side by side, `Answer` and `Fail` are what `retrieveKnowledge` returns, `Continue` is what follows the
await, `Conclude` picks, merges or throws. Matches have a chunk and a score; the text is left out.

### Ingestion (`Ingestion.tla`, `IngestionProperties.tla`)

One action is one statement. Uploads go through `Upload`, `Enqueue`, `MarkUploadFailed`; the queue
through `Take`, `Report`, `StalledBack`; an attempt through `MarkDoc`, `MarkCorpus`, `Load`,
`DeleteChunks`, `InsertChunks`, `MarkReady`, `Summarize`, `Conclude`, or `FailDoc` and `FailCorpus`. A
knowledge-ingest node enters at `BeginRuntime`, finds or creates its corpus, and shares the rest.
`EmptyRuntimeDoc` is the exception for content without text. `queue.add` may throw after Redis has the job:
`MarkUploadFailed` then writes "failed" while the job runs, and `api` is `refused` from then on.
`CallFails`, `Crash`, `ApiDies` and `Sweep` interfere anywhere. `chunks` counts complete sets of a
document's chunks, as one INSERT writes them all.

### The scheduler (`Scheduler.tla`)

Each check is a process (`StartCheck`, `ListWorkflows`, `Visit`, `Triggered`, `EndCheck`) that reads the
clock once; `Tick` moves the clock, but not past a timer that is due. `MaxSlow` bounds the time checks
are at work, which is how long triggers take. `CronInterval` is the code's approximation of a cron
expression by its first two fields; fewer than five fields give 0. `EffectiveInterval` prefers a given
interval, 0 included, and a workflow whose interval is 0 is not `Timed`: no check triggers it.

### Scores and fixes (`RexScorer.tla`, `WorkflowEditing.tla`, `WorkflowEditingProperties.tla`)

`RexScorer` has the ten checks on a node of a graph, their weights and total, the fixes and
`ApplyFixes`. A graph maps ids to types and to the facts of their configuration that the checks ask
for. `WorkflowEditing` is the row of one workflow: editors `Save` and `Delete` it, `SetRetention` and
`SwitchManifest` change what scores depend on, a request runs `Read`, `Write` (a fix) and then `ReadGraph`,
`ReadPolicy`, `ReadManifests`, `Upsert` node by node, where each is one statement. Ids of helpers are fresh
UUIDs. `Slugs` are the types the scorer has manifests for. They are not those the engine has
implementations of: the helpers are among the former only (`packages/engine/src/nodes/index.ts:31-55`), and so
`Valid` is what `validateDAG` accepts and says nothing of `resolveNode`.

### The frontend (`Frontend.tla`)

`wire` holds the exchanges under way; one whose call has timed out stays on it unheard, and the server
may still take it. `Send` is an attempt of `apiRequest`, `Fail` the decision of both levels of retries,
`Invalidate` what a mutation does to the cache. Session actions are `SignInOrOut`, `ExpirySignOut`,
`RefreshUser`, `ReceiveUser`. The server is external: an answer, a 4xx, a 5xx before or after the effect,
or a 200 without an envelope.

One list stands for one query whose key the mutation invalidates. Not every query has such a key:
`useExecuteWorkflowMutation` and `useApplyRexFixesMutation` name only some (`mutations.ts:88-89`, `114-115`), and of
the others nothing is claimed. `Invalidate` is what TanStack Query does: a list that is in the cache and on the
screen is loaded anew, and a load under way is dropped for that only if there is an older list (`Reload`); a
first load goes on, and so does one the user no longer waits for (`Leave`). The answer of such a load counts as
fresh although it may be from before the click; `kept` has these clicks until the next load begins.

### Keyed rows (`Records.tla`)

`Find` and `Write` are the two statements of `setConsent`, `setWorkflowLegalBasis`, `upsert` of domain
configurations and `upsertInternal`; `table` says whether an index makes the key unique. `EnsureSeeded`
and `Continue` are the seeding of the registry of models. Each slot of `Requests` is a process of its
own, with its own flag `seeded`. `Delete` is the deletion of the user or the workflow a key names, whose rows
go in a cascade: an UPDATE then finds no row and an INSERT meets the foreign key, and either throws
(`Refused`, as for the unique index). `ahead` notes that a request has itself inserted a model the seeding
would have.

### The abstract specifications

`ExecutionLifecycle`: an execution is created, queued, run, ended or canceled, deleted, and its job
is let go of; ids are used once, only live executions run or end, and nothing ends that was never
started. `Execution` maps `job` and the handlers to its `stage`, and `trigger` to `born`.

`EngineWalk`: announce, run or skip, record, skip the rest, give up; `Leave` is the caller's own end,
a crash included. `Engine` maps with `WalkPoint`, `WalkCursor`, `WalkOutcome`, `WalkResult`: the
outcomes `terminate` and `limit` of the walk are a completed node after which `control` says so. In
`Execution` the mapping is per handler.

## 4. The runs

| Run | Instance | Checks |
|---|---|---|
| `execution` | 1 execution, 2 handlers, 2 nodes, 3 attempts, 1 allowed stall, 1 fault | `TypeOK`, `RerunsHaveACause`, `CompletedIsRecorded`, `SettledAtRest`, `ExpiredRunsNothing`, `HeldStopIsObeyed`, `CompletedIsKept`, `ImplementsLifecycle`, `HandlersWalk` |
| `execution_live` | 1 node, 2 attempts, no faults, with fairness | `EveryJobEnds`, `AcceptedIsSettled` |
| `dag` | 3 nodes, an unknown id, up to 4 edges | `ValidIffAcyclic`, `WavesKeepTheOrder`, `WavesAreReady` |
| `engine` | all graphs of 3 nodes, at most 1 control node, 3 policies, 2 retries and 1 loop per execution | `TypeOK`, `TwiceOnlyIfSkipped`, `CompletedIsClean`, `BranchesDecide`, `RerunsWithinLimit`, `Ends`, `ImplementsWalk` |
| `retrieval` | every strategy with up to 3 branches, 2 visits, budget of 3 requests and 2 failures | `BudgetKept`, `GivesUpOnlyAtTheEnd`, `SatisfiedIsTaken`, `MergeKeepsTheBest`, `NothingAskedAfterTheWinner` |
| `ingestion` | 1 upload, 1 document of a node, 1 corpus, 2 handlers, 2 attempts, 1 fault, 2 crashes, 1 expired lock, 1 sweep, with fairness | `ReadyIsSearchable`, `JobAndDocumentAgree`, `EachDocumentSettles` |
| `scheduler` | 3 workflows (an interval, a cron expression, an interval of 0 beside one), 2 checks at once, 14 units of time (4 periods), 1 failure, restart and switch | `NotLongAfterDue`, `NotBeforeDue`, `EachWorkflowIsSeen` |
| `editing` | a branch of 2 nodes, 2 helpers, 2 requests, 1 save, 1 change of the policy or of a manifest | `FixHelps`, `FixKeepsItValid`, `ScoresAreOfTheGraph` |
| `frontend` | 1 click, 2 tokens, 5 exchanges, 1 sign-in or sign-out | `ClickTakesEffectOnce`, `ShownIsAfterTheClick`, `SessionAgrees` |
| `records` | 3 keys, all seeded, 2 values, 2 processes, 5 requests, 1 fault, any deletions, each of the four tables | `OneRowWithTheLastWrite`, `SeededCompletely` |
| `stop_overwritten`, `fix_drops_branches` | the smallest that shows it | one finding each, expected to be violated |

Types are checked by a run where a proof does not already cover them or a wrong type could hide a
wrong counter (`execution`, `engine`); elsewhere `TypeOK` documents the variables.

**Bounds.** One execution suffices: executions share no row and no job, and what couples them -
handlers that are busy - only removes behaviours. Two handlers are the case that matters (the owner of
the lock and the one that lost it); with `MaxStalled` = 1, BullMQ's default, which the worker keeps, no third one can
be on the same execution. Two nodes give a node that is recorded while the next has not begun, three
attempts are the queue's default. `MaxFaults` bounds how many database calls throw, since each one adds
a branch to every later state; one is enough to meet each `catch`. `MaxEdges` bounds the list of edges: four allow a cycle of
three plus an edge drawn twice, and a diamond. Three nodes have every pattern of a branch and a join
that `resolveParentOutputs` tells apart. In `engine`, the limits are smaller than what the policies
allow together, so that they are met.

In `retrieval` three branches and a budget of three requests let the last requests be taken side by
side; the second visit starts with what the first left. In `ingestion` one document of each way in and
two handlers let a slow holder and its successor work on the same document; a second upload adds only
the summary of the corpus, about which no property speaks. Two lost handlers are one more than `maxStalledCount`
allows, so the queue gives jobs up; one call that throws is enough, as every one releases
`EachDocumentSettles`, and the invariants are proved for any number. Two checks of the scheduler are the fewest
that overlap, and a trigger fails, the process restarts and a workflow is switched within four periods.
In `editing` two requests and one save meet at every statement; both helpers can be given and a
second fix finds the helpers of the first. Its symmetry permutes requests only, and that of `frontend`
and `records` model values no definition names. Five exchanges allow a click, its unheard
double and three attempts of a query. In `records`, three defaults are the fewest of which one is left
out when a seeding fails at another; two processes meet at every statement, and five requests come back
to rows that earlier ones wrote, or that a deletion took.

For the properties that section 6 proves, the bounds only have to be large enough to break the mutants:
the theorems hold for every value.

**Deadlock** is not checked: in every model the system really stops - all jobs done, or the function
returned - and the liveness properties say that it does not stop earlier.

**Fairness.** A handler goes on (`WF` of `HandlerStep`: the event loop runs every pending promise; a node
that never answers is not considered), a free handler takes waiting jobs (BullMQ polls), and
a job whose handler is gone is found by the stall check. Users, deletions, expiry, faults and crashes
have none. In `ingestion` the API finishes a request it has begun, a waiting job is taken
(strong fairness: a free slot may be busy now and then) and an expired lock is noticed. For a synchronous function (`DagValidator`) and for the engine it is weak fairness of the
whole step: nodes and hooks answer with something, an exception included.

**Mutants.** Each property of a passing run has a variant of an action beside the original (comments
"Variant:") with which TLC finds the property violated.

## 5. What the runs found

* **A stop can be lost** (`stop_overwritten`). The handler reads the status and then writes `running`
  without a condition; a stop in between is overwritten and the canceled execution runs to its end.
* **A fix drops the conditions of branches** (`fix_drops_branches`). `asEdges` keeps source and target of
  an edge, and `applyFixes` writes that back: every edge of the workflow loses its `condition` (and its
  id), so that both sides of a branch run. Labels and positions of nodes go the same way.

Differences between code and text that were noticed while modelling, without a run of their own:

* The branch of `handler.ts` for executions stopped while running is dead: `executeWorkflow` catches the
  hook's error and returns `failed`, which the handler writes over `canceled`. Theorem
  `OnlyStopCancelsHolds` proves that it is dead.
* `failed` is not terminal, though the frontend stops polling at it: the queue's next attempt sets
  it back to `running`. And `docs/worker.md:52` says failures are rethrown: a failed result is returned.
* A retry directive that passes the execution's limit leaves two traces of one attempt.
* Retriever keys get suffixes (`a`, `a_2`); a second `a` beside an `a_2` ends with an equal key, and the
  adaptive order, which filters by key, loses one plan.
* `docs/prd.md:105` says corpora converge to `ready` or `failed`: the status is read in one statement and
  written in the next, and a corpus may stay `ingesting` with all its documents done.
* Two executions of one scope may create a corpus each; later lookups take the one last updated, and nothing
  relies on there being one.
* Two checks of the scheduler overlap when triggers take longer than 30 s, and both may trigger a
  workflow that was due once; `NotBeforeDue` therefore speaks of checks that did not overlap.
* `intervalMs: 0` beside a cron expression is kept (`??`), and the workflow never runs; so does an expression
  of fewer than five fields.
* `stop()` writes without a condition: an execution that completed after its read becomes `canceled`. A
  `trigger()` that fails between its INSERT and the queue leaves a `pending` row nobody takes up.
* A document stays `processing` for good, with no call thrown, when its handlers die more often than
  `maxStalledCount` (1) allows: the queue fails the job by itself and nothing writes the document. So it does
  when a handler whose lock expired marks it `processing` after its successor has made it `ready`, and dies. And
  an upload answered with an error, because `queue.add` threw although Redis had the job, may be `failed` while
  its chunks are stored, or become `ready` later.
* The helper nodes that fixes insert (consent gate, anonymiser, guardrail and others) have no implementation in
  `packages/engine/src/nodes/index.ts:31-55`: `resolveNode` throws on them (`execution-engine.ts:219`), and a workflow
  that ran before the fix fails after it.
* A click reported while a list is loaded for the first time does not drop that load: the list from before the
  click is taken for fresh and shown for the stale time of 30 s.
* A fix writes the version it read plus one (`docs/LLD.md:36`: "version increment on graph mutation"): a
  save in between is lost and its version given twice. `INSERT_PII_ANONYMISER_DOWNSTREAM` does not close
  its own gap, whose check looks at the configuration of the node.
* `docs/FRONTEND_PRODUCT_UX_SPEC.md:525` has a GET repeated at most twice; the two levels send up to six.
  A sign-in or sign-out during `refreshUser` may leave user and stored token of different
  people; `SessionAgrees` speaks of the other cases. The cache survives a sign-out.
* `user_consents` and `domain_configs` have no unique index on their key: two first requests leave two
  rows, of which a later request updates either (`stale`). A seeding of the models that throws half-way is not
  resumed - a request that stores one of the defaults before the seeding comes to it is enough, as the
  INSERT then fails on the index and the defaults after it are never stored -, and one that began before an administrator's change may overwrite it.

## 6. What is proved

Each theorem holds for every value of the constants that the `ASSUME` of the component's module allows:
any number of executions, handlers, nodes, documents, clicks, any graph, any bound on mishaps. A safety
theorem comes from an invariant that is inductive, with one lemma or step per action; where the property is
not inductive, what has to be added is the explanation of why the code is right, and is named here. TLC
checks these invariants on the instances of section 4 before they are proved.

### Executions (`ExecutionProofs`, under `ConstantsAssumption`)

* `TypeCorrect`: `TypeOK` with `Bookkeeping`. `attemptsMade` stays within its type only because an active
  job has attempts left (`JobBooks`), a handler that is not idle works on an execution whose job exists
  (`HandlerBooks`), and the cursor stays below `NumNodes` where a node is taken (`Cursors`).
* `RowStagesInvariant`: no UPDATE brings a deleted row back, a handler inside its try block never meets
  `pending`, and the branch for stopped executions is reached only when the workflow is gone.
  `OnlyStopCancelsHolds` follows: only `stop()` writes `canceled`.
* `CompletedHasItsSteps`: `CompletedIsRecorded`, from `RecordInv`. What a pass has recorded stays as long as
  nothing deletes it, and the engine says "completed" only at the end of the graph: the pass that completes
  has recorded every node itself.
* `CompletedIsKeptHolds`: from `OwnerInv` - until a lock expires, the owner of the lock is the only handler
  on an execution, and once the row says "completed" it has only to acknowledge (`OwnerInvariant`).
* `ExpiredRunsNothingHolds`: from `AuthBooks` - a job has an authorization, and it is issued once.
* `HeldStopIsObeyedHolds`: from `StopInv`. A stop written in time leaves one of four situations
  (`StaysStopped`), and each step leads from one of them to one of them: the row is stopped and nobody is
  about to overwrite it, it is gone, the last pass has only to return, or the retries that do overwrite it
  find the authorization expired.
* `RestIsSettled`: `SettledAtRest`, from `Watched`: for every row still `pending` or `running` somebody is
  known who will write it, a handler, a waiting job, the trigger, or the stall check of a lost lock.
* `RerunsHaveACauseHolds`: from `StartsAreBudgeted`. Starts of a node, handlers that may still start it and
  the delivery still to come are together at most one more than locks expired and calls thrown. The number of
  handlers is that of a set, so no bound on them is needed.
* `LifecycleImplemented`: `Execution` implements `ExecutionLifecycle`; each step maps to an abstract step
  (`AbstractStep`) or is one the client does not see.
* `HandlersWalkHolds`: every handler's view of the engine is an `EngineWalk`, from `WalkBooks` (a walk that has
  given nothing up has the result "completed"). A handler is moved by its own steps, its faults, the queue
  and its crash alone (`OthersStandStill`).

### The engine (`EngineProofs`, under `EngineAssumption`)

* `EngineTypes`: `TypeOK`, with `Turn`: during a node's turn there is a current node.
* `TwiceOnlyIfSkippedHolds`: from `Ordered` and `Behind` - steps lie behind the current node, except that of a
  node just skipped.
* `CompletedIsCleanHolds`: from `Clean`. While the status is "completed", the i-th step is that of the i-th
  node, none has failed, and no limit is passed wherever the walk goes on.
* `BranchesDecideHolds`: from `DecidedWhileGoing` - each node dealt with ran exactly if an edge of a parent was
  satisfied. `ReachedRan` then shows the recursive function `Reached` equal to "ran": the least node where
  the two differ would have a parent before it where they differ.
* `RerunsWithinLimitHolds`: from `RerunBooks` - the sum of the repetitions, and one for an attempt about to be
  repeated, are within `retryCount`, which is within the limit.
* `WalkImplemented`: `Engine` implements `EngineWalk`, so that what `HandlersWalkHolds` shows of the handlers is
  the interface this engine has.
* `ValidIffAcyclicHolds`, `OrderLeadsForwardHolds`: Kahn's algorithm in `DagValidator`, for any list
  of nodes and edges (`GraphAssumption`). `EngineAssumption` takes edges that lead forward in the execution
  order for granted; this is where it comes from (`OrderLeadsForward`, which no run lists, as the two
  properties of the waves say more on its instance). `DagInv`: a node's `inDegree` is the number of its edges whose
  source is not in the order or whose turn in the list of neighbours is still to come (`Degrees`); the nodes
  without such edges are those in the queue and in the order, each once (`Free`); a node comes after all with
  an edge to it (`Sorted`). If nodes are left, each has an edge from another one left (`RestIsCyclic`); if none
  is, the first in the order of any set has no edge from the set (`OrderIsAcyclic`).

* `WavesKeepTheOrderHolds`, `WavesAreReadyHolds`: `buildExecutionWaves` on the order of Kahn's algorithm, for any
  list of nodes and edges. The engine walks the waves and appends the skipped rest by position in the order;
  that the two agree is a consequence of the queue being first in, first out, which is what `InTurn` says (in
  `LineInv`): along the order and the queue behind it, the last place from which an edge leads to a node
  does not fall. The level of a node is that of its deepest parent plus one (`LevelOfIs`); by a least
  counterexample it does not fall along the order either (`LevelsRise`), and no level is missing
  (`NoGaps`). So each wave is a stretch of the order (`WaveIs`), and the stretches meet (`FlatWaves`).
* `WalkDescends`, `ValidationDescends`: each step of the engine, and of `validateDAG`, makes a tuple of natural
  numbers smaller - what is left of the nodes and of the current one's turn (`NodesLeft`, `TurnLeft`); of the
  phases, of the phase's loop and of the list of neighbours. No loop of either is infinite, for any policies
  and limits and any cycles of the graph. It is the half of `Ends` that does not need fairness: what TLC adds
  is that some step is possible until the walk has ended.

### Retrieval (`RetrievalProofs`, under `RetrievalAssumption`, `PlansAssumption` and `FilterAssumption`)

* `BudgetIsBounded`: requests and failures, those in flight included, pass their limits by less than the
  number of branches, and not at all where branches take turns. `BudgetInv` adds that the branches that ask
  did so within the limits (`TurnsKept`).
* `GivesUpOnlyAtTheEndHolds`, `SatisfiedIsTakenHolds`, `NothingAskedAfterTheWinnerHolds`: from `VisitInv`.
  `Progress` says where a branch is by what it has asked (`maxRetries` is between 0 and 5, as the code clamps
  it), and `InOrder` that in turn the branches before the running one are done without success and those
  after it have not started.
* `MergeKeepsTheBestHolds`: a merged result, for any answers with integer scores. There is a way to sort the best
  matches (`SortedExists`) and every such way leaves out only what was beaten (`MergeLeavesTheBest`);
  `BestExists` finds among the matches of a chunk the one kept, and `FlatHasAll` shows that the branches put
  one after the other have all their matches, so that nothing is lost before the merge (`FoundHasAll`).
  Scores are compared and nothing else, so integers stand for the code's fractions.

`PlansAssumption` and `FilterAssumption` say that selecting from a sequence leaves a sequence of its elements:
`SelectSeq` has no definition the provers can expand. TLC evaluates both.

### Ingestion (`IngestionProofs`, under `IngestionAssumption`)

* `ReadyIsSearchableHolds`, `JobAndDocumentAgreeHolds`: from `IngestionInv`. `Holding` says who can have a
  document, `Losses` that each lock lost makes at most one holder more, each of which may add its set of chunks
  once; a document whose lock was never lost is where its one holder says (`Exclusive`), and holders that
  share a document agree on what becomes of it as long as no call fails (`Agreed`).

### Scheduler (`SchedulerProofs`, under `SchedulerAssumption`)

* `TriggersAreDue`: `NotBeforeDue`, from `DueInv`: unless checks overlapped, what a check is triggering is
  still due, as nobody else has written the map.
* `WaitsAreBounded`: `NotLongAfterDue`, from `WaitInv`: no timer is passed over, and what was due at the last one
  either waits for a check that has not come to it yet (`SeenInTime`) or is accounted for by failures and slow
  checks (`Settled`).
* `ChecksSeeAll`: the action property `EachWorkflowIsSeen`.

### Editing (`WorkflowEditingProofs`, under `EditingAssumption`)

* `FixesKeepItValid`: from `EditingInv` - an id still to be given is in no graph, so the helpers of a fix
  are new to the graph it has read, even if that was written long ago. `FixKeepsValid`: a helper upstream
  has no predecessor, one downstream has none but the node, and a set of nodes closed under predecessors would
  have been closed before.
* `StoredScoresAreOfTheGraph`: from `ScoringInv` - until somebody interferes, what a request has read is what
  the database has, and the nodes it is through with have their scores.
* `FixesHelp`: `FixHelps`. A fix keeps types and, but for what it switches on, facts (`FixedFacts`), and each node
  keeps its predecessors, so that what a check finds by searching upstream is found after the fix, too
  (`FixedUpstream`, from `LevelByLevel` and `SearchGrows` on the search level by level). Each check passed
  before is therefore passed after (`FixKeepsChecks`) and the gaps asked for are closed (`FixClosesGaps`); a
  part has more points with one check more (`PointsGrow`), and the total rounds the sum of three parts, of which
  none falls and one grows by 25 or more (`TotalGrows`). The ids are a finite set, as those of any run of the program.

### Keyed rows (`RecordsProofs`, under `RecordsAssumption`)

* `RegistryIsSeeded`: `SeededCompletely`, from `SeedingOK`: the defaults stored have those before them stored,
  and where some are missing a seeding is at the first of these. It cannot fail, since who stores that default
  before it is a seeding at the same place, which goes on in its stead.
* `OneRowForAKey`: `OneRowWithTheLastWrite`, from `KeyInv`: rows of a key and requests that have found none
  and will insert one (`Inserters`) are together at most as many as there are slots for requests, and who
  is about to insert on fresh knowledge is right that there is no row (`Looked`). The set of slots is finite.
  A deletion takes rows and what was last written together (`DeleteKeeps`).

### Frontend (`FrontendProofs`, under `FrontendAssumption`)

* `ClickTakesEffectOnceHolds`: from `ClickInv`. A call has one exchange, and one more only where it gave up
  waiting for a mutation (`OneExchange`); a click not sent has had no effect and one done has had the one
  reported (`Effects`), a request on its way has had none yet and an answer that says success carries it
  (`Replies`).
* `ShownIsAfterTheClickHolds`: from `Fresh` - a list on its way to the cache was read after every click
  reported a success, but for those in `kept`: invalidating drops the other lists, and where it does not the
  click is in `kept` until a load begins that the server answers after it.
* `SessionAgreesHolds`: from `Refreshing` - the user that `refreshUser` asks for is that of the stored token
  unless the session changed meanwhile.

**Sums, searches, sequences.** Induction over data needs an operator as a parameter, which the provers
cannot instantiate. What the proofs need of `MapThenSumSet`, of `Reached`, of the order of Kahn's algorithm, of
the levels, of `FlattenSeq` and of the search upstream is shown by a least counterexample instead
(`LeastNumber`, `SmallestSet`, `GreatestIsMember`: strict inclusion of finite sets is well-founded). A recursive
function is first shown to exist: each of its prefixes does, and what is chosen for it then satisfies its
equation. `SortSeq` and `SelectSeq` are opaque to the provers; where a theorem is about the result of
sorting, the models choose the sorted sequence by what it has to satisfy (`Ascending`, `MergeMatches`), which
is one sequence only, as the order is strict.

**Only model-checked**, as liveness under fairness is out of the prover's reach: `EveryJobEnds`,
`AcceptedIsSettled`, `EachDocumentSettles` and `Ends`. Every other property of a passing run is a theorem.

## 7. Not modelled

* IAM, policies, RBAC, ABAC: a decision is a chain of reads and one answer; nothing relates two of them.
* `ByokService` is called by no program; the routes write a whole configuration in one upsert. API keys,
  publications, memberships and invitations are single statements on unique indexes.
* KPI, alerts, access requests, GDPR export: independent reads and inserts. Templates
  and most of the database package are tables of constants and schemas.
* LLM providers and HTTP routes: I/O, parsing and forwarding. What a node computes is an input of the
  models, as is what the vector search returns.
* Pages, forms and role guards of the frontend: rendering.
* The telemetry writes of the handler whose errors it swallows, and the configuration overlays it merges
  before a run: no modelled step reads them.
* How the configurations of several levels are merged (`resolve`), and hyperparameter profiles.
