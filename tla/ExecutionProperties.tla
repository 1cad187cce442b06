------------------------- MODULE ExecutionProperties -------------------------
(***************************************************************************)
(* What the life of an execution should be, and what the code makes of it. *)
(***************************************************************************)
EXTENDS Execution, FiniteSets

\* No handler is on e.
AtRest(e) == \A h \in Handlers : exec[h] # e

\* Trouble that no retry makes good: a database call threw, a handler died that
\* had lost its lock before, or the queue gave the job up as stalled.
Unrepaired(e) == mishaps[e] \cap {"fault", "orphan", "stalledOut"} # {}

(***************************************************************************)
(* Invariants.                                                             *)
(***************************************************************************)
\* A node has effects outside the database (HTTP calls, LLM calls), so running it
\* again matters.  A failed node never causes a retry of the job: a node is
\* started once, and once more only for a lock that expired or a database call
\* that threw.
RerunsHaveACause ==
    \A e \in Execs, n \in Nodes : started[e][n] <= 1 + stalled[e] + faults

\* An execution that is reported completed has a step row for each of its nodes,
\* whichever attempts and handlers produced them, until the sweep removes them.
CompletedIsRecorded ==
    \A e \in Execs : row[e] = "completed" /\ ~sweeping[e] => recorded[e] = Nodes

\* When the queue is done with an execution and no handler is on it any more, its
\* row says neither "pending" nor "running", although a handler may have crashed
\* in the middle or lost its lock to a second one.
SettledAtRest ==
    \A e \in Execs :
        job[e] \in {"completed", "failed"} /\ AtRest(e) /\ ~Unrepaired(e)
            => row[e] \notin Active

(***************************************************************************)
(* Action properties.                                                      *)
(***************************************************************************)
\* Once the authorization has expired and no handler has an execution in the
\* engine, none ever gets there: "Authorization failures fail execution and
\* prevent node runtime", for every later attempt as well.
EngineEmpty(e) == \A h \in Handlers : exec[h] = e => pc[h] \notin Engaged \cup {"load"}

ExpiredRunsNothing ==
    [][\A e \in Execs : auth[e] = "expired" /\ EngineEmpty(e) => EngineEmpty(e)']_vars

\* A stop that was written while no handler stood between its read of the status
\* and its write of "running" is obeyed: no node is started after it, unless the
\* lock of the job expires or a database call throws.
HeldStopIsObeyed ==
    [][\A h \in Handlers :
          LET e == exec[h] IN
          pc[h] = "stepStart" /\ pc'[h] = "runNode" /\ heldStop[e]
              => stalled[e] > 0 \/ "fault" \in mishaps[e]]_vars

\* A completed execution stays completed unless it is deleted, a stop that had
\* read an active status before overwrites it, or an expired lock makes the queue
\* deliver the job a second time.
CompletedIsKept ==
    [][\A e \in Execs :
          row[e] = "completed" /\ row'[e] # "completed"
              => \/ row'[e] = "none"
                 \/ row'[e] = "canceled" /\ stopping[e]
                 \/ stalled[e] > 0]_vars

\* Only stop() ever makes an execution "canceled": the branch of the worker that
\* writes "Stopped by user" is left to executions whose row is gone.
OnlyStopCancels ==
    [][\A e \in Execs :
          row[e] # "canceled" /\ row'[e] = "canceled" => stopping[e] /\ ~stopping'[e]]_vars

(***************************************************************************)
(* Liveness.                                                               *)
(***************************************************************************)
\* Every job that was added ends, whatever crashes, expires or throws.
EveryJobEnds ==
    \A e \in Execs : job[e] = "waiting" ~> job[e] \in {"completed", "failed"}

\* An execution whose job the queue has taken, be the trigger answered or not,
\* reaches a status a client stops polling at, or is deleted, or met trouble no
\* retry makes good.
AcceptedIsSettled ==
    \A e \in Execs :
        job[e] # "none" ~> row[e] \in Terminal \cup {"none"} \/ Unrepaired(e)

(***************************************************************************)
(* What the documentation, the tests and the messages of the repository    *)
(* promise and the code does not do.                                       *)
(***************************************************************************)
\* "Stop/cancel active execution": a canceled execution does not run again.  The
\* handler overwrites a stop written between its read and its write of "running".
StopSticks ==
    [][\A e \in Execs : row[e] = "canceled" => row'[e] # "running"]_vars

(***************************************************************************)
(* The parts of the inductive invariant.                                   *)
(***************************************************************************)
\* The queue's limits are not used up before the job ends, an expired or ended job
\* is locked by nobody, and a job is the last thing trigger() makes.
JobBooks ==
    /\ \A e \in Execs : job[e] \notin {"completed", "failed"}
          => attemptsMade[e] < MaxAttempts /\ stalled[e] <= MaxStalled
    /\ \A e \in Execs : owner[e] # None => job[e] = "active"
    /\ \A e \in Execs : trigger[e] \in {"idle", "inserted", "issued"} => job[e] = "none"

\* A handler is on an execution exactly while it is not idle.
HandlerBooks ==
    /\ \A h \in Handlers : pc[h] = "idle" => exec[h] = None
    /\ \A h \in Handlers : pc[h] # "idle" => exec[h] \in Execs /\ job[exec[h]] # "none"

\* Where a pass stands in the graph.
Cursors ==
    /\ \A h \in Handlers : pc[h] \in {"idle", "read", "mark", "authorize", "load"}
          => cursor[h] = 0
    /\ \A h \in Handlers : pc[h] \in {"stepStart", "runNode", "record"}
          => cursor[h] < NumNodes

Bookkeeping == JobBooks /\ HandlerBooks /\ Cursors

\* A row exists only after its trigger, and not after its workflow was deleted.
RowExists ==
    /\ \A e \in Execs : trigger[e] = "idle" => row[e] = "none"
    /\ \A e \in Execs : ~workflow[e] => row[e] = "none"

\* A handler takes the "canceled" branch only when the workflow is gone.
StoppedIsGone ==
    \A h \in Handlers : pc[h] = "cancelWrite" => ~workflow[exec[h]]

\* A handler in its try block has taken the row out of "pending".
PastMark ==
    \A h \in Handlers : pc[h] \notin {"idle", "read", "mark", "ack", "nack"}
        => row[exec[h]] # "pending"

RowStages == RowExists /\ StoppedIsGone /\ PastMark

\* What a pass has recorded stays, as long as nothing deletes it.
Kept(e) == row[e] # "none" /\ ~sweeping[e]

PassRecorded ==
    \A h \in Handlers : pc[h] \in Engaged \cup {"finish"} /\ Kept(exec[h])
        => 1..cursor[h] \subseteq recorded[exec[h]]

\* The engine reports "completed" only at the end of the graph.
CompletedAtEnd ==
    \A h \in Handlers : pc[h] = "finish" /\ verdict[h] = "completed"
        => cursor[h] = NumNodes

RecordInv == PassRecorded /\ CompletedAtEnd /\ CompletedIsRecorded

\* Until a lock expires the handler that holds it is the only one on the execution.
OnlyTheOwner ==
    \A e \in Execs, h \in Handlers : stalled[e] = 0 /\ exec[h] = e => owner[e] = h

\* Before there is a job no handler has written the row.
UnqueuedIsUntouched ==
    \A e \in Execs : job[e] = "none" => row[e] \notin {"running", "completed", "failed"}

\* Who completed an execution has nothing left to do but to return.
CompletedIsReturning ==
    \A e \in Execs : stalled[e] = 0 /\ row[e] = "completed"
        => /\ job[e] \in {"active", "completed"}
           /\ \A h \in Handlers : exec[h] = e => pc[h] = "ack"

OwnerInv == OnlyTheOwner /\ UnqueuedIsUntouched /\ CompletedIsReturning

\* There is no job without an authorization, which is issued once, and a pass fails
\* before the engine starts only for the want of one.
AuthBooks ==
    /\ \A e \in Execs : trigger[e] = "issued" \/ job[e] # "none" => auth[e] # "none"
    /\ \A e \in Execs : trigger[e] \in {"idle", "inserted"} => auth[e] = "none"
    /\ \A h \in Handlers : pc[h] \in {"failWrite", "nack"} /\ "fault" \notin mishaps[exec[h]]
          => auth[exec[h]] = "expired" \/ row[exec[h]] = "none"

\* What a stop that was written in time leaves of an execution: the row stays
\* stopped, or what is left of the last pass has only to return, or the retries
\* that overwrite the row find the authorization expired.
StaysStopped(e) ==
    \/ row[e] = "none"
    \/ row[e] = "canceled" /\ \A h \in Handlers : exec[h] = e => pc[h] # "mark"
    \/ job[e] \notin {"none", "waiting"} /\ \A h \in Handlers : exec[h] = e => pc[h] = "ack"
    \/ auth[e] = "expired" /\ EngineEmpty(e)

StopBooks ==
    \A e \in Execs : heldStop[e]
        => /\ trigger[e] # "idle"
           /\ stalled[e] = 0 /\ "fault" \notin mishaps[e] => StaysStopped(e)

StopInv == OwnerInv /\ AuthBooks /\ StopBooks

\* A handler that is past its write of "running" and before its last write.
Committed == {"authorize", "load", "finish", "failWrite", "cancelWrite"} \cup Engaged

WillWrite(h, e) == exec[h] = e /\ pc[h] \in Committed

LockedBefore(e) ==
    job[e] = "active" /\ (exec[owner[e]] = e => pc[owner[e]] \in {"read", "mark"})

\* A row that is still "pending" or "running" has somebody who will write it: the
\* job is not made, or it waits, or a handler is before its last write, or the
\* handler that holds the lock is before its first one, or is gone and its lock is
\* about to expire.
IsWatched(e) ==
    \/ job[e] \in {"none", "waiting"}
    \/ \E h \in Handlers : WillWrite(h, e)
    \/ LockedBefore(e)

Watched ==
    /\ \A e \in Execs : job[e] = "active" => owner[e] # None
    /\ \A e \in Execs : row[e] \in Active /\ ~Unrepaired(e) => IsWatched(e)

\* A handler whose pass, or whose next attempt, may still start node n.
MayStart(h, n) ==
    \/ pc[h] \in {"read", "mark", "authorize", "load", "failWrite", "nack"}
    \/ pc[h] \in {"stepStart", "runNode"} /\ cursor[h] < n
    \/ pc[h] = "record" /\ cursor[h] + 1 < n

Starters(e, n) == {h \in Handlers : exec[h] = e /\ MayStart(h, n)}

\* A job that is still to be handed out for the first time, or again.
Deliveries(e) == IF job[e] \in {"none", "waiting"} THEN 1 ELSE 0

\* The starts there have been and those that can still come have their causes: the
\* first delivery of the job, a lock that expired, a call that threw.
IsBudgeted(e, n) ==
    /\ IsFiniteSet(Starters(e, n))
    /\ started[e][n] + Cardinality(Starters(e, n)) + Deliveries(e)
          <= 1 + stalled[e] + faults

StartsAreBudgeted == \A e \in Execs, n \in Nodes : IsBudgeted(e, n)

(***************************************************************************)
(* The abstract life of an execution (module ExecutionLifecycle).          *)
(***************************************************************************)
stage == [e \in Execs |->
    IF job[e] = "none" THEN "unqueued"
    ELSE IF job[e] \in {"completed", "failed"} /\ AtRest(e) THEN "over"
    ELSE "live"]

born == [e \in Execs |-> trigger[e] # "idle"]

Lifecycle == INSTANCE ExecutionLifecycle

\* Every step of the three programs is a step of the abstract life, or none.
ImplementsLifecycle == Lifecycle!Spec

(***************************************************************************)
(* The walk of the engine, inside a handler (module EngineWalk).           *)
(***************************************************************************)
WalkPoint(h) ==
    IF pc[h] \in Engaged THEN pc[h] ELSE IF pc[h] = "finish" THEN "end" ELSE "begin"

Walk(h) == INSTANCE EngineWalk WITH
    point <- WalkPoint(h),
    cursor <- IF pc[h] \in Engaged THEN cursor[h] ELSE 0,
    outcome <- outcome[h],
    result <- IF pc[h] \in {"skipRest", "finish"} THEN verdict[h] ELSE "completed"

\* Before the walk has given anything up its result is "completed", and a node's
\* outcome is kept only until it is recorded.
WalkBooks ==
    /\ \A h \in Handlers : pc[h] \in {"idle", "read", "mark", "authorize", "load",
                                     "stepStart", "runNode"}
          => verdict[h] = "completed"
    /\ \A h \in Handlers : pc[h] = "record" /\ outcome[h] # "failed"
          => verdict[h] = "completed"
    /\ \A h \in Handlers : pc[h] # "record" => outcome[h] = "completed"

\* What a handler sees of executeWorkflow is the walk that module Engine implements,
\* begun anew by each attempt and left by each crash.
HandlersWalk ==
    /\ \A h \in Handlers : Walk(h)!Init
    /\ [][\A h \in Handlers : Walk(h)!Next \/ UNCHANGED Walk(h)!walk]_vars
==============================================================================
