--------------------------- MODULE ExecutionProofs ---------------------------
(***************************************************************************)
(* Theorems about the life of an execution, for any number of executions,  *)
(* handlers, nodes, attempts, expiries and faults.                         *)
(***************************************************************************)
EXTENDS ExecutionProperties, FiniteSetTheorems, TLAPS

(***************************************************************************)
(* Type correctness.                                                       *)
(***************************************************************************)
\* A group of variables that a step leaves alone keeps its types.
LEMMA FrameTypes ==
    ASSUME TypeOK
    PROVE  /\ UNCHANGED dbVars => DbType'
           /\ UNCHANGED apiVars => ApiType'
           /\ UNCHANGED queueVars => QueueType'
           /\ UNCHANGED <<pc, exec, passVars>> => HandlerType'
           /\ UNCHANGED historyVars => HistoryType'
  BY DEF TypeOK, DbType, ApiType, QueueType, HandlerType, HistoryType,
         dbVars, apiVars, queueVars, passVars, historyVars

\* Every step keeps the types: the limits of the queue, the position of each pass.
LEMMA TypeStep ==
    ASSUME TypeOK, Bookkeeping, [Next]_vars
    PROVE  TypeOK'
<1> USE ConstantsAssumption
<1>1. ASSUME NEW e \in Execs, Api(e) PROVE TypeOK'
  <2>1. CASE TriggerInsert(e)
    <3>1. DbType'
      BY <2>1 DEF TriggerInsert, TypeOK, DbType, Statuses, Nodes
    <3>2. ApiType'
      BY <2>1 DEF TriggerInsert, TypeOK, ApiType
    <3> QED BY <2>1, <3>1, <3>2, FrameTypes DEF TriggerInsert, TypeOK
  <2>2. CASE TriggerAuthorize(e)
    <3>1. DbType'
      BY <2>2 DEF TriggerAuthorize, TypeOK, DbType, Statuses, Nodes
    <3>2. ApiType'
      BY <2>2 DEF TriggerAuthorize, TypeOK, ApiType
    <3> QED BY <2>2, <3>1, <3>2, FrameTypes DEF TriggerAuthorize, TypeOK
  <2>3. CASE TriggerEnqueue(e)
    <3>1. ApiType'
      BY <2>3 DEF TriggerEnqueue, TypeOK, ApiType
    <3>2. QueueType'
      BY <2>3 DEF TriggerEnqueue, TypeOK, QueueType
    <3> QED BY <2>3, <3>1, <3>2, FrameTypes DEF TriggerEnqueue, TypeOK
  <2>4. CASE TriggerFail(e)
    <3>1. ApiType'
      BY <2>4 DEF TriggerFail, TypeOK, ApiType
    <3> QED BY <2>4, <3>1, FrameTypes DEF TriggerFail, TypeOK
  <2>5. CASE Expire(e)
    <3>1. DbType'
      BY <2>5 DEF Expire, TypeOK, DbType, Statuses, Nodes
    <3> QED BY <2>5, <3>1, FrameTypes DEF Expire, TypeOK
  <2>6. CASE StopRead(e)
    <3>1. ApiType'
      BY <2>6 DEF StopRead, TypeOK, ApiType
    <3> QED BY <2>6, <3>1, FrameTypes DEF StopRead, TypeOK
  <2>7. CASE StopWrite(e)
    <3>1. DbType'
      BY <2>7 DEF StopWrite, Update, TypeOK, DbType, Statuses, Nodes
    <3>2. ApiType'
      BY <2>7 DEF StopWrite, Update, TypeOK, ApiType
    <3>3. HistoryType'
      BY <2>7 DEF StopWrite, Update, TypeOK, HistoryType, Nodes, historyVars
    <3> QED BY <2>7, <3>1, <3>2, <3>3, FrameTypes DEF StopWrite, TypeOK
  <2>8. CASE DeleteWorkflow(e)
    <3>1. DbType'
      BY <2>8 DEF DeleteWorkflow, TypeOK, DbType, Statuses, Nodes
    <3> QED BY <2>8, <3>1, FrameTypes DEF DeleteWorkflow, TypeOK
  <2>9. CASE SweepSteps(e)
    <3>1. DbType'
      BY <2>9 DEF SweepSteps, TypeOK, DbType, Statuses, Nodes
    <3>2. ApiType'
      BY <2>9 DEF SweepSteps, TypeOK, ApiType
    <3> QED BY <2>9, <3>1, <3>2, FrameTypes DEF SweepSteps, TypeOK
  <2>10. CASE SweepRow(e)
    <3>1. DbType'
      BY <2>10 DEF SweepRow, TypeOK, DbType, Statuses, Nodes
    <3> QED BY <2>10, <3>1, FrameTypes DEF SweepRow, TypeOK
  <2> QED BY <1>1, <2>1, <2>2, <2>3, <2>4, <2>5, <2>6, <2>7, <2>8, <2>9, <2>10 DEF Api
<1>2. ASSUME NEW e \in Execs, Stall(e) PROVE TypeOK'
  <2>1. QueueType'
    BY <1>2 DEF Stall, TypeOK, QueueType, Bookkeeping, JobBooks
  <2>2. HistoryType'
    BY <1>2 DEF Stall, TypeOK, HistoryType, Nodes, historyVars
  <2> QED BY <1>2, <2>1, <2>2, FrameTypes DEF Stall, TypeOK
<1>3. ASSUME NEW h \in Handlers, HandlerStep(h) PROVE TypeOK'
  <2>1. CASE ReadStatus(h)
    <3>1. HandlerType'
      BY <2>1 DEF ReadStatus, Goto, TypeOK, HandlerType, Points, Outcomes, passVars
    <3> QED BY <2>1, <3>1, FrameTypes DEF ReadStatus, TypeOK
  <2>2. CASE MarkRunning(h)
    <3>1. exec[h] \in Execs
      BY <2>2 DEF MarkRunning, Bookkeeping, HandlerBooks
    <3>2. DbType'
      BY <2>2, <3>1 DEF MarkRunning, Goto, Update, TypeOK, DbType, Statuses, Nodes
    <3>3. HandlerType'
      BY <2>2, <3>1 DEF MarkRunning, Goto, Update, TypeOK, HandlerType, Points, Outcomes,
         passVars
    <3> QED BY <2>2, <3>2, <3>3, FrameTypes DEF MarkRunning, TypeOK
  <2>3. CASE Authorize(h)
    <3>1. HandlerType'
      BY <2>3 DEF Authorize, Goto, TypeOK, HandlerType, Points, Outcomes, passVars
    <3> QED BY <2>3, <3>1, FrameTypes DEF Authorize, TypeOK
  <2>4. CASE LoadWorkflow(h)
    <3>1. HandlerType'
      BY <2>4 DEF LoadWorkflow, Goto, NextPoint, TypeOK, HandlerType, Points, Outcomes,
         passVars
    <3> QED BY <2>4, <3>1, FrameTypes DEF LoadWorkflow, TypeOK
  <2>5. CASE RejectGraph(h)
    <3>1. HandlerType'
      BY <2>5 DEF RejectGraph, Goto, TypeOK, HandlerType, Points, Outcomes, passVars
    <3> QED BY <2>5, <3>1, FrameTypes DEF RejectGraph, TypeOK
  <2>6. CASE StepStart(h)
    <3>1. HandlerType'
      BY <2>6 DEF StepStart, Goto, TypeOK, HandlerType, Points, Outcomes, passVars
    <3> QED BY <2>6, <3>1, FrameTypes DEF StepStart, TypeOK
  <2>7. CASE RunNode(h)
    <3>1. exec[h] \in Execs /\ cursor[h] + 1 \in Nodes
      BY <2>7 DEF RunNode, Bookkeeping, HandlerBooks, Cursors,
     TypeOK, HandlerType, Nodes
    <3>2. HandlerType'
      BY <2>7, <3>1 DEF RunNode, Goto, TypeOK, HandlerType, Points, Outcomes, passVars
    <3>3. HistoryType'
      BY <2>7, <3>1 DEF RunNode, Goto, TypeOK, HistoryType, Nodes, historyVars
    <3> QED BY <2>7, <3>2, <3>3, FrameTypes DEF RunNode, TypeOK
  <2>8. CASE SkipNode(h)
    <3>1. HandlerType'
      BY <2>8 DEF SkipNode, Goto, TypeOK, HandlerType, Points, Outcomes, passVars
    <3> QED BY <2>8, <3>1, FrameTypes DEF SkipNode, TypeOK
  <2>9. CASE RecordStep(h)
    <3>1. exec[h] \in Execs /\ cursor[h] + 1 \in Nodes /\ cursor[h] < NumNodes
      BY <2>9 DEF RecordStep, Bookkeeping, HandlerBooks, Cursors,
     TypeOK, HandlerType, Nodes
    <3>2. DbType'
      BY <2>9, <3>1 DEF RecordStep, Goto, NextPoint, TypeOK, DbType, Statuses, Nodes
    <3>3. HandlerType'
      BY <2>9, <3>1 DEF RecordStep, Goto, NextPoint, TypeOK, HandlerType, Points,
         Outcomes, passVars
    <3> QED BY <2>9, <3>2, <3>3, FrameTypes DEF RecordStep, TypeOK
  <2>10. CASE SkipRest(h)
    <3>1. exec[h] \in Execs /\ cursor[h] \in 0..NumNodes
      BY <2>10 DEF SkipRest, Bookkeeping, HandlerBooks, Cursors,
     TypeOK, HandlerType, Nodes
    <3>2. DbType'
      BY <2>10, <3>1 DEF SkipRest, Goto, TypeOK, DbType, Statuses, Nodes
    <3>3. HandlerType'
      BY <2>10, <3>1 DEF SkipRest, Goto, TypeOK, HandlerType, Points, Outcomes, passVars
    <3> QED BY <2>10, <3>2, <3>3, FrameTypes DEF SkipRest, TypeOK
  <2>11. CASE Finish(h)
    <3>1. exec[h] \in Execs /\ verdict[h] \in {"completed", "failed"}
      BY <2>11 DEF Finish, Bookkeeping, HandlerBooks, Cursors,
     TypeOK, HandlerType, Nodes
    <3>2. DbType'
      BY <2>11, <3>1 DEF Finish, Goto, Update, TypeOK, DbType, Statuses, Nodes
    <3>3. HandlerType'
      BY <2>11, <3>1 DEF Finish, Goto, Update, TypeOK, HandlerType, Points, Outcomes,
         passVars
    <3> QED BY <2>11, <3>2, <3>3, FrameTypes DEF Finish, TypeOK
  <2>12. CASE FailWrite(h)
    <3>1. exec[h] \in Execs
      BY <2>12 DEF FailWrite, Bookkeeping, HandlerBooks
    <3>2. DbType'
      BY <2>12, <3>1 DEF FailWrite, Goto, Update, TypeOK, DbType, Statuses, Nodes
    <3>3. HandlerType'
      BY <2>12, <3>1 DEF FailWrite, Goto, Update, TypeOK, HandlerType, Points, Outcomes,
         passVars
    <3> QED BY <2>12, <3>2, <3>3, FrameTypes DEF FailWrite, TypeOK
  <2>13. CASE CancelWrite(h)
    <3>1. exec[h] \in Execs
      BY <2>13 DEF CancelWrite, Bookkeeping, HandlerBooks
    <3>2. DbType'
      BY <2>13, <3>1 DEF CancelWrite, Goto, Update, TypeOK, DbType, Statuses, Nodes
    <3>3. HandlerType'
      BY <2>13, <3>1 DEF CancelWrite, Goto, Update, TypeOK, HandlerType, Points, Outcomes,
         passVars
    <3> QED BY <2>13, <3>2, <3>3, FrameTypes DEF CancelWrite, TypeOK
  <2>14. CASE MissingRow(h)
    <3>1. exec[h] \in Execs
      BY <2>14 DEF MissingRow, Bookkeeping, HandlerBooks
    <3>2. HandlerType'
      BY <2>14, <3>1 DEF MissingRow, Throw, AfterThrow, Goto, TypeOK, HandlerType, Points,
         Outcomes, passVars
    <3>3. HistoryType'
      BY <2>14, <3>1 DEF MissingRow, Throw, AfterThrow, Goto, TypeOK, HistoryType, Nodes,
         historyVars
    <3> QED BY <2>14, <3>2, <3>3, FrameTypes DEF MissingRow, TypeOK, Throw
  <2>15. CASE Ack(h)
    <3>1. exec[h] \in Execs
      BY <2>15 DEF Ack, Bookkeeping, HandlerBooks
    <3>2. QueueType'
      BY <2>15, <3>1 DEF Ack, Release, TypeOK, QueueType
    <3>3. HandlerType'
      BY <2>15, <3>1 DEF Ack, Release, TypeOK, HandlerType, Points, Outcomes, passVars
    <3> QED BY <2>15, <3>2, <3>3, FrameTypes DEF Ack, TypeOK
  <2>16. CASE Nack(h)
    <3>1. exec[h] \in Execs
      BY <2>16 DEF Nack, Bookkeeping, HandlerBooks
    <3>2. QueueType'
      BY <2>16, <3>1 DEF Nack, Release, TypeOK, QueueType, Bookkeeping, JobBooks
    <3>3. HandlerType'
      BY <2>16, <3>1 DEF Nack, Release, TypeOK, HandlerType, Points, Outcomes, passVars
    <3> QED BY <2>16, <3>2, <3>3, FrameTypes DEF Nack, TypeOK
  <2> QED BY <1>3, <2>1, <2>2, <2>3, <2>4, <2>5, <2>6, <2>7, <2>8, <2>9, <2>10, <2>11,
      <2>12, <2>13, <2>14, <2>15, <2>16 DEF HandlerStep
<1>4. ASSUME NEW h \in Handlers, DatabaseFault(h) PROVE TypeOK'
  <2>1. exec[h] \in Execs
    BY <1>4 DEF DatabaseFault, Bookkeeping, HandlerBooks
  <2>2. HandlerType'
    BY <1>4, <2>1 DEF DatabaseFault, Throw, AfterThrow, Goto, TypeOK, HandlerType,
       Points, Outcomes, passVars
  <2>3. HistoryType'
    BY <1>4, <2>1 DEF DatabaseFault, Throw, AfterThrow, Goto, TypeOK, HistoryType,
       Nodes, historyVars
  <2> QED BY <1>4, <2>2, <2>3, FrameTypes DEF DatabaseFault, TypeOK, Throw
<1>5. ASSUME NEW h \in Handlers, Crash(h) PROVE TypeOK'
  <2>1. exec[h] \in Execs
    BY <1>5 DEF Crash, Bookkeeping, HandlerBooks
  <2>2. HandlerType'
    BY <1>5, <2>1 DEF Crash, Release, TypeOK, HandlerType, Points, Outcomes, passVars
  <2>3. HistoryType'
    BY <1>5, <2>1 DEF Crash, Release, TypeOK, HistoryType, Nodes, historyVars
  <2> QED BY <1>5, <2>2, <2>3, FrameTypes DEF Crash, TypeOK
<1>6. ASSUME NEW h \in Handlers, NEW e \in Execs, Pickup(h, e) PROVE TypeOK'
  <2>1. QueueType'
    BY <1>6 DEF Pickup, TypeOK, QueueType
  <2>2. HandlerType'
    BY <1>6 DEF Pickup, TypeOK, HandlerType, Points, Outcomes, passVars
  <2> QED BY <1>6, <2>1, <2>2, FrameTypes DEF Pickup, TypeOK
<1>7. CASE UNCHANGED vars
  BY <1>7, FrameTypes DEF vars, TypeOK
<1> QED BY <1>1, <1>2, <1>3, <1>4, <1>5, <1>6, <1>7 DEF Next
\* Each book depends on a few variables only.
LEMMA FrameBooks ==
    ASSUME Bookkeeping
    PROVE  /\ UNCHANGED <<job, attemptsMade, stalled, owner, trigger>> => JobBooks'
           /\ UNCHANGED <<pc, exec, job>> => HandlerBooks'
           /\ UNCHANGED <<pc, cursor>> => Cursors'
           /\ Bookkeeping' = (JobBooks' /\ HandlerBooks' /\ Cursors')
  BY DEF Bookkeeping, JobBooks, HandlerBooks, Cursors

\* Every step keeps the books of the queue and of the handlers in agreement.
LEMMA BookkeepingStep ==
    ASSUME TypeOK, Bookkeeping, [Next]_vars
    PROVE  Bookkeeping'
<1> USE ConstantsAssumption
<1>1. ASSUME NEW e \in Execs, Api(e) PROVE Bookkeeping'
  <2>1. CASE TriggerInsert(e)
    <3>1. JobBooks'
      BY <2>1 DEF TriggerInsert, Bookkeeping, JobBooks, queueVars, TypeOK, ApiType,
         QueueType
    <3> QED BY <2>1, <3>1, FrameBooks
        DEF TriggerInsert, Bookkeeping, apiVars, queueVars, passVars
  <2>2. CASE TriggerAuthorize(e)
    <3>1. JobBooks'
      BY <2>2 DEF TriggerAuthorize, Bookkeeping, JobBooks, queueVars, TypeOK, ApiType,
         QueueType
    <3> QED BY <2>2, <3>1, FrameBooks
        DEF TriggerAuthorize, Bookkeeping, apiVars, queueVars, passVars
  <2>3. CASE TriggerEnqueue(e)
    <3>1. JobBooks'
      BY <2>3 DEF TriggerEnqueue, Bookkeeping, JobBooks, queueVars, TypeOK, ApiType,
         QueueType
    <3>2. HandlerBooks'
      BY <2>3 DEF TriggerEnqueue, Bookkeeping, HandlerBooks, JobBooks, TypeOK, QueueType
    <3> QED BY <2>3, <3>1, <3>2, FrameBooks
        DEF TriggerEnqueue, Bookkeeping, apiVars, queueVars, passVars
  <2>4. CASE TriggerFail(e)
    <3>1. JobBooks'
      BY <2>4 DEF TriggerFail, Bookkeeping, JobBooks, queueVars, TypeOK, ApiType,
         QueueType
    <3> QED BY <2>4, <3>1, FrameBooks
        DEF TriggerFail, Bookkeeping, apiVars, queueVars, passVars
  <2>5. CASE Expire(e)
    BY <2>5, FrameBooks DEF Expire, Bookkeeping, apiVars, queueVars, passVars
  <2>6. CASE StopRead(e)
    BY <2>6, FrameBooks DEF StopRead, Bookkeeping, apiVars, queueVars, passVars
  <2>7. CASE StopWrite(e)
    BY <2>7, FrameBooks DEF StopWrite, Bookkeeping, apiVars, queueVars, passVars
  <2>8. CASE DeleteWorkflow(e)
    BY <2>8, FrameBooks DEF DeleteWorkflow, Bookkeeping, apiVars, queueVars, passVars
  <2>9. CASE SweepSteps(e)
    BY <2>9, FrameBooks DEF SweepSteps, Bookkeeping, apiVars, queueVars, passVars
  <2>10. CASE SweepRow(e)
    BY <2>10, FrameBooks DEF SweepRow, Bookkeeping, apiVars, queueVars, passVars
  <2> QED BY <1>1, <2>1, <2>2, <2>3, <2>4, <2>5, <2>6, <2>7, <2>8, <2>9, <2>10 DEF Api
<1>2. ASSUME NEW e \in Execs, Stall(e) PROVE Bookkeeping'
  <2>1. JobBooks'
    BY <1>2 DEF Stall, Bookkeeping, JobBooks, HandlerBooks, TypeOK, QueueType,
       HandlerType, apiVars
  <2>2. HandlerBooks'
    BY <1>2 DEF Stall, Bookkeeping, HandlerBooks, JobBooks, TypeOK, QueueType
  <2> QED BY <1>2, <2>1, <2>2, FrameBooks
      DEF Stall, Bookkeeping, apiVars, queueVars, passVars
<1>3. ASSUME NEW h \in Handlers, HandlerStep(h) PROVE Bookkeeping'
  <2>1. CASE ReadStatus(h)
    <3>1. HandlerBooks'
      BY <2>1 DEF ReadStatus, Goto, Bookkeeping, HandlerBooks, TypeOK, HandlerType,
         QueueType, queueVars
    <3>2. Cursors'
      BY <2>1 DEF ReadStatus, Goto, Bookkeeping, Cursors, TypeOK, HandlerType, passVars
    <3> QED BY <2>1, <3>1, <3>2, FrameBooks
        DEF ReadStatus, Bookkeeping, apiVars, queueVars, passVars
  <2>2. CASE MarkRunning(h)
    <3>1. HandlerBooks'
      BY <2>2 DEF MarkRunning, Goto, Update, Bookkeeping, HandlerBooks, TypeOK,
         HandlerType, QueueType, queueVars
    <3>2. Cursors'
      BY <2>2 DEF MarkRunning, Goto, Update, Bookkeeping, Cursors, TypeOK, HandlerType,
         passVars
    <3> QED BY <2>2, <3>1, <3>2, FrameBooks
        DEF MarkRunning, Bookkeeping, apiVars, queueVars, passVars
  <2>3. CASE Authorize(h)
    <3>1. HandlerBooks'
      BY <2>3 DEF Authorize, Goto, Bookkeeping, HandlerBooks, TypeOK, HandlerType,
         QueueType, queueVars
    <3>2. Cursors'
      BY <2>3 DEF Authorize, Goto, Bookkeeping, Cursors, TypeOK, HandlerType, passVars
    <3> QED BY <2>3, <3>1, <3>2, FrameBooks
        DEF Authorize, Bookkeeping, apiVars, queueVars, passVars
  <2>4. CASE LoadWorkflow(h)
    <3>1. HandlerBooks'
      BY <2>4 DEF LoadWorkflow, Goto, NextPoint, Bookkeeping, HandlerBooks, TypeOK,
         HandlerType, QueueType, queueVars
    <3>2. Cursors'
      BY <2>4 DEF LoadWorkflow, Goto, NextPoint, Bookkeeping, Cursors, TypeOK,
         HandlerType, passVars
    <3> QED BY <2>4, <3>1, <3>2, FrameBooks
        DEF LoadWorkflow, Bookkeeping, apiVars, queueVars, passVars
  <2>5. CASE RejectGraph(h)
    <3>1. HandlerBooks'
      BY <2>5 DEF RejectGraph, Goto, Bookkeeping, HandlerBooks, TypeOK, HandlerType,
         QueueType, queueVars
    <3>2. Cursors'
      BY <2>5 DEF RejectGraph, Goto, Bookkeeping, Cursors, TypeOK, HandlerType, passVars
    <3> QED BY <2>5, <3>1, <3>2, FrameBooks
        DEF RejectGraph, Bookkeeping, apiVars, queueVars, passVars
  <2>6. CASE StepStart(h)
    <3>1. HandlerBooks'
      BY <2>6 DEF StepStart, Goto, Bookkeeping, HandlerBooks, TypeOK, HandlerType,
         QueueType, queueVars
    <3>2. Cursors'
      BY <2>6 DEF StepStart, Goto, Bookkeeping, Cursors, TypeOK, HandlerType, passVars
    <3> QED BY <2>6, <3>1, <3>2, FrameBooks
        DEF StepStart, Bookkeeping, apiVars, queueVars, passVars
  <2>7. CASE RunNode(h)
    <3>1. HandlerBooks'
      BY <2>7 DEF RunNode, Goto, Bookkeeping, HandlerBooks, TypeOK, HandlerType,
         QueueType, queueVars
    <3>2. Cursors'
      BY <2>7 DEF RunNode, Goto, Bookkeeping, Cursors, TypeOK, HandlerType, passVars
    <3> QED BY <2>7, <3>1, <3>2, FrameBooks
        DEF RunNode, Bookkeeping, apiVars, queueVars, passVars
  <2>8. CASE SkipNode(h)
    <3>1. HandlerBooks'
      BY <2>8 DEF SkipNode, Goto, Bookkeeping, HandlerBooks, TypeOK, HandlerType,
         QueueType, queueVars
    <3>2. Cursors'
      BY <2>8 DEF SkipNode, Goto, Bookkeeping, Cursors, TypeOK, HandlerType, passVars
    <3> QED BY <2>8, <3>1, <3>2, FrameBooks
        DEF SkipNode, Bookkeeping, apiVars, queueVars, passVars
  <2>9. CASE RecordStep(h)
    <3>1. HandlerBooks'
      BY <2>9 DEF RecordStep, Goto, NextPoint, Bookkeeping, HandlerBooks, TypeOK,
         HandlerType, QueueType, queueVars
    <3>2. Cursors'
      BY <2>9 DEF RecordStep, Goto, NextPoint, Bookkeeping, Cursors, TypeOK, HandlerType,
         passVars
    <3> QED BY <2>9, <3>1, <3>2, FrameBooks
        DEF RecordStep, Bookkeeping, apiVars, queueVars, passVars
  <2>10. CASE SkipRest(h)
    <3>1. HandlerBooks'
      BY <2>10 DEF SkipRest, Goto, Bookkeeping, HandlerBooks, TypeOK, HandlerType,
         QueueType, queueVars
    <3>2. Cursors'
      BY <2>10 DEF SkipRest, Goto, Bookkeeping, Cursors, TypeOK, HandlerType, passVars
    <3> QED BY <2>10, <3>1, <3>2, FrameBooks
        DEF SkipRest, Bookkeeping, apiVars, queueVars, passVars
  <2>11. CASE Finish(h)
    <3>1. HandlerBooks'
      BY <2>11 DEF Finish, Goto, Update, Bookkeeping, HandlerBooks, TypeOK, HandlerType,
         QueueType, queueVars
    <3>2. Cursors'
      BY <2>11 DEF Finish, Goto, Update, Bookkeeping, Cursors, TypeOK, HandlerType,
         passVars
    <3> QED BY <2>11, <3>1, <3>2, FrameBooks
        DEF Finish, Bookkeeping, apiVars, queueVars, passVars
  <2>12. CASE FailWrite(h)
    <3>1. HandlerBooks'
      BY <2>12 DEF FailWrite, Goto, Update, Bookkeeping, HandlerBooks, TypeOK,
         HandlerType, QueueType, queueVars
    <3>2. Cursors'
      BY <2>12 DEF FailWrite, Goto, Update, Bookkeeping, Cursors, TypeOK, HandlerType,
         passVars
    <3> QED BY <2>12, <3>1, <3>2, FrameBooks
        DEF FailWrite, Bookkeeping, apiVars, queueVars, passVars
  <2>13. CASE CancelWrite(h)
    <3>1. HandlerBooks'
      BY <2>13 DEF CancelWrite, Goto, Update, Bookkeeping, HandlerBooks, TypeOK,
         HandlerType, QueueType, queueVars
    <3>2. Cursors'
      BY <2>13 DEF CancelWrite, Goto, Update, Bookkeeping, Cursors, TypeOK, HandlerType,
         passVars
    <3> QED BY <2>13, <3>1, <3>2, FrameBooks
        DEF CancelWrite, Bookkeeping, apiVars, queueVars, passVars
  <2>14. CASE MissingRow(h)
    <3>1. HandlerBooks'
      BY <2>14 DEF MissingRow, Throw, AfterThrow, Goto, Bookkeeping, HandlerBooks, TypeOK,
         HandlerType, QueueType, queueVars
    <3>2. Cursors'
      BY <2>14 DEF MissingRow, Throw, AfterThrow, Goto, Bookkeeping, Cursors, TypeOK,
         HandlerType, passVars
    <3> QED BY <2>14, <3>1, <3>2, FrameBooks
        DEF MissingRow, Bookkeeping, apiVars, queueVars, passVars, Throw
  <2>15. CASE Ack(h)
    <3>1. JobBooks'
      BY <2>15 DEF Ack, Release, Bookkeeping, JobBooks, HandlerBooks, TypeOK, QueueType,
         HandlerType, apiVars
    <3>2. HandlerBooks'
      BY <2>15 DEF Ack, Release, Bookkeeping, HandlerBooks, TypeOK, HandlerType, QueueType
    <3>3. Cursors'
      BY <2>15 DEF Ack, Release, Bookkeeping, Cursors, TypeOK, HandlerType, passVars
    <3> QED BY <2>15, <3>1, <3>2, <3>3, FrameBooks
        DEF Ack, Bookkeeping, apiVars, queueVars, passVars
  <2>16. CASE Nack(h)
    <3>1. JobBooks'
      BY <2>16 DEF Nack, Release, Bookkeeping, JobBooks, HandlerBooks, TypeOK, QueueType,
         HandlerType, apiVars
    <3>2. HandlerBooks'
      BY <2>16 DEF Nack, Release, Bookkeeping, HandlerBooks, TypeOK, HandlerType,
         QueueType
    <3>3. Cursors'
      BY <2>16 DEF Nack, Release, Bookkeeping, Cursors, TypeOK, HandlerType, passVars
    <3> QED BY <2>16, <3>1, <3>2, <3>3, FrameBooks
        DEF Nack, Bookkeeping, apiVars, queueVars, passVars
  <2> QED BY <1>3, <2>1, <2>2, <2>3, <2>4, <2>5, <2>6, <2>7, <2>8, <2>9, <2>10, <2>11,
      <2>12, <2>13, <2>14, <2>15, <2>16 DEF HandlerStep
<1>4. ASSUME NEW h \in Handlers, DatabaseFault(h) PROVE Bookkeeping'
  <2>1. HandlerBooks'
    BY <1>4 DEF DatabaseFault, Throw, AfterThrow, Goto, Bookkeeping, HandlerBooks,
       TypeOK, HandlerType, QueueType, queueVars
  <2>2. Cursors'
    BY <1>4 DEF DatabaseFault, Throw, AfterThrow, Goto, Bookkeeping, Cursors, TypeOK,
       HandlerType, passVars
  <2> QED BY <1>4, <2>1, <2>2, FrameBooks
      DEF DatabaseFault, Bookkeeping, apiVars, queueVars, passVars, Throw
<1>5. ASSUME NEW h \in Handlers, Crash(h) PROVE Bookkeeping'
  <2>1. HandlerBooks'
    BY <1>5 DEF Crash, Release, Bookkeeping, HandlerBooks, TypeOK, HandlerType,
       QueueType, queueVars
  <2>2. Cursors'
    BY <1>5 DEF Crash, Release, Bookkeeping, Cursors, TypeOK, HandlerType, passVars
  <2> QED BY <1>5, <2>1, <2>2, FrameBooks
      DEF Crash, Bookkeeping, apiVars, queueVars, passVars
<1>6. ASSUME NEW h \in Handlers, NEW e \in Execs, Pickup(h, e) PROVE Bookkeeping'
  <2>1. JobBooks'
    BY <1>6 DEF Pickup, Bookkeeping, JobBooks, HandlerBooks, TypeOK, QueueType,
       HandlerType, apiVars
  <2>2. HandlerBooks'
    BY <1>6 DEF Pickup, Bookkeeping, HandlerBooks, TypeOK, HandlerType, QueueType
  <2>3. Cursors'
    BY <1>6 DEF Pickup, Bookkeeping, Cursors, TypeOK, HandlerType, passVars
  <2> QED BY <1>6, <2>1, <2>2, <2>3, FrameBooks
      DEF Pickup, Bookkeeping, apiVars, queueVars, passVars
<1>7. CASE UNCHANGED vars
  BY <1>7, FrameBooks DEF vars, queueVars, apiVars, passVars
<1> QED BY <1>1, <1>2, <1>3, <1>4, <1>5, <1>6, <1>7 DEF Next

\* Every variable stays in its type; in particular an execution is never attempted
\* more than MaxAttempts times ("attempts" in queue/client.ts) and its lock never
\* expires more than MaxStalled + 1 times.
THEOREM TypeCorrect == Spec => [](TypeOK /\ Bookkeeping)
<1>1. Init => TypeOK
  BY ConstantsAssumption DEF Init, TypeOK, DbType, ApiType, QueueType, HandlerType,
     HistoryType, Statuses, Points, Outcomes, Nodes
<1>2. Init => Bookkeeping
  BY ConstantsAssumption DEF Init, Bookkeeping, JobBooks, HandlerBooks, Cursors
<1> QED BY <1>1, <1>2, TypeStep, BookkeepingStep, PTL DEF Spec

(***************************************************************************)
(* The stages of the row.                                                  *)
(***************************************************************************)
LEMMA FrameRows ==
    ASSUME RowStages
    PROVE  /\ UNCHANGED <<row, trigger, workflow>> => RowExists'
           /\ UNCHANGED <<workflow, pc, exec>> => StoppedIsGone'
           /\ UNCHANGED <<row, pc, exec>> => PastMark'
           /\ RowStages' = (RowExists' /\ StoppedIsGone' /\ PastMark')
  BY DEF RowStages, RowExists, StoppedIsGone, PastMark

\* Every step keeps the stages of the row: the UPDATEs of the handler do not bring a
\* deleted row back, and no handler is past its own write of "running" on a row that
\* is "pending".
LEMMA RowStagesStep ==
    ASSUME TypeOK, Bookkeeping, RowStages, [Next]_vars
    PROVE  RowStages'
<1> USE ConstantsAssumption
<1>1. ASSUME NEW e \in Execs, Api(e) PROVE RowStages'
  <2>1. CASE TriggerInsert(e)
    <3>1. RowExists'
      BY <2>1 DEF TriggerInsert, RowStages, RowExists, TypeOK, DbType, ApiType, apiVars
    <3>2. PastMark'
      BY <2>1 DEF TriggerInsert, RowStages, PastMark, TypeOK, DbType, HandlerType, dbVars,
         Bookkeeping, JobBooks, HandlerBooks
    <3> QED BY <2>1, <3>1, <3>2, FrameRows DEF TriggerInsert, RowStages, dbVars, apiVars
  <2>2. CASE TriggerAuthorize(e)
    <3>1. RowExists'
      BY <2>2 DEF TriggerAuthorize, RowStages, RowExists, TypeOK, DbType, ApiType, apiVars
    <3> QED BY <2>2, <3>1, FrameRows DEF TriggerAuthorize, RowStages, dbVars, apiVars
  <2>3. CASE TriggerEnqueue(e)
    <3>1. RowExists'
      BY <2>3 DEF TriggerEnqueue, RowStages, RowExists, TypeOK, DbType, ApiType, dbVars
    <3> QED BY <2>3, <3>1, FrameRows DEF TriggerEnqueue, RowStages, dbVars, apiVars
  <2>4. CASE TriggerFail(e)
    <3>1. RowExists'
      BY <2>4 DEF TriggerFail, RowStages, RowExists, TypeOK, DbType, ApiType, dbVars
    <3> QED BY <2>4, <3>1, FrameRows DEF TriggerFail, RowStages, dbVars, apiVars
  <2>5. CASE Expire(e)
    BY <2>5, FrameRows DEF Expire, RowStages, dbVars, apiVars
  <2>6. CASE StopRead(e)
    BY <2>6, FrameRows DEF StopRead, RowStages, dbVars, apiVars
  <2>7. CASE StopWrite(e)
    <3>1. RowExists'
      BY <2>7 DEF StopWrite, Update, RowStages, RowExists, TypeOK, DbType, ApiType,
         apiVars
    <3>2. PastMark'
      BY <2>7 DEF StopWrite, Update, RowStages, PastMark, TypeOK, DbType, HandlerType,
         dbVars
    <3> QED BY <2>7, <3>1, <3>2, FrameRows DEF StopWrite, RowStages, dbVars, apiVars
  <2>8. CASE DeleteWorkflow(e)
    <3>1. RowExists'
      BY <2>8 DEF DeleteWorkflow, RowStages, RowExists, TypeOK, DbType, ApiType, apiVars
    <3>2. StoppedIsGone'
      BY <2>8 DEF DeleteWorkflow, RowStages, StoppedIsGone, TypeOK, DbType, HandlerType,
         dbVars
    <3>3. PastMark'
      BY <2>8 DEF DeleteWorkflow, RowStages, PastMark, TypeOK, DbType, HandlerType, dbVars
    <3> QED BY <2>8, <3>1, <3>2, <3>3, FrameRows
        DEF DeleteWorkflow, RowStages, dbVars, apiVars
  <2>9. CASE SweepSteps(e)
    BY <2>9, FrameRows DEF SweepSteps, RowStages, dbVars, apiVars
  <2>10. CASE SweepRow(e)
    <3>1. RowExists'
      BY <2>10 DEF SweepRow, RowStages, RowExists, TypeOK, DbType, ApiType, apiVars
    <3>2. PastMark'
      BY <2>10 DEF SweepRow, RowStages, PastMark, TypeOK, DbType, HandlerType, dbVars
    <3> QED BY <2>10, <3>1, <3>2, FrameRows DEF SweepRow, RowStages, dbVars, apiVars
  <2> QED BY <1>1, <2>1, <2>2, <2>3, <2>4, <2>5, <2>6, <2>7, <2>8, <2>9, <2>10 DEF Api
<1>2. ASSUME NEW e \in Execs, Stall(e) PROVE RowStages'
  BY <1>2, FrameRows DEF Stall, RowStages, dbVars, apiVars
<1>3. ASSUME NEW h \in Handlers, HandlerStep(h) PROVE RowStages'
  <2>1. CASE ReadStatus(h)
    <3>1. StoppedIsGone'
      BY <2>1 DEF ReadStatus, Goto, RowStages, StoppedIsGone, TypeOK, DbType, HandlerType,
         dbVars
    <3>2. PastMark'
      BY <2>1 DEF ReadStatus, Goto, RowStages, PastMark, TypeOK, DbType, HandlerType,
         dbVars
    <3> QED BY <2>1, <3>1, <3>2, FrameRows DEF ReadStatus, RowStages, dbVars, apiVars
  <2>2. CASE MarkRunning(h)
    <3>1. RowExists'
      BY <2>2 DEF MarkRunning, Goto, Update, RowStages, RowExists, TypeOK, DbType,
         ApiType, apiVars
    <3>2. StoppedIsGone'
      BY <2>2 DEF MarkRunning, Goto, Update, RowStages, StoppedIsGone, TypeOK, DbType,
         HandlerType, dbVars
    <3>3. PastMark'
      BY <2>2 DEF MarkRunning, Goto, Update, RowStages, PastMark, TypeOK, DbType,
         HandlerType, Bookkeeping, HandlerBooks
    <3> QED BY <2>2, <3>1, <3>2, <3>3, FrameRows DEF MarkRunning, RowStages, dbVars, apiVars
  <2>3. CASE Authorize(h)
    <3>1. StoppedIsGone'
      BY <2>3 DEF Authorize, Goto, RowStages, StoppedIsGone, TypeOK, DbType, HandlerType,
         dbVars
    <3>2. PastMark'
      BY <2>3 DEF Authorize, Goto, RowStages, PastMark, TypeOK, DbType, HandlerType,
         dbVars
    <3> QED BY <2>3, <3>1, <3>2, FrameRows DEF Authorize, RowStages, dbVars, apiVars
  <2>4. CASE LoadWorkflow(h)
    <3>1. StoppedIsGone'
      BY <2>4 DEF LoadWorkflow, Goto, NextPoint, RowStages, StoppedIsGone, TypeOK, DbType,
         HandlerType, dbVars
    <3>2. PastMark'
      BY <2>4 DEF LoadWorkflow, Goto, NextPoint, RowStages, PastMark, TypeOK, DbType,
         HandlerType, dbVars
    <3> QED BY <2>4, <3>1, <3>2, FrameRows DEF LoadWorkflow, RowStages, dbVars, apiVars
  <2>5. CASE RejectGraph(h)
    <3>1. StoppedIsGone'
      BY <2>5 DEF RejectGraph, Goto, RowStages, StoppedIsGone, TypeOK, DbType,
         HandlerType, dbVars
    <3>2. PastMark'
      BY <2>5 DEF RejectGraph, Goto, RowStages, PastMark, TypeOK, DbType, HandlerType,
         dbVars
    <3> QED BY <2>5, <3>1, <3>2, FrameRows DEF RejectGraph, RowStages, dbVars, apiVars
  <2>6. CASE StepStart(h)
    <3>1. StoppedIsGone'
      BY <2>6 DEF StepStart, Goto, RowStages, StoppedIsGone, TypeOK, DbType, HandlerType,
         dbVars
    <3>2. PastMark'
      BY <2>6 DEF StepStart, Goto, RowStages, PastMark, TypeOK, DbType, HandlerType,
         dbVars
    <3> QED BY <2>6, <3>1, <3>2, FrameRows DEF StepStart, RowStages, dbVars, apiVars
  <2>7. CASE RunNode(h)
    <3>1. StoppedIsGone'
      BY <2>7 DEF RunNode, Goto, RowStages, StoppedIsGone, TypeOK, DbType, HandlerType,
         dbVars
    <3>2. PastMark'
      BY <2>7 DEF RunNode, Goto, RowStages, PastMark, TypeOK, DbType, HandlerType, dbVars
    <3> QED BY <2>7, <3>1, <3>2, FrameRows DEF RunNode, RowStages, dbVars, apiVars
  <2>8. CASE SkipNode(h)
    <3>1. StoppedIsGone'
      BY <2>8 DEF SkipNode, Goto, RowStages, StoppedIsGone, TypeOK, DbType, HandlerType,
         dbVars
    <3>2. PastMark'
      BY <2>8 DEF SkipNode, Goto, RowStages, PastMark, TypeOK, DbType, HandlerType, dbVars
    <3> QED BY <2>8, <3>1, <3>2, FrameRows DEF SkipNode, RowStages, dbVars, apiVars
  <2>9. CASE RecordStep(h)
    <3>1. StoppedIsGone'
      BY <2>9 DEF RecordStep, Goto, NextPoint, RowStages, StoppedIsGone, TypeOK, DbType,
         HandlerType, dbVars
    <3>2. PastMark'
      BY <2>9 DEF RecordStep, Goto, NextPoint, RowStages, PastMark, TypeOK, DbType,
         HandlerType, dbVars
    <3> QED BY <2>9, <3>1, <3>2, FrameRows DEF RecordStep, RowStages, dbVars, apiVars
  <2>10. CASE SkipRest(h)
    <3>1. StoppedIsGone'
      BY <2>10 DEF SkipRest, Goto, RowStages, StoppedIsGone, TypeOK, DbType, HandlerType,
         dbVars
    <3>2. PastMark'
      BY <2>10 DEF SkipRest, Goto, RowStages, PastMark, TypeOK, DbType, HandlerType,
         dbVars
    <3> QED BY <2>10, <3>1, <3>2, FrameRows DEF SkipRest, RowStages, dbVars, apiVars
  <2>11. CASE Finish(h)
    <3>1. RowExists'
      BY <2>11 DEF Finish, Goto, Update, RowStages, RowExists, TypeOK, DbType, ApiType,
         apiVars
    <3>2. StoppedIsGone'
      BY <2>11 DEF Finish, Goto, Update, RowStages, StoppedIsGone, TypeOK, DbType,
         HandlerType, dbVars
    <3>3. PastMark'
      BY <2>11 DEF Finish, Goto, Update, RowStages, PastMark, TypeOK, DbType, HandlerType,
         dbVars
    <3> QED BY <2>11, <3>1, <3>2, <3>3, FrameRows DEF Finish, RowStages, dbVars, apiVars
  <2>12. CASE FailWrite(h)
    <3>1. RowExists'
      BY <2>12 DEF FailWrite, Goto, Update, RowStages, RowExists, TypeOK, DbType, ApiType,
         apiVars
    <3>2. StoppedIsGone'
      BY <2>12 DEF FailWrite, Goto, Update, RowStages, StoppedIsGone, TypeOK, DbType,
         HandlerType, dbVars
    <3>3. PastMark'
      BY <2>12 DEF FailWrite, Goto, Update, RowStages, PastMark, TypeOK, DbType,
         HandlerType, dbVars
    <3> QED BY <2>12, <3>1, <3>2, <3>3, FrameRows DEF FailWrite, RowStages, dbVars, apiVars
  <2>13. CASE CancelWrite(h)
    <3>1. RowExists'
      BY <2>13 DEF CancelWrite, Goto, Update, RowStages, RowExists, TypeOK, DbType,
         ApiType, apiVars
    <3>2. StoppedIsGone'
      BY <2>13 DEF CancelWrite, Goto, Update, RowStages, StoppedIsGone, TypeOK, DbType,
         HandlerType, dbVars
    <3>3. PastMark'
      BY <2>13 DEF CancelWrite, Goto, Update, RowStages, PastMark, TypeOK, DbType,
         HandlerType, dbVars
    <3> QED BY <2>13, <3>1, <3>2, <3>3, FrameRows
        DEF CancelWrite, RowStages, dbVars, apiVars
  <2>14. CASE MissingRow(h)
    <3>1. StoppedIsGone'
      BY <2>14 DEF MissingRow, Throw, AfterThrow, Goto, RowStages, StoppedIsGone, TypeOK,
         DbType, HandlerType, dbVars
    <3>2. PastMark'
      BY <2>14 DEF MissingRow, Throw, AfterThrow, Goto, RowStages, PastMark, TypeOK,
         DbType, HandlerType, dbVars
    <3> QED BY <2>14, <3>1, <3>2, FrameRows
        DEF MissingRow, RowStages, dbVars, apiVars, Throw
  <2>15. CASE Ack(h)
    <3>1. StoppedIsGone'
      BY <2>15 DEF Ack, Release, RowStages, StoppedIsGone, TypeOK, DbType, HandlerType,
         dbVars
    <3>2. PastMark'
      BY <2>15 DEF Ack, Release, RowStages, PastMark, TypeOK, DbType, HandlerType, dbVars
    <3> QED BY <2>15, <3>1, <3>2, FrameRows DEF Ack, RowStages, dbVars, apiVars
  <2>16. CASE Nack(h)
    <3>1. StoppedIsGone'
      BY <2>16 DEF Nack, Release, RowStages, StoppedIsGone, TypeOK, DbType, HandlerType,
         dbVars
    <3>2. PastMark'
      BY <2>16 DEF Nack, Release, RowStages, PastMark, TypeOK, DbType, HandlerType, dbVars
    <3> QED BY <2>16, <3>1, <3>2, FrameRows DEF Nack, RowStages, dbVars, apiVars
  <2> QED BY <1>3, <2>1, <2>2, <2>3, <2>4, <2>5, <2>6, <2>7, <2>8, <2>9, <2>10, <2>11,
      <2>12, <2>13, <2>14, <2>15, <2>16 DEF HandlerStep
<1>4. ASSUME NEW h \in Handlers, DatabaseFault(h) PROVE RowStages'
  <2>1. StoppedIsGone'
    BY <1>4 DEF DatabaseFault, Throw, AfterThrow, Goto, RowStages, StoppedIsGone,
       TypeOK, DbType, HandlerType, dbVars
  <2>2. PastMark'
    BY <1>4 DEF DatabaseFault, Throw, AfterThrow, Goto, RowStages, PastMark, TypeOK,
       DbType, HandlerType, dbVars
  <2> QED BY <1>4, <2>1, <2>2, FrameRows
      DEF DatabaseFault, RowStages, dbVars, apiVars, Throw
<1>5. ASSUME NEW h \in Handlers, Crash(h) PROVE RowStages'
  <2>1. StoppedIsGone'
    BY <1>5 DEF Crash, Release, RowStages, StoppedIsGone, TypeOK, DbType, HandlerType,
       dbVars
  <2>2. PastMark'
    BY <1>5 DEF Crash, Release, RowStages, PastMark, TypeOK, DbType, HandlerType, dbVars
  <2> QED BY <1>5, <2>1, <2>2, FrameRows DEF Crash, RowStages, dbVars, apiVars
<1>6. ASSUME NEW h \in Handlers, NEW e \in Execs, Pickup(h, e) PROVE RowStages'
  <2>1. StoppedIsGone'
    BY <1>6 DEF Pickup, RowStages, StoppedIsGone, TypeOK, DbType, HandlerType, dbVars
  <2>2. PastMark'
    BY <1>6 DEF Pickup, RowStages, PastMark, TypeOK, DbType, HandlerType, dbVars
  <2> QED BY <1>6, <2>1, <2>2, FrameRows DEF Pickup, RowStages, dbVars, apiVars
<1>7. CASE UNCHANGED vars
  BY <1>7, FrameRows DEF vars, dbVars, apiVars
<1> QED BY <1>1, <1>2, <1>3, <1>4, <1>5, <1>6, <1>7 DEF Next

\* The stages of the row are invariant.
THEOREM RowStagesInvariant == Spec => []RowStages
<1>1. Init => RowStages
  BY DEF Init, RowStages, RowExists, StoppedIsGone, PastMark
<1> QED BY <1>1, TypeCorrect, RowStagesStep, PTL DEF Spec

(***************************************************************************)
(* An execution reported completed has all its step rows, whatever crashes *)
(* and second deliveries were on the way; and only stop() cancels.         *)
(***************************************************************************)

\* Each part of the invariant depends on a few variables only.
LEMMA FrameRecords ==
    ASSUME RecordInv
    PROVE  /\ UNCHANGED <<row, recorded, sweeping, pc, exec, cursor>> => PassRecorded'
           /\ UNCHANGED <<pc, cursor, verdict>> => CompletedAtEnd'
           /\ UNCHANGED <<row, recorded, sweeping>> => CompletedIsRecorded'
           /\ RecordInv' = (PassRecorded' /\ CompletedAtEnd' /\ CompletedIsRecorded')
  BY DEF RecordInv, PassRecorded, CompletedAtEnd, CompletedIsRecorded, Kept

\* Every step keeps what a pass has recorded, and reports "completed" only at the end.
LEMMA RecordStepKeeps ==
    ASSUME TypeOK, Bookkeeping, RecordInv, [Next]_vars
    PROVE  RecordInv'
<1> USE ConstantsAssumption
<1>1. ASSUME NEW e \in Execs, Api(e) PROVE RecordInv'
  <2>1. CASE TriggerInsert(e)
    <3>1. PassRecorded'
      BY <2>1 DEF TriggerInsert, RecordInv, PassRecorded, Kept, Engaged, Nodes, TypeOK,
         DbType, ApiType, HandlerType, Bookkeeping, HandlerBooks, Cursors, JobBooks,
         dbVars, apiVars, passVars
    <3>2. CompletedIsRecorded'
      BY <2>1 DEF TriggerInsert, RecordInv, CompletedIsRecorded, TypeOK, DbType, ApiType,
         Nodes, dbVars, apiVars
    <3> QED BY <2>1, <3>1, <3>2, FrameRecords
        DEF TriggerInsert, RecordInv, dbVars, apiVars, passVars
  <2>2. CASE TriggerAuthorize(e)
    BY <2>2, FrameRecords DEF TriggerAuthorize, RecordInv, dbVars, apiVars, passVars
  <2>3. CASE TriggerEnqueue(e)
    BY <2>3, FrameRecords DEF TriggerEnqueue, RecordInv, dbVars, apiVars, passVars
  <2>4. CASE TriggerFail(e)
    BY <2>4, FrameRecords DEF TriggerFail, RecordInv, dbVars, apiVars, passVars
  <2>5. CASE Expire(e)
    BY <2>5, FrameRecords DEF Expire, RecordInv, dbVars, apiVars, passVars
  <2>6. CASE StopRead(e)
    BY <2>6, FrameRecords DEF StopRead, RecordInv, dbVars, apiVars, passVars
  <2>7. CASE StopWrite(e)
    <3>1. PassRecorded'
      BY <2>7 DEF StopWrite, Update, RecordInv, PassRecorded, Kept, Engaged, Nodes,
         TypeOK, DbType, ApiType, HandlerType, Bookkeeping, HandlerBooks, Cursors, dbVars,
         apiVars, passVars
    <3>2. CompletedIsRecorded'
      BY <2>7 DEF StopWrite, Update, RecordInv, CompletedIsRecorded, TypeOK, DbType,
         ApiType, Nodes, dbVars, apiVars
    <3> QED BY <2>7, <3>1, <3>2, FrameRecords
        DEF StopWrite, RecordInv, dbVars, apiVars, passVars
  <2>8. CASE DeleteWorkflow(e)
    <3>1. PassRecorded'
      BY <2>8 DEF DeleteWorkflow, RecordInv, PassRecorded, Kept, Engaged, Nodes, TypeOK,
         DbType, ApiType, HandlerType, Bookkeeping, HandlerBooks, Cursors, dbVars,
         apiVars, passVars
    <3>2. CompletedIsRecorded'
      BY <2>8 DEF DeleteWorkflow, RecordInv, CompletedIsRecorded, TypeOK, DbType, ApiType,
         Nodes, dbVars, apiVars
    <3> QED BY <2>8, <3>1, <3>2, FrameRecords
        DEF DeleteWorkflow, RecordInv, dbVars, apiVars, passVars
  <2>9. CASE SweepSteps(e)
    <3>1. PassRecorded'
      BY <2>9 DEF SweepSteps, RecordInv, PassRecorded, Kept, Engaged, Nodes, TypeOK,
         DbType, ApiType, HandlerType, Bookkeeping, HandlerBooks, Cursors, dbVars,
         apiVars, passVars
    <3>2. CompletedIsRecorded'
      BY <2>9 DEF SweepSteps, RecordInv, CompletedIsRecorded, TypeOK, DbType, ApiType,
         Nodes, dbVars, apiVars
    <3> QED BY <2>9, <3>1, <3>2, FrameRecords
        DEF SweepSteps, RecordInv, dbVars, apiVars, passVars
  <2>10. CASE SweepRow(e)
    <3>1. PassRecorded'
      BY <2>10 DEF SweepRow, RecordInv, PassRecorded, Kept, Engaged, Nodes, TypeOK,
         DbType, ApiType, HandlerType, Bookkeeping, HandlerBooks, Cursors, dbVars,
         apiVars, passVars
    <3>2. CompletedIsRecorded'
      BY <2>10 DEF SweepRow, RecordInv, CompletedIsRecorded, TypeOK, DbType, ApiType,
         Nodes, dbVars, apiVars
    <3> QED BY <2>10, <3>1, <3>2, FrameRecords
        DEF SweepRow, RecordInv, dbVars, apiVars, passVars
  <2> QED BY <1>1, <2>1, <2>2, <2>3, <2>4, <2>5, <2>6, <2>7, <2>8, <2>9, <2>10 DEF Api
<1>2. ASSUME NEW e \in Execs, Stall(e) PROVE RecordInv'
  BY <1>2, FrameRecords DEF Stall, RecordInv, dbVars, apiVars, passVars
<1>3. ASSUME NEW h \in Handlers, HandlerStep(h) PROVE RecordInv'
  <2>1. CASE ReadStatus(h)
    <3>1. PassRecorded'
      BY <2>1 DEF ReadStatus, Goto, RecordInv, PassRecorded, Kept, Engaged, Nodes, TypeOK,
         DbType, ApiType, HandlerType, Bookkeeping, HandlerBooks, Cursors, dbVars,
         apiVars, passVars
    <3>2. CompletedAtEnd'
      BY <2>1 DEF ReadStatus, Goto, RecordInv, CompletedAtEnd, Engaged, TypeOK,
         HandlerType, Bookkeeping, Cursors, passVars
    <3> QED BY <2>1, <3>1, <3>2, FrameRecords
        DEF ReadStatus, RecordInv, dbVars, apiVars, passVars
  <2>2. CASE MarkRunning(h)
    <3>1. PassRecorded'
      BY <2>2 DEF MarkRunning, Goto, Update, RecordInv, PassRecorded, Kept, Engaged,
         Nodes, TypeOK, DbType, ApiType, HandlerType, Bookkeeping, HandlerBooks, Cursors,
         dbVars, apiVars, passVars
    <3>2. CompletedAtEnd'
      BY <2>2 DEF MarkRunning, Goto, Update, RecordInv, CompletedAtEnd, Engaged, TypeOK,
         HandlerType, Bookkeeping, Cursors, passVars
    <3>3. CompletedIsRecorded'
      BY <2>2 DEF MarkRunning, Goto, Update, RecordInv, CompletedIsRecorded, TypeOK,
         DbType, ApiType, Nodes, dbVars, apiVars
    <3> QED BY <2>2, <3>1, <3>2, <3>3, FrameRecords
        DEF MarkRunning, RecordInv, dbVars, apiVars, passVars
  <2>3. CASE Authorize(h)
    <3>1. PassRecorded'
      BY <2>3 DEF Authorize, Goto, RecordInv, PassRecorded, Kept, Engaged, Nodes, TypeOK,
         DbType, ApiType, HandlerType, Bookkeeping, HandlerBooks, Cursors, dbVars,
         apiVars, passVars
    <3>2. CompletedAtEnd'
      BY <2>3 DEF Authorize, Goto, RecordInv, CompletedAtEnd, Engaged, TypeOK,
         HandlerType, Bookkeeping, Cursors, passVars
    <3> QED BY <2>3, <3>1, <3>2, FrameRecords
        DEF Authorize, RecordInv, dbVars, apiVars, passVars
  <2>4. CASE LoadWorkflow(h)
    <3>1. PassRecorded'
      BY <2>4 DEF LoadWorkflow, Goto, NextPoint, RecordInv, PassRecorded, Kept, Engaged,
         Nodes, TypeOK, DbType, ApiType, HandlerType, Bookkeeping, HandlerBooks, Cursors,
         dbVars, apiVars, passVars
    <3>2. CompletedAtEnd'
      BY <2>4 DEF LoadWorkflow, Goto, NextPoint, RecordInv, CompletedAtEnd, Engaged,
         TypeOK, HandlerType, Bookkeeping, Cursors, passVars
    <3> QED BY <2>4, <3>1, <3>2, FrameRecords
        DEF LoadWorkflow, RecordInv, dbVars, apiVars, passVars
  <2>5. CASE RejectGraph(h)
    <3>1. PassRecorded'
      BY <2>5 DEF RejectGraph, Goto, RecordInv, PassRecorded, Kept, Engaged, Nodes,
         TypeOK, DbType, ApiType, HandlerType, Bookkeeping, HandlerBooks, Cursors, dbVars,
         apiVars, passVars
    <3>2. CompletedAtEnd'
      BY <2>5 DEF RejectGraph, Goto, RecordInv, CompletedAtEnd, Engaged, TypeOK,
         HandlerType, Bookkeeping, Cursors, passVars
    <3> QED BY <2>5, <3>1, <3>2, FrameRecords
        DEF RejectGraph, RecordInv, dbVars, apiVars, passVars
  <2>6. CASE StepStart(h)
    <3>1. PassRecorded'
      BY <2>6 DEF StepStart, Goto, RecordInv, PassRecorded, Kept, Engaged, Nodes, TypeOK,
         DbType, ApiType, HandlerType, Bookkeeping, HandlerBooks, Cursors, dbVars,
         apiVars, passVars
    <3>2. CompletedAtEnd'
      BY <2>6 DEF StepStart, Goto, RecordInv, CompletedAtEnd, Engaged, TypeOK,
         HandlerType, Bookkeeping, Cursors, passVars
    <3> QED BY <2>6, <3>1, <3>2, FrameRecords
        DEF StepStart, RecordInv, dbVars, apiVars, passVars
  <2>7. CASE RunNode(h)
    <3>1. PassRecorded'
      BY <2>7 DEF RunNode, Goto, RecordInv, PassRecorded, Kept, Engaged, Nodes, TypeOK,
         DbType, ApiType, HandlerType, Bookkeeping, HandlerBooks, Cursors, dbVars,
         apiVars, passVars
    <3>2. CompletedAtEnd'
      BY <2>7 DEF RunNode, Goto, RecordInv, CompletedAtEnd, Engaged, TypeOK, HandlerType,
         Bookkeeping, Cursors, passVars
    <3> QED BY <2>7, <3>1, <3>2, FrameRecords
        DEF RunNode, RecordInv, dbVars, apiVars, passVars
  <2>8. CASE SkipNode(h)
    <3>1. PassRecorded'
      BY <2>8 DEF SkipNode, Goto, RecordInv, PassRecorded, Kept, Engaged, Nodes, TypeOK,
         DbType, ApiType, HandlerType, Bookkeeping, HandlerBooks, Cursors, dbVars,
         apiVars, passVars
    <3>2. CompletedAtEnd'
      BY <2>8 DEF SkipNode, Goto, RecordInv, CompletedAtEnd, Engaged, TypeOK, HandlerType,
         Bookkeeping, Cursors, passVars
    <3> QED BY <2>8, <3>1, <3>2, FrameRecords
        DEF SkipNode, RecordInv, dbVars, apiVars, passVars
  <2>9. CASE RecordStep(h)
    <3>1. /\ exec[h] \in Execs /\ cursor[h] \in 0..NumNodes /\ cursor[h] < NumNodes
          /\ cursor' = [cursor EXCEPT ![h] = cursor[h] + 1]
      BY <2>9 DEF RecordStep, TypeOK, HandlerType, Bookkeeping, HandlerBooks, Cursors
    <3>2. recorded'[exec[h]] = recorded[exec[h]] \cup {cursor[h] + 1}
          /\ \A e \in Execs : recorded[e] \subseteq recorded'[e]
      BY <2>9, <3>1 DEF RecordStep, TypeOK, DbType
    <3>3. PassRecorded'
      BY <2>9, <3>1, <3>2 DEF RecordStep, Goto, NextPoint, RecordInv, PassRecorded, Kept,
         Engaged, TypeOK, HandlerType, Bookkeeping, HandlerBooks, apiVars
    <3>4. CompletedAtEnd'
      BY <2>9, <3>1 DEF RecordStep, Goto, NextPoint, RecordInv, CompletedAtEnd, TypeOK,
         HandlerType
    <3>5. CompletedIsRecorded'
      <4>1. cursor[h] + 1 \in Nodes
        BY <3>1 DEF Nodes
      <4>2. UNCHANGED <<row, sweeping>>
            /\ recorded' = [recorded EXCEPT ![exec[h]] = @ \cup {cursor[h] + 1}]
        BY <2>9 DEF RecordStep, apiVars
      <4> QED BY <3>1, <4>1, <4>2 DEF RecordInv, CompletedIsRecorded, TypeOK, DbType
    <3> QED BY <3>3, <3>4, <3>5, FrameRecords
  <2>10. CASE SkipRest(h)
    <3>1. /\ exec[h] \in Execs /\ cursor[h] \in 0..NumNodes
          /\ recorded' # recorded => cursor[h] + 1 \in Nodes
      BY <2>10 DEF SkipRest, TypeOK, HandlerType, Bookkeeping, HandlerBooks, Nodes
    <3>2. PassRecorded'
      BY <2>10, <3>1 DEF SkipRest, Goto, RecordInv, PassRecorded, Kept, Engaged, TypeOK,
         DbType, HandlerType, Bookkeeping, HandlerBooks, apiVars
    <3>3. CompletedAtEnd'
      BY <2>10 DEF SkipRest, Goto, RecordInv, CompletedAtEnd, TypeOK, HandlerType
    <3>4. CompletedIsRecorded'
      BY <2>10, <3>1 DEF SkipRest, RecordInv, CompletedIsRecorded, TypeOK, DbType, apiVars
    <3> QED BY <3>2, <3>3, <3>4, FrameRecords
  <2>11. CASE Finish(h)
    <3>1. PassRecorded'
      BY <2>11 DEF Finish, Goto, Update, RecordInv, PassRecorded, Kept, Engaged, Nodes,
         TypeOK, DbType, ApiType, HandlerType, Bookkeeping, HandlerBooks, Cursors, dbVars,
         apiVars, passVars
    <3>2. CompletedAtEnd'
      BY <2>11 DEF Finish, Goto, Update, RecordInv, CompletedAtEnd, Engaged, TypeOK,
         HandlerType, Bookkeeping, Cursors, passVars
    <3>3. CompletedIsRecorded'
      BY <2>11 DEF Finish, Goto, Update, RecordInv, CompletedIsRecorded, TypeOK, DbType,
         ApiType, Nodes, HandlerType, PassRecorded, CompletedAtEnd, Kept, Bookkeeping,
         HandlerBooks, apiVars, dbVars
    <3> QED BY <2>11, <3>1, <3>2, <3>3, FrameRecords
        DEF Finish, RecordInv, dbVars, apiVars, passVars
  <2>12. CASE FailWrite(h)
    <3>1. PassRecorded'
      BY <2>12 DEF FailWrite, Goto, Update, RecordInv, PassRecorded, Kept, Engaged, Nodes,
         TypeOK, DbType, ApiType, HandlerType, Bookkeeping, HandlerBooks, Cursors, dbVars,
         apiVars, passVars
    <3>2. CompletedAtEnd'
      BY <2>12 DEF FailWrite, Goto, Update, RecordInv, CompletedAtEnd, Engaged, TypeOK,
         HandlerType, Bookkeeping, Cursors, passVars
    <3>3. CompletedIsRecorded'
      BY <2>12 DEF FailWrite, Goto, Update, RecordInv, CompletedIsRecorded, TypeOK,
         DbType, ApiType, Nodes, dbVars, apiVars
    <3> QED BY <2>12, <3>1, <3>2, <3>3, FrameRecords
        DEF FailWrite, RecordInv, dbVars, apiVars, passVars
  <2>13. CASE CancelWrite(h)
    <3>1. PassRecorded'
      BY <2>13 DEF CancelWrite, Goto, Update, RecordInv, PassRecorded, Kept, Engaged,
         Nodes, TypeOK, DbType, ApiType, HandlerType, Bookkeeping, HandlerBooks, Cursors,
         dbVars, apiVars, passVars
    <3>2. CompletedAtEnd'
      BY <2>13 DEF CancelWrite, Goto, Update, RecordInv, CompletedAtEnd, Engaged, TypeOK,
         HandlerType, Bookkeeping, Cursors, passVars
    <3>3. CompletedIsRecorded'
      BY <2>13 DEF CancelWrite, Goto, Update, RecordInv, CompletedIsRecorded, TypeOK,
         DbType, ApiType, Nodes, dbVars, apiVars
    <3> QED BY <2>13, <3>1, <3>2, <3>3, FrameRecords
        DEF CancelWrite, RecordInv, dbVars, apiVars, passVars
  <2>14. CASE MissingRow(h)
    <3>1. PassRecorded'
      BY <2>14 DEF MissingRow, Throw, AfterThrow, Goto, RecordInv, PassRecorded, Kept,
         Engaged, Nodes, TypeOK, DbType, ApiType, HandlerType, Bookkeeping, HandlerBooks,
         Cursors, dbVars, apiVars, passVars
    <3>2. CompletedAtEnd'
      BY <2>14 DEF MissingRow, Throw, AfterThrow, Goto, RecordInv, CompletedAtEnd,
         Engaged, TypeOK, HandlerType, Bookkeeping, Cursors, passVars
    <3> QED BY <2>14, <3>1, <3>2, FrameRecords
        DEF MissingRow, RecordInv, dbVars, apiVars, passVars, Throw
  <2>15. CASE Ack(h)
    <3>1. PassRecorded'
      BY <2>15 DEF Ack, Release, RecordInv, PassRecorded, Kept, Engaged, Nodes, TypeOK,
         DbType, ApiType, HandlerType, Bookkeeping, HandlerBooks, Cursors, dbVars,
         apiVars, passVars
    <3>2. CompletedAtEnd'
      BY <2>15 DEF Ack, Release, RecordInv, CompletedAtEnd, Engaged, TypeOK, HandlerType,
         Bookkeeping, Cursors, passVars
    <3> QED BY <2>15, <3>1, <3>2, FrameRecords DEF Ack, RecordInv, dbVars, apiVars, passVars
  <2>16. CASE Nack(h)
    <3>1. PassRecorded'
      BY <2>16 DEF Nack, Release, RecordInv, PassRecorded, Kept, Engaged, Nodes, TypeOK,
         DbType, ApiType, HandlerType, Bookkeeping, HandlerBooks, Cursors, dbVars,
         apiVars, passVars
    <3>2. CompletedAtEnd'
      BY <2>16 DEF Nack, Release, RecordInv, CompletedAtEnd, Engaged, TypeOK, HandlerType,
         Bookkeeping, Cursors, passVars
    <3> QED BY <2>16, <3>1, <3>2, FrameRecords
        DEF Nack, RecordInv, dbVars, apiVars, passVars
  <2> QED BY <1>3, <2>1, <2>2, <2>3, <2>4, <2>5, <2>6, <2>7, <2>8, <2>9, <2>10, <2>11,
      <2>12, <2>13, <2>14, <2>15, <2>16 DEF HandlerStep
<1>4. ASSUME NEW h \in Handlers, DatabaseFault(h) PROVE RecordInv'
  <2>1. /\ UNCHANGED <<row, recorded, sweeping, exec, cursor>>
        /\ pc' = [pc EXCEPT ![h] = AfterThrow(h)]
        /\ verdict' = [verdict EXCEPT ![h] = IF pc[h] \in Engaged THEN "failed" ELSE @]
    BY <1>4 DEF DatabaseFault, Throw, Goto, dbVars, apiVars
  <2>2. AfterThrow(h) \in Engaged \cup {"finish"} => pc[h] \in Engaged
    BY <1>4 DEF DatabaseFault, AfterThrow, Engaged, TypeOK, HandlerType, Points
  <2>3. PassRecorded'
    BY <2>1, <2>2 DEF RecordInv, PassRecorded, Kept, TypeOK, HandlerType, Bookkeeping, HandlerBooks
  <2>4. CompletedAtEnd'
    BY <2>1, <2>2 DEF RecordInv, CompletedAtEnd, TypeOK, HandlerType
  <2> QED BY <2>1, <2>3, <2>4, FrameRecords
<1>5. ASSUME NEW h \in Handlers, Crash(h) PROVE RecordInv'
  <2>1. PassRecorded'
    BY <1>5 DEF Crash, Release, RecordInv, PassRecorded, Kept, Engaged, Nodes, TypeOK,
       DbType, ApiType, HandlerType, Bookkeeping, HandlerBooks, Cursors, dbVars,
       apiVars, passVars
  <2>2. CompletedAtEnd'
    BY <1>5 DEF Crash, Release, RecordInv, CompletedAtEnd, Engaged, TypeOK, HandlerType,
       Bookkeeping, Cursors, passVars
  <2> QED BY <1>5, <2>1, <2>2, FrameRecords
      DEF Crash, RecordInv, dbVars, apiVars, passVars
<1>6. ASSUME NEW h \in Handlers, NEW e \in Execs, Pickup(h, e) PROVE RecordInv'
  <2>1. PassRecorded'
    BY <1>6 DEF Pickup, RecordInv, PassRecorded, Kept, Engaged, Nodes, TypeOK, DbType,
       ApiType, HandlerType, Bookkeeping, HandlerBooks, Cursors, dbVars, apiVars,
       passVars
  <2>2. CompletedAtEnd'
    BY <1>6 DEF Pickup, RecordInv, CompletedAtEnd, Engaged, TypeOK, HandlerType,
       Bookkeeping, Cursors, passVars
  <2> QED BY <1>6, <2>1, <2>2, FrameRecords
      DEF Pickup, RecordInv, dbVars, apiVars, passVars
<1>7. CASE UNCHANGED vars
  BY <1>7, FrameRecords DEF vars, dbVars, apiVars, passVars
<1> QED BY <1>1, <1>2, <1>3, <1>4, <1>5, <1>6, <1>7 DEF Next

\* An execution that is reported completed has a step row for each of its nodes, for
\* any number of nodes, handlers, attempts and faults.
THEOREM CompletedHasItsSteps == Spec => []CompletedIsRecorded
<1>1. Init => RecordInv
  BY DEF Init, RecordInv, PassRecorded, CompletedAtEnd, CompletedIsRecorded, Engaged
<1>2. RecordInv => CompletedIsRecorded
  BY DEF RecordInv
<1> QED BY <1>1, <1>2, TypeCorrect, RecordStepKeeps, PTL DEF Spec

\* No step but the write of stop() turns a row to "canceled": the handler's own write
\* finds no row, because the workflow that is missing took the execution with it.
LEMMA CancelStep ==
    ASSUME TypeOK, Bookkeeping, RowStages, [Next]_vars,
           NEW x \in Execs, row[x] # "canceled", row'[x] = "canceled"
    PROVE  stopping[x] /\ ~stopping'[x]
<1>1. ASSUME NEW e \in Execs, Api(e) PROVE stopping[x] /\ ~stopping'[x]
  <2>1. CASE TriggerInsert(e)
    BY <2>1 DEF TriggerInsert, TypeOK, DbType
  <2>2. CASE TriggerAuthorize(e)
    BY <2>2 DEF TriggerAuthorize, dbVars
  <2>3. CASE TriggerEnqueue(e)
    BY <2>3 DEF TriggerEnqueue, dbVars
  <2>4. CASE TriggerFail(e)
    BY <2>4 DEF TriggerFail, dbVars
  <2>5. CASE Expire(e)
    BY <2>5 DEF Expire, dbVars
  <2>6. CASE StopRead(e)
    BY <2>6 DEF StopRead, dbVars
  <2>7. CASE StopWrite(e)
    BY <2>7 DEF StopWrite, Update, TypeOK, DbType, ApiType
  <2>8. CASE DeleteWorkflow(e)
    BY <2>8 DEF DeleteWorkflow, TypeOK, DbType
  <2>9. CASE SweepSteps(e)
    BY <2>9 DEF SweepSteps, dbVars
  <2>10. CASE SweepRow(e)
    BY <2>10 DEF SweepRow, TypeOK, DbType
  <2> QED BY <1>1, <2>1, <2>2, <2>3, <2>4, <2>5, <2>6, <2>7, <2>8, <2>9, <2>10 DEF Api
<1>2. ASSUME NEW e \in Execs, Stall(e) PROVE stopping[x] /\ ~stopping'[x]
  BY <1>2 DEF Stall, dbVars
<1>3. ASSUME NEW h \in Handlers, HandlerStep(h) PROVE stopping[x] /\ ~stopping'[x]
  <2>1. CASE ReadStatus(h)
    BY <2>1 DEF ReadStatus, dbVars
  <2>2. CASE MarkRunning(h)
    BY <2>2 DEF MarkRunning, Update, TypeOK, DbType
  <2>3. CASE Authorize(h)
    BY <2>3 DEF Authorize, dbVars
  <2>4. CASE LoadWorkflow(h)
    BY <2>4 DEF LoadWorkflow, dbVars
  <2>5. CASE RejectGraph(h)
    BY <2>5 DEF RejectGraph, dbVars
  <2>6. CASE StepStart(h)
    BY <2>6 DEF StepStart, dbVars
  <2>7. CASE RunNode(h)
    BY <2>7 DEF RunNode, dbVars
  <2>8. CASE SkipNode(h)
    BY <2>8 DEF SkipNode, dbVars
  <2>9. CASE RecordStep(h)
    BY <2>9 DEF RecordStep, dbVars
  <2>10. CASE SkipRest(h)
    BY <2>10 DEF SkipRest, dbVars
  <2>11. CASE Finish(h)
    BY <2>11 DEF Finish, Update, TypeOK, DbType, HandlerType
  <2>12. CASE FailWrite(h)
    BY <2>12 DEF FailWrite, Update, TypeOK, DbType
  <2>13. CASE CancelWrite(h)
    BY <2>13 DEF CancelWrite, Update, TypeOK, DbType, HandlerType, Bookkeeping,
        HandlerBooks, RowStages, RowExists, StoppedIsGone
  <2>14. CASE MissingRow(h)
    BY <2>14 DEF MissingRow, dbVars, Throw
  <2>15. CASE Ack(h)
    BY <2>15 DEF Ack, dbVars
  <2>16. CASE Nack(h)
    BY <2>16 DEF Nack, dbVars
  <2> QED BY <1>3, <2>1, <2>2, <2>3, <2>4, <2>5, <2>6, <2>7, <2>8, <2>9, <2>10, <2>11,
      <2>12, <2>13, <2>14, <2>15, <2>16 DEF HandlerStep
<1>4. ASSUME NEW h \in Handlers, DatabaseFault(h) PROVE stopping[x] /\ ~stopping'[x]
  BY <1>4 DEF DatabaseFault, dbVars, Throw
<1>5. ASSUME NEW h \in Handlers, Crash(h) PROVE stopping[x] /\ ~stopping'[x]
  BY <1>5 DEF Crash, dbVars
<1>6. ASSUME NEW h \in Handlers, NEW e \in Execs, Pickup(h, e) PROVE stopping[x] /\ ~stopping'[x]
  BY <1>6 DEF Pickup, dbVars
<1>7. CASE UNCHANGED vars
  BY <1>7 DEF vars, dbVars
<1> QED BY <1>1, <1>2, <1>3, <1>4, <1>5, <1>6, <1>7 DEF Next

\* Only stop() ever makes an execution "canceled".
THEOREM OnlyStopCancelsHolds == Spec => OnlyStopCancels
<1>1. TypeOK /\ Bookkeeping /\ RowStages /\ [Next]_vars
        => [\A e \in Execs : row[e] # "canceled" /\ row'[e] = "canceled"
                => stopping[e] /\ ~stopping'[e]]_vars
  BY CancelStep
<1> QED BY <1>1, TypeCorrect, RowStagesInvariant, PTL DEF Spec, OnlyStopCancels

(***************************************************************************)
(* The three programs implement the abstract life of an execution.         *)
(***************************************************************************)

AbstractStep == [Lifecycle!Next]_(Lifecycle!lifeVars)

\* Steps that do not touch what the abstract life sees are stuttering steps of it.
LEMMA Unseen ==
    ASSUME UNCHANGED <<row, trigger, job, exec>>
    PROVE  AbstractStep
  BY DEF AbstractStep, Lifecycle!lifeVars, stage, born, AtRest

\* The stage depends on the jobs and on who is at work.
LEMMA SameStage ==
    /\ UNCHANGED <<job, exec>> => UNCHANGED stage
    /\ UNCHANGED trigger => UNCHANGED born
  BY DEF stage, born, AtRest

\* An execution a handler is on is live.
LEMMA EngagedIsLive ==
    ASSUME Bookkeeping, NEW h \in Handlers, pc[h] # "idle"
    PROVE  exec[h] \in Execs /\ stage[exec[h]] = "live"
  BY DEF Bookkeeping, HandlerBooks, stage, AtRest

\* An UPDATE of the row by a handler past its write of "running" ends the execution.
LEMMA EndStep ==
    ASSUME Bookkeeping, RowStages, TypeOK,
           NEW h \in Handlers, pc[h] \in {"finish", "failWrite"},
           NEW result \in {"completed", "failed"}, Update(exec[h], result),
           UNCHANGED <<trigger, job, exec>>
    PROVE  AbstractStep
<1>1. exec[h] \in Execs /\ stage[exec[h]] = "live"
  BY EngagedIsLive
<1>2. CASE row[exec[h]] = "none"
  BY <1>2, Unseen DEF Update
<1>3. CASE row[exec[h]] # "none"
  <2>1. row[exec[h]] # "pending"
    BY DEF RowStages, PastMark
  <2>2. Lifecycle!End(exec[h])
    BY <1>1, <1>3, <2>1, SameStage DEF Lifecycle!End, Update
  <2> QED BY <1>1, <2>2 DEF AbstractStep, Lifecycle!Next
<1> QED BY <1>2, <1>3

\* When only one execution may change its stage, and it leaves "live" at most for
\* "over", the abstract life makes the step Leave or none.
LEMMA LeaveStep ==
    ASSUME NEW e \in Execs, UNCHANGED <<row, trigger>>, stage[e] = "live",
           stage'[e] \in {"live", "over"},
           \A x \in Execs \ {e} : stage'[x] = stage[x]
    PROVE  AbstractStep
<1>1. stage' = [stage EXCEPT ![e] = stage'[e]]
  BY DEF stage
<1>2. UNCHANGED born
  BY SameStage
<1>3. CASE stage'[e] = "live"
  BY <1>1, <1>2, <1>3 DEF AbstractStep, Lifecycle!lifeVars, stage
<1>4. CASE stage'[e] = "over"
  BY <1>1, <1>2, <1>4 DEF AbstractStep, Lifecycle!Next, Lifecycle!Leave
<1> QED BY <1>3, <1>4

\* A handler that gives its execution up moves that execution's stage alone.
LEMMA ReleaseStep ==
    ASSUME TypeOK, Bookkeeping, NEW h \in Handlers, pc[h] # "idle", Release(h),
           UNCHANGED <<row, trigger>>,
           job'[exec[h]] \in {"waiting", "active", "completed", "failed"},
           \A x \in Execs \ {exec[h]} : job'[x] = job[x]
    PROVE  AbstractStep
<1>1. exec[h] \in Execs /\ stage[exec[h]] = "live"
  BY EngagedIsLive
<1>2. exec' = [exec EXCEPT ![h] = None]
  BY DEF Release
<1>3. stage'[exec[h]] \in {"live", "over"}
  BY <1>1 DEF stage
<1>4. ASSUME NEW x \in Execs \ {exec[h]} PROVE stage'[x] = stage[x]
  <2>1. AtRest(x)' <=> AtRest(x)
    BY <1>2, ConstantsAssumption DEF AtRest, TypeOK, HandlerType
  <2> QED BY <2>1 DEF stage
<1> QED BY <1>1, <1>3, <1>4, LeaveStep

\* Every step of the three programs is a step of the abstract life, or none.
LEMMA LifecycleStep ==
    ASSUME TypeOK, Bookkeeping, RowStages, [Next]_vars
    PROVE  AbstractStep
<1> USE ConstantsAssumption
<1>1. ASSUME NEW e \in Execs, Api(e) PROVE AbstractStep
  <2>1. CASE TriggerInsert(e)
    <3>1. born' = [born EXCEPT ![e] = TRUE] /\ ~born[e]
      BY <2>1 DEF TriggerInsert, born, TypeOK, ApiType
    <3> QED BY <2>1, <3>1, SameStage
        DEF TriggerInsert, queueVars, AbstractStep, Lifecycle!Next, Lifecycle!Create
  <2>2. CASE TriggerAuthorize(e)
    <3>1. UNCHANGED born
      BY <2>2 DEF TriggerAuthorize, born, TypeOK, ApiType
    <3> QED BY <2>2, <3>1, SameStage
        DEF TriggerAuthorize, queueVars, AbstractStep, Lifecycle!lifeVars
  <2>3. CASE TriggerEnqueue(e)
    <3>1. UNCHANGED <<row, born>> /\ born[e]
      BY <2>3 DEF TriggerEnqueue, born, TypeOK, ApiType, dbVars
    <3>2. stage' = [stage EXCEPT ![e] = "live"] /\ stage[e] = "unqueued"
      BY <2>3 DEF TriggerEnqueue, stage, AtRest, Bookkeeping, JobBooks, TypeOK, QueueType
    <3> QED BY <3>1, <3>2 DEF AbstractStep, Lifecycle!Next, Lifecycle!Enqueue
  <2>4. CASE TriggerFail(e)
    <3>1. UNCHANGED born
      BY <2>4 DEF TriggerFail, born, TypeOK, ApiType
    <3> QED BY <2>4, <3>1, SameStage
        DEF TriggerFail, dbVars, queueVars, AbstractStep, Lifecycle!lifeVars
  <2>5. CASE Expire(e)
    BY <2>5, Unseen DEF Expire, apiVars, queueVars
  <2>6. CASE StopRead(e)
    BY <2>6, Unseen DEF StopRead, dbVars, queueVars
  <2>7. CASE StopWrite(e)
    <3>1. UNCHANGED <<stage, born>>
      BY <2>7, SameStage DEF StopWrite, queueVars
    <3>2. CASE row[e] = "none"
      BY <2>7, <3>1, <3>2 DEF StopWrite, Update, AbstractStep, Lifecycle!lifeVars
    <3>3. CASE row[e] # "none"
      BY <2>7, <3>1, <3>3
         DEF StopWrite, Update, AbstractStep, Lifecycle!Next, Lifecycle!Cancel
    <3> QED BY <3>2, <3>3
  <2>8. CASE DeleteWorkflow(e)
    BY <2>8, SameStage DEF DeleteWorkflow, apiVars, queueVars, AbstractStep,
       Lifecycle!Next, Lifecycle!Delete
  <2>9. CASE SweepSteps(e)
    BY <2>9, Unseen DEF SweepSteps, queueVars
  <2>10. CASE SweepRow(e)
    BY <2>10, SameStage DEF SweepRow, apiVars, queueVars, AbstractStep,
       Lifecycle!Next, Lifecycle!Delete
  <2> QED BY <1>1, <2>1, <2>2, <2>3, <2>4, <2>5, <2>6, <2>7, <2>8, <2>9, <2>10 DEF Api
<1>2. ASSUME NEW e \in Execs, Stall(e) PROVE AbstractStep
  <2>1. UNCHANGED <<row, trigger, exec>> /\ job[e] = "active"
    BY <1>2 DEF Stall, dbVars, apiVars
  <2>2. job' = [job EXCEPT ![e] = job'[e]] /\ job'[e] \in {"waiting", "failed"}
    BY <1>2 DEF Stall, TypeOK, QueueType
  <2>3. stage[e] = "live" /\ stage'[e] \in {"live", "over"}
    BY <2>1, <2>2 DEF stage
  <2>4. \A x \in Execs \ {e} : stage'[x] = stage[x]
    BY <2>1, <2>2 DEF stage, AtRest, TypeOK, QueueType
  <2> QED BY <2>1, <2>3, <2>4, LeaveStep
<1>3. ASSUME NEW h \in Handlers, HandlerStep(h) PROVE AbstractStep
  <2>1. CASE MarkRunning(h)
    <3>1. exec[h] \in Execs /\ stage[exec[h]] = "live" /\ UNCHANGED <<stage, born>>
      BY <2>1, EngagedIsLive, SameStage DEF MarkRunning, apiVars, queueVars
    <3>2. CASE row[exec[h]] = "none"
      BY <2>1, <3>1, <3>2 DEF MarkRunning, Update, AbstractStep, Lifecycle!lifeVars
    <3>3. CASE row[exec[h]] # "none"
      BY <2>1, <3>1, <3>3
         DEF MarkRunning, Update, AbstractStep, Lifecycle!Next, Lifecycle!Start
    <3> QED BY <3>2, <3>3
  <2>2. CASE Finish(h)
    BY <2>2, EndStep DEF Finish, apiVars, queueVars, TypeOK, HandlerType
  <2>3. CASE FailWrite(h)
    BY <2>3, EndStep DEF FailWrite, apiVars, queueVars
  <2>4. CASE CancelWrite(h)
    <3>1. exec[h] \in Execs
      BY <2>4, EngagedIsLive DEF CancelWrite
    <3>2. row[exec[h]] = "none"
      BY <2>4, <3>1 DEF CancelWrite, RowStages, RowExists, StoppedIsGone
    <3> QED BY <2>4, <3>2, Unseen DEF CancelWrite, Update, apiVars, queueVars
  <2>5. CASE Ack(h)
    <3>1. exec[h] \in Execs /\ job[exec[h]] \in {"waiting", "active", "completed", "failed"}
      BY <2>5 DEF Ack, Bookkeeping, HandlerBooks, TypeOK, QueueType
    <3>2. /\ job'[exec[h]] \in {"waiting", "active", "completed", "failed"}
          /\ \A x \in Execs \ {exec[h]} : job'[x] = job[x]
      BY <2>5, <3>1 DEF Ack, TypeOK, QueueType
    <3> QED BY <2>5, <3>2, ReleaseStep DEF Ack, dbVars, apiVars
  <2>6. CASE Nack(h)
    <3>1. exec[h] \in Execs /\ job[exec[h]] \in {"waiting", "active", "completed", "failed"}
      BY <2>6 DEF Nack, Bookkeeping, HandlerBooks, TypeOK, QueueType
    <3>2. /\ job'[exec[h]] \in {"waiting", "active", "completed", "failed"}
          /\ \A x \in Execs \ {exec[h]} : job'[x] = job[x]
      BY <2>6, <3>1 DEF Nack, TypeOK, QueueType
    <3> QED BY <2>6, <3>2, ReleaseStep DEF Nack, dbVars, apiVars
  <2>7. CASE \/ ReadStatus(h) \/ Authorize(h) \/ LoadWorkflow(h) \/ RejectGraph(h)
             \/ StepStart(h) \/ RunNode(h) \/ SkipNode(h) \/ RecordStep(h) \/ SkipRest(h)
             \/ MissingRow(h)
    BY <2>7, Unseen DEF ReadStatus, Authorize, LoadWorkflow, RejectGraph, StepStart,
       RunNode, SkipNode, RecordStep, SkipRest, MissingRow, Throw, dbVars, apiVars, queueVars
  <2> QED BY <1>3, <2>1, <2>2, <2>3, <2>4, <2>5, <2>6, <2>7 DEF HandlerStep
<1>4. ASSUME NEW h \in Handlers, DatabaseFault(h) PROVE AbstractStep
  BY <1>4, Unseen DEF DatabaseFault, Throw, dbVars, apiVars, queueVars
<1>5. ASSUME NEW h \in Handlers, Crash(h) PROVE AbstractStep
  <2>1. exec[h] \in Execs /\ job[exec[h]] \in {"waiting", "active", "completed", "failed"}
    BY <1>5 DEF Crash, Bookkeeping, HandlerBooks, TypeOK, QueueType
  <2> QED BY <1>5, <2>1, ReleaseStep DEF Crash, dbVars, apiVars, queueVars
<1>6. ASSUME NEW h \in Handlers, NEW e \in Execs, Pickup(h, e) PROVE AbstractStep
  <2>1. exec[h] = None /\ job[e] = "waiting"
    BY <1>6 DEF Pickup, Bookkeeping, HandlerBooks
  <2>2. ASSUME NEW x \in Execs PROVE stage'[x] = stage[x]
    <3>1. CASE x = e
      BY <1>6, <2>1, <3>1 DEF Pickup, stage, TypeOK, QueueType
    <3>2. CASE x # e
      <4>1. AtRest(x)' <=> AtRest(x)
        BY <1>6, <2>1, <3>2 DEF Pickup, AtRest, TypeOK, HandlerType
      <4> QED BY <1>6, <3>2, <4>1 DEF Pickup, stage, TypeOK, QueueType
    <3> QED BY <3>1, <3>2
  <2>3. UNCHANGED stage
    BY <2>2 DEF stage
  <2> QED BY <1>6, <2>3, SameStage
      DEF Pickup, dbVars, apiVars, AbstractStep, Lifecycle!lifeVars
<1>7. CASE UNCHANGED vars
  BY <1>7, Unseen DEF vars, dbVars, apiVars, queueVars
<1> QED BY <1>1, <1>2, <1>3, <1>4, <1>5, <1>6, <1>7 DEF Next

\* A client that polls the row can rely on the abstract life: ids are used once, an
\* execution runs and ends only while its job is alive, and nothing ends that was
\* never started, for any number of handlers, nodes, attempts and faults.
THEOREM LifecycleImplemented == Spec => ImplementsLifecycle
<1>1. Init => Lifecycle!Init
  <2>1. ASSUME Init PROVE \A e \in Execs : (trigger[e] # "idle") = FALSE
    BY <2>1 DEF Init
  <2>2. ASSUME Init PROVE born = [e \in Execs |-> FALSE]
    BY <2>1, <2>2, Zenon DEF born
  <2>3. ASSUME Init PROVE stage = [e \in Execs |-> "unqueued"]
    BY <2>3 DEF Init, stage
  <2> QED BY <2>2, <2>3 DEF Init, Lifecycle!Init
<1>2. TypeOK /\ Bookkeeping /\ RowStages /\ [Next]_vars
        => [Lifecycle!Next]_(Lifecycle!lifeVars)
  BY LifecycleStep DEF AbstractStep
<1> QED BY <1>1, <1>2, TypeCorrect, RowStagesInvariant, PTL
    DEF Spec, ImplementsLifecycle, Lifecycle!Spec

(***************************************************************************)
(* Each handler of module Execution walks as EngineWalk says, which module *)
(* Engine implements.                                                      *)
(***************************************************************************)

\* A handler that another program's step leaves where it is.
Still(h) ==
    pc'[h] = pc[h] /\ cursor'[h] = cursor[h] /\ outcome'[h] = outcome[h]
        /\ verdict'[h] = verdict[h]

Moves(h) ==
    \/ HandlerStep(h) \/ DatabaseFault(h) \/ Crash(h)
    \/ \E e \in Execs : Pickup(h, e)

\* Only a handler itself, the queue that gives it a job and the end of its process
\* move it.
LEMMA OthersStandStill ==
    ASSUME TypeOK, NEW h \in Handlers, [Next]_vars, ~Moves(h)
    PROVE  Still(h)
<1>1. ASSUME NEW e \in Execs, Api(e) PROVE Still(h)
  <2>1. UNCHANGED <<pc, passVars>>
    BY <1>1 DEF Api, TriggerInsert, TriggerAuthorize, TriggerEnqueue, TriggerFail, Expire,
       StopRead, StopWrite, DeleteWorkflow, SweepSteps, SweepRow
  <2> QED BY <2>1 DEF Still, passVars
<1>2. ASSUME NEW e \in Execs, Stall(e) PROVE Still(h)
  BY <1>2 DEF Stall, Still, passVars
<1>3. ASSUME NEW g \in Handlers, g # h, HandlerStep(g) PROVE Still(h)
  <2>1. CASE ReadStatus(g) \/ MarkRunning(g) \/ Authorize(g) \/ LoadWorkflow(g)
    BY <1>3, <2>1 DEF ReadStatus, MarkRunning, Authorize, LoadWorkflow, Goto, Still,
       passVars, TypeOK, HandlerType
  <2>2. CASE RejectGraph(g) \/ StepStart(g) \/ RunNode(g) \/ SkipNode(g)
    BY <1>3, <2>2 DEF RejectGraph, StepStart, RunNode, SkipNode, Goto, Still,
       passVars, TypeOK, HandlerType
  <2>3. CASE RecordStep(g) \/ SkipRest(g)
    BY <1>3, <2>3 DEF RecordStep, SkipRest, Goto, Still, passVars, TypeOK, HandlerType
  <2>4. CASE Finish(g) \/ FailWrite(g) \/ CancelWrite(g)
    BY <1>3, <2>4 DEF Finish, FailWrite, CancelWrite, Goto, Still, passVars, TypeOK,
       HandlerType
  <2>5. CASE MissingRow(g)
    BY <1>3, <2>5 DEF MissingRow, Throw, Goto, Still, TypeOK, HandlerType
  <2>6. CASE Ack(g) \/ Nack(g)
    BY <1>3, <2>6 DEF Ack, Nack, Release, Still, TypeOK, HandlerType
  <2> QED BY <1>3, <2>1, <2>2, <2>3, <2>4, <2>5, <2>6 DEF HandlerStep
<1>4. ASSUME NEW g \in Handlers, g # h, DatabaseFault(g) PROVE Still(h)
  BY <1>4 DEF DatabaseFault, Throw, Goto, Still, TypeOK, HandlerType
<1>5. ASSUME NEW g \in Handlers, g # h, Crash(g) PROVE Still(h)
  BY <1>5 DEF Crash, Release, Still, TypeOK, HandlerType
<1>6. ASSUME NEW g \in Handlers, g # h, NEW e \in Execs, Pickup(g, e) PROVE Still(h)
  BY <1>6 DEF Pickup, Still, passVars, TypeOK, HandlerType
<1>7. CASE UNCHANGED vars
  BY <1>7 DEF vars, Still, passVars
<1> QED BY <1>1, <1>2, <1>3, <1>4, <1>5, <1>6, <1>7 DEF Next, Moves

\* The books of one handler.
Walking(h) ==
    /\ pc[h] \in {"idle", "read", "mark", "authorize", "load", "stepStart", "runNode"}
          => verdict[h] = "completed"
    /\ pc[h] = "record" /\ outcome[h] # "failed" => verdict[h] = "completed"
    /\ pc[h] # "record" => outcome[h] = "completed"

WalkStep(h) == Walk(h)!Next \/ UNCHANGED Walk(h)!walk

LEMMA StillWalks ==
    ASSUME NEW h \in Handlers, Still(h), Walking(h)
    PROVE  Walking(h)' /\ WalkStep(h)
  BY DEF Still, Walking, WalkStep, Walk!walk, WalkPoint

\* What a step of the handler itself makes of the walk.
LEMMA MoveWalks ==
    ASSUME TypeOK, Bookkeeping, NEW h \in Handlers, Walking(h), Moves(h)
    PROVE  Walking(h)' /\ WalkStep(h)
<1> USE ConstantsAssumption DEF WalkStep, Walk!walk, WalkPoint, Engaged
<1>h. /\ h \in DOMAIN pc /\ h \in DOMAIN cursor /\ h \in DOMAIN outcome /\ h \in DOMAIN verdict
      /\ cursor[h] \in 0..NumNodes
      /\ pc[h] \in {"idle", "read", "mark", "authorize", "load"} => cursor[h] = 0
      /\ pc[h] \in {"stepStart", "runNode", "record"} => cursor[h] < NumNodes
  BY DEF TypeOK, HandlerType, Bookkeeping, Cursors
<1>1. CASE \/ ReadStatus(h) \/ MarkRunning(h) \/ Authorize(h) \/ FailWrite(h)
           \/ CancelWrite(h)
  BY <1>1, <1>h DEF ReadStatus, MarkRunning, Authorize, FailWrite, CancelWrite, Goto,
     passVars, Walking
<1>2. CASE LoadWorkflow(h)
  BY <1>2, <1>h DEF LoadWorkflow, Goto, NextPoint, passVars, Walking,
     Walk!Next, Walk!Begin, Walk!At
<1>3. CASE RejectGraph(h)
  BY <1>3, <1>h DEF RejectGraph, Goto, Walking, Walk!Next, Walk!GiveUp
<1>4. CASE StepStart(h)
  BY <1>4, <1>h DEF StepStart, Goto, Walking, Walk!Next, Walk!GiveUp, Walk!Announce
<1>5. CASE RunNode(h)
  BY <1>5, <1>h DEF RunNode, Goto, Walking, Outcomes, Walk!Next, Walk!Run
<1>6. CASE SkipNode(h)
  BY <1>6, <1>h DEF SkipNode, Goto, Walking, Walk!Next, Walk!Run
<1>7. CASE RecordStep(h)
  BY <1>7, <1>h DEF RecordStep, Goto, NextPoint, Walking, Walk!Next, Walk!Record, Walk!At
<1>8. CASE SkipRest(h)
  BY <1>8, <1>h DEF SkipRest, Goto, Walking, Walk!Next, Walk!SkipRest
<1>9. CASE Finish(h)
  BY <1>9, <1>h DEF Finish, Goto, passVars, Walking, Walk!Next, Walk!Leave, Walk!Init
<1>10. ASSUME Throw(h), pc[h] \notin {"idle", "runNode", "ack", "nack"},
              pc[h] = "skipRest" => cursor[h] < NumNodes
       PROVE  Walking(h)' /\ WalkStep(h)
  <2>1. pc[h] \in Points
    BY DEF TypeOK, HandlerType
  <2>2. /\ pc'[h] = AfterThrow(h)
        /\ outcome'[h] = IF pc[h] = "record" /\ outcome[h] = "skipped" THEN "failed" ELSE "completed"
        /\ verdict'[h] = IF pc[h] \in Engaged THEN "failed" ELSE verdict[h]
        /\ cursor'[h] = cursor[h]
    BY <1>10, <1>h DEF Throw, Goto
  <2>3. CASE pc[h] \in {"read", "mark", "failWrite", "cancelWrite", "authorize", "load"}
    <3>1. pc'[h] \in {"nack", "failWrite"}
      BY <2>2, <2>3 DEF AfterThrow
    <3> QED BY <2>2, <2>3, <3>1 DEF Walking
  <2>4. CASE pc[h] = "finish"
    <3>1. pc'[h] = "failWrite"
      BY <2>2, <2>4 DEF AfterThrow
    <3> QED BY <2>2, <2>4, <3>1 DEF Walking, Walk!Next, Walk!Leave, Walk!Init
  <2>5. CASE pc[h] = "record" /\ outcome[h] = "skipped"
    <3>1. pc'[h] = "record"
      BY <2>2, <2>5 DEF AfterThrow
    <3> QED BY <2>2, <2>5, <3>1 DEF Walking, Walk!Next, Walk!SkipRefused
  <2>6. CASE pc[h] \in {"stepStart", "skipRest"} \/ (pc[h] = "record" /\ outcome[h] # "skipped")
    <3>1. pc'[h] = "finish"
      BY <2>2, <2>6 DEF AfterThrow
    <3> QED BY <1>10, <1>h, <2>2, <2>6, <3>1 DEF Walking, Walk!Next, Walk!GiveUp
  <2>7. pc[h] \in {"read", "mark", "failWrite", "cancelWrite", "authorize", "load", "finish",
                   "record", "stepStart", "skipRest"}
    BY <1>10, <2>1 DEF Points
  <2>8. \/ pc[h] \in {"read", "mark", "failWrite", "cancelWrite", "authorize", "load"}
        \/ pc[h] = "finish"
        \/ pc[h] = "record" /\ outcome[h] = "skipped"
        \/ pc[h] \in {"stepStart", "skipRest"} \/ (pc[h] = "record" /\ outcome[h] # "skipped")
    BY <2>7
  <2> QED BY <2>3, <2>4, <2>5, <2>6, <2>8
<1>11. CASE MissingRow(h)
  BY <1>11, <1>10 DEF MissingRow
<1>12. CASE DatabaseFault(h)
  BY <1>12, <1>10 DEF DatabaseFault
<1>13. CASE Ack(h) \/ Nack(h) \/ Crash(h)
  BY <1>13, <1>h DEF Ack, Nack, Crash, Release, Walking, Walk!Next, Walk!Leave, Walk!Init
<1>14. ASSUME NEW e \in Execs, Pickup(h, e) PROVE Walking(h)' /\ WalkStep(h)
  BY <1>14, <1>h DEF Pickup, passVars, Walking
<1> QED BY <1>1, <1>2, <1>3, <1>4, <1>5, <1>6, <1>7, <1>8, <1>9, <1>11, <1>12, <1>13, <1>14
        DEF Moves, HandlerStep

\* The books are invariant, and every step of the system is a step of each handler's
\* walk, or none.
LEMMA AllWalk ==
    ASSUME TypeOK, Bookkeeping, WalkBooks, [Next]_vars
    PROVE  WalkBooks' /\ \A h \in Handlers : WalkStep(h)
<1>1. ASSUME NEW h \in Handlers PROVE Walking(h)' /\ WalkStep(h)
  <2>1. Walking(h)
    BY DEF WalkBooks, Walking
  <2>2. CASE Moves(h)
    BY <2>1, <2>2, MoveWalks
  <2>3. CASE ~Moves(h)
    BY <2>1, <2>3, OthersStandStill, StillWalks
  <2> QED BY <2>2, <2>3
<1> QED BY <1>1 DEF WalkBooks, Walking

\* What each handler sees of executeWorkflow is a walk that module Engine implements,
\* for any number of handlers, nodes, attempts, expired locks and faults.
THEOREM HandlersWalkHolds == Spec => HandlersWalk
<1>1. Init => WalkBooks
  BY DEF Init, WalkBooks
<1>2. Init => \A h \in Handlers : Walk(h)!Init
  BY DEF Init, Walk!Init, WalkPoint, Engaged
<1>3. TypeOK /\ Bookkeeping /\ WalkBooks /\ [Next]_vars
        => /\ WalkBooks'
           /\ \A h \in Handlers : Walk(h)!Next \/ UNCHANGED Walk(h)!walk
  BY AllWalk DEF WalkStep
<1> QED BY <1>1, <1>2, <1>3, TypeCorrect, PTL DEF Spec, HandlersWalk

(***************************************************************************)
(* A completed execution is kept.                                          *)
(***************************************************************************)
\* The lock of a job, as long as it never expires, keeps every other handler away.
LEMMA OwnerStep ==
    ASSUME TypeOK, Bookkeeping, RowStages, OwnerInv, [Next]_vars
    PROVE  OwnerInv'
<1> USE ConstantsAssumption DEF OwnerInv, OnlyTheOwner, UnqueuedIsUntouched,
       CompletedIsReturning, TypeOK, DbType, QueueType, HandlerType, Bookkeeping, JobBooks,
       HandlerBooks, RowStages, RowExists, dbVars, queueVars
<1>1. ASSUME NEW e \in Execs, Api(e) PROVE OwnerInv'
  <2>1. CASE TriggerInsert(e)
    BY <2>1 DEF TriggerInsert
  <2>2. CASE TriggerAuthorize(e)
    BY <2>2 DEF TriggerAuthorize
  <2>3. CASE TriggerEnqueue(e)
    BY <2>3 DEF TriggerEnqueue
  <2>4. CASE TriggerFail(e)
    BY <2>4 DEF TriggerFail
  <2>5. CASE Expire(e)
    BY <2>5 DEF Expire
  <2>6. CASE StopRead(e)
    BY <2>6 DEF StopRead
  <2>7. CASE StopWrite(e)
    BY <2>7 DEF StopWrite, Update
  <2>8. CASE DeleteWorkflow(e)
    BY <2>8 DEF DeleteWorkflow
  <2>9. CASE SweepSteps(e)
    BY <2>9 DEF SweepSteps
  <2>10. CASE SweepRow(e)
    BY <2>10 DEF SweepRow
  <2> QED BY <1>1, <2>1, <2>2, <2>3, <2>4, <2>5, <2>6, <2>7, <2>8, <2>9, <2>10 DEF Api
<1>2. ASSUME NEW e \in Execs, Stall(e) PROVE OwnerInv'
  BY <1>2 DEF Stall
<1>3. ASSUME NEW h \in Handlers, HandlerStep(h) PROVE OwnerInv'
  <2>1. CASE ReadStatus(h)
    BY <2>1 DEF ReadStatus, Goto
  <2>2. CASE MarkRunning(h)
    BY <2>2 DEF MarkRunning, Goto, Update
  <2>3. CASE Authorize(h)
    BY <2>3 DEF Authorize, Goto
  <2>4. CASE LoadWorkflow(h)
    BY <2>4 DEF LoadWorkflow, Goto, NextPoint
  <2>5. CASE RejectGraph(h)
    BY <2>5 DEF RejectGraph, Goto
  <2>6. CASE StepStart(h)
    BY <2>6 DEF StepStart, Goto
  <2>7. CASE RunNode(h)
    BY <2>7 DEF RunNode, Goto
  <2>8. CASE SkipNode(h)
    BY <2>8 DEF SkipNode, Goto
  <2>9. CASE RecordStep(h)
    BY <2>9 DEF RecordStep, Goto, NextPoint
  <2>10. CASE SkipRest(h)
    BY <2>10 DEF SkipRest, Goto
  <2>11. CASE Finish(h)
    BY <2>11 DEF Finish, Goto, Update
  <2>12. CASE FailWrite(h)
    BY <2>12 DEF FailWrite, Goto, Update
  <2>13. CASE CancelWrite(h)
    BY <2>13 DEF CancelWrite, Goto, Update
  <2>14. CASE MissingRow(h)
    BY <2>14 DEF MissingRow, Throw, AfterThrow, Goto
  <2>15. CASE Ack(h)
    BY <2>15 DEF Ack, Release
  <2>16. CASE Nack(h)
    BY <2>16 DEF Nack, Release
  <2> QED BY <1>3, <2>1, <2>2, <2>3, <2>4, <2>5, <2>6, <2>7, <2>8, <2>9, <2>10, <2>11,
      <2>12, <2>13, <2>14, <2>15, <2>16 DEF HandlerStep
<1>4. ASSUME NEW h \in Handlers, DatabaseFault(h) PROVE OwnerInv'
  BY <1>4 DEF DatabaseFault, Throw, AfterThrow, Goto
<1>5. ASSUME NEW h \in Handlers, Crash(h) PROVE OwnerInv'
  BY <1>5 DEF Crash, Release
<1>6. ASSUME NEW h \in Handlers, NEW e \in Execs, Pickup(h, e) PROVE OwnerInv'
  BY <1>6 DEF Pickup
<1>7. CASE UNCHANGED vars
  BY <1>7 DEF vars
<1> HIDE DEF OwnerInv, OnlyTheOwner, UnqueuedIsUntouched, CompletedIsReturning, TypeOK, DbType,
    QueueType, HandlerType, Bookkeeping, JobBooks, HandlerBooks, RowStages, RowExists, dbVars,
    queueVars
<1> QED BY <1>1, <1>2, <1>3, <1>4, <1>5, <1>6, <1>7 DEF Next

\* A job that is active has the execution of its owner, and a handler at work on an
\* execution has read its authorization: who may still write a row is always known.
THEOREM OwnerInvariant == Spec => []OwnerInv
<1>1. Init => OwnerInv
  BY ConstantsAssumption DEF Init, OwnerInv, OnlyTheOwner, UnqueuedIsUntouched,
     CompletedIsReturning
<1> QED BY <1>1, TypeCorrect, RowStagesInvariant, OwnerStep, PTL DEF Spec

\* What a step may make of a completed execution.
KeptStep(x) ==
    \/ row'[x] = "none"
    \/ row'[x] = "canceled" /\ stopping[x]
    \/ stalled[x] > 0

LEMMA KeepStep ==
    ASSUME TypeOK, Bookkeeping, RowStages, OwnerInv, [Next]_vars,
           NEW x \in Execs, row[x] = "completed", row'[x] # "completed"
    PROVE  KeptStep(x)
<1> USE ConstantsAssumption DEF KeptStep, OwnerInv, CompletedIsReturning, TypeOK, DbType,
       QueueType, HandlerType, Bookkeeping, HandlerBooks, RowStages, RowExists, dbVars
<1>1. ASSUME NEW e \in Execs, Api(e) PROVE KeptStep(x)
  <2>1. CASE TriggerInsert(e)
    BY <2>1 DEF TriggerInsert
  <2>2. CASE TriggerAuthorize(e)
    BY <2>2 DEF TriggerAuthorize
  <2>3. CASE TriggerEnqueue(e)
    BY <2>3 DEF TriggerEnqueue
  <2>4. CASE TriggerFail(e)
    BY <2>4 DEF TriggerFail
  <2>5. CASE Expire(e)
    BY <2>5 DEF Expire
  <2>6. CASE StopRead(e)
    BY <2>6 DEF StopRead
  <2>7. CASE StopWrite(e)
    BY <2>7 DEF StopWrite, Update
  <2>8. CASE DeleteWorkflow(e)
    BY <2>8 DEF DeleteWorkflow
  <2>9. CASE SweepSteps(e)
    BY <2>9 DEF SweepSteps
  <2>10. CASE SweepRow(e)
    BY <2>10 DEF SweepRow
  <2> QED BY <1>1, <2>1, <2>2, <2>3, <2>4, <2>5, <2>6, <2>7, <2>8, <2>9, <2>10 DEF Api
<1>2. ASSUME NEW e \in Execs, Stall(e) PROVE KeptStep(x)
  BY <1>2 DEF Stall
<1>3. ASSUME NEW h \in Handlers, HandlerStep(h) PROVE KeptStep(x)
  <2>1. CASE ReadStatus(h)
    BY <2>1 DEF ReadStatus, Goto
  <2>2. CASE MarkRunning(h)
    BY <2>2 DEF MarkRunning, Goto, Update
  <2>3. CASE Authorize(h)
    BY <2>3 DEF Authorize, Goto
  <2>4. CASE LoadWorkflow(h)
    BY <2>4 DEF LoadWorkflow, Goto, NextPoint
  <2>5. CASE RejectGraph(h)
    BY <2>5 DEF RejectGraph, Goto
  <2>6. CASE StepStart(h)
    BY <2>6 DEF StepStart, Goto
  <2>7. CASE RunNode(h)
    BY <2>7 DEF RunNode, Goto
  <2>8. CASE SkipNode(h)
    BY <2>8 DEF SkipNode, Goto
  <2>9. CASE RecordStep(h)
    BY <2>9 DEF RecordStep, Goto, NextPoint
  <2>10. CASE SkipRest(h)
    BY <2>10 DEF SkipRest, Goto
  <2>11. CASE Finish(h)
    BY <2>11 DEF Finish, Goto, Update
  <2>12. CASE FailWrite(h)
    BY <2>12 DEF FailWrite, Goto, Update
  <2>13. CASE CancelWrite(h)
    BY <2>13 DEF CancelWrite, Goto, Update
  <2>14. CASE MissingRow(h)
    BY <2>14 DEF MissingRow, Throw, AfterThrow, Goto
  <2>15. CASE Ack(h)
    BY <2>15 DEF Ack, Release
  <2>16. CASE Nack(h)
    BY <2>16 DEF Nack, Release
  <2> QED BY <1>3, <2>1, <2>2, <2>3, <2>4, <2>5, <2>6, <2>7, <2>8, <2>9, <2>10, <2>11,
      <2>12, <2>13, <2>14, <2>15, <2>16 DEF HandlerStep
<1>4. ASSUME NEW h \in Handlers, DatabaseFault(h) PROVE KeptStep(x)
  BY <1>4 DEF DatabaseFault, Throw, AfterThrow, Goto
<1>5. ASSUME NEW h \in Handlers, Crash(h) PROVE KeptStep(x)
  BY <1>5 DEF Crash, Release
<1>6. ASSUME NEW h \in Handlers, NEW e \in Execs, Pickup(h, e) PROVE KeptStep(x)
  BY <1>6 DEF Pickup
<1>7. CASE UNCHANGED vars
  BY <1>7 DEF vars
<1> HIDE DEF KeptStep, OwnerInv, CompletedIsReturning, TypeOK, DbType, QueueType, HandlerType,
    Bookkeeping, HandlerBooks, RowStages, RowExists, dbVars
<1> QED BY <1>1, <1>2, <1>3, <1>4, <1>5, <1>6, <1>7 DEF Next

\* A completed execution stays completed unless it is deleted, stopped by a stop
\* that had read an active status, or delivered again because its lock expired.
THEOREM CompletedIsKeptHolds == Spec => CompletedIsKept
<1>1. TypeOK /\ Bookkeeping /\ RowStages /\ OwnerInv /\ [Next]_vars
        => [\A e \in Execs : row[e] = "completed" /\ row'[e] # "completed"
                => \/ row'[e] = "none"
                   \/ row'[e] = "canceled" /\ stopping[e]
                   \/ stalled[e] > 0]_vars
  BY KeepStep DEF KeptStep
<1> QED BY <1>1, TypeCorrect, RowStagesInvariant, OwnerInvariant, PTL
        DEF Spec, CompletedIsKept

(***************************************************************************)
(* An expired authorization.                                               *)
(***************************************************************************)
\* No step brings a handler into the engine under an expired authorization.
LEMMA EmptyStep ==
    ASSUME TypeOK, Bookkeeping, [Next]_vars,
           NEW x \in Execs, auth[x] = "expired", EngineEmpty(x)
    PROVE  EngineEmpty(x)'
<1> USE ConstantsAssumption DEF EngineEmpty, Engaged, TypeOK, HandlerType, Bookkeeping,
       HandlerBooks
<1>1. ASSUME NEW e \in Execs, Api(e) PROVE EngineEmpty(x)'
  <2>1. CASE TriggerInsert(e)
    BY <2>1 DEF TriggerInsert
  <2>2. CASE TriggerAuthorize(e)
    BY <2>2 DEF TriggerAuthorize
  <2>3. CASE TriggerEnqueue(e)
    BY <2>3 DEF TriggerEnqueue
  <2>4. CASE TriggerFail(e)
    BY <2>4 DEF TriggerFail
  <2>5. CASE Expire(e)
    BY <2>5 DEF Expire
  <2>6. CASE StopRead(e)
    BY <2>6 DEF StopRead
  <2>7. CASE StopWrite(e)
    BY <2>7 DEF StopWrite, Update
  <2>8. CASE DeleteWorkflow(e)
    BY <2>8 DEF DeleteWorkflow
  <2>9. CASE SweepSteps(e)
    BY <2>9 DEF SweepSteps
  <2>10. CASE SweepRow(e)
    BY <2>10 DEF SweepRow
  <2> QED BY <1>1, <2>1, <2>2, <2>3, <2>4, <2>5, <2>6, <2>7, <2>8, <2>9, <2>10 DEF Api
<1>2. ASSUME NEW e \in Execs, Stall(e) PROVE EngineEmpty(x)'
  BY <1>2 DEF Stall
<1>3. ASSUME NEW h \in Handlers, HandlerStep(h) PROVE EngineEmpty(x)'
  <2>1. CASE ReadStatus(h)
    BY <2>1 DEF ReadStatus, Goto
  <2>2. CASE MarkRunning(h)
    BY <2>2 DEF MarkRunning, Goto, Update
  <2>3. CASE Authorize(h)
    BY <2>3 DEF Authorize, Goto
  <2>4. CASE LoadWorkflow(h)
    BY <2>4 DEF LoadWorkflow, Goto, NextPoint
  <2>5. CASE RejectGraph(h)
    BY <2>5 DEF RejectGraph, Goto
  <2>6. CASE StepStart(h)
    BY <2>6 DEF StepStart, Goto
  <2>7. CASE RunNode(h)
    BY <2>7 DEF RunNode, Goto
  <2>8. CASE SkipNode(h)
    BY <2>8 DEF SkipNode, Goto
  <2>9. CASE RecordStep(h)
    BY <2>9 DEF RecordStep, Goto, NextPoint
  <2>10. CASE SkipRest(h)
    BY <2>10 DEF SkipRest, Goto
  <2>11. CASE Finish(h)
    BY <2>11 DEF Finish, Goto, Update
  <2>12. CASE FailWrite(h)
    BY <2>12 DEF FailWrite, Goto, Update
  <2>13. CASE CancelWrite(h)
    BY <2>13 DEF CancelWrite, Goto, Update
  <2>14. CASE MissingRow(h)
    BY <2>14 DEF MissingRow, Throw, AfterThrow, Goto
  <2>15. CASE Ack(h)
    BY <2>15 DEF Ack, Release
  <2>16. CASE Nack(h)
    BY <2>16 DEF Nack, Release
  <2> QED BY <1>3, <2>1, <2>2, <2>3, <2>4, <2>5, <2>6, <2>7, <2>8, <2>9, <2>10, <2>11,
      <2>12, <2>13, <2>14, <2>15, <2>16 DEF HandlerStep
<1>4. ASSUME NEW h \in Handlers, DatabaseFault(h) PROVE EngineEmpty(x)'
  BY <1>4 DEF DatabaseFault, Throw, AfterThrow, Goto
<1>5. ASSUME NEW h \in Handlers, Crash(h) PROVE EngineEmpty(x)'
  BY <1>5 DEF Crash, Release
<1>6. ASSUME NEW h \in Handlers, NEW e \in Execs, Pickup(h, e) PROVE EngineEmpty(x)'
  BY <1>6 DEF Pickup
<1>7. CASE UNCHANGED vars
  BY <1>7 DEF vars
<1> HIDE DEF EngineEmpty, Engaged, TypeOK, HandlerType, Bookkeeping, HandlerBooks
<1> QED BY <1>1, <1>2, <1>3, <1>4, <1>5, <1>6, <1>7 DEF Next

\* Once the authorization has expired and no handler has the execution in the engine,
\* none ever gets there.
THEOREM ExpiredRunsNothingHolds == Spec => ExpiredRunsNothing
<1>1. TypeOK /\ Bookkeeping /\ [Next]_vars
        => [\A e \in Execs : auth[e] = "expired" /\ EngineEmpty(e) => EngineEmpty(e)']_vars
  BY EmptyStep
<1> QED BY <1>1, TypeCorrect, PTL DEF Spec, ExpiredRunsNothing

(***************************************************************************)
(* A stop that was written in time.                                        *)
(***************************************************************************)
\* The authorization is issued once, before the job, and only its absence or its
\* expiry fails a pass in which no call threw.
LEMMA AuthStep ==
    ASSUME TypeOK, Bookkeeping, RowStages, AuthBooks, [Next]_vars
    PROVE  AuthBooks'
<1> USE ConstantsAssumption DEF AuthBooks, TypeOK, DbType, ApiType, QueueType, HandlerType,
       HistoryType, Bookkeeping, JobBooks, HandlerBooks, RowStages, RowExists, Engaged,
       dbVars, apiVars, queueVars, historyVars
<1>1. ASSUME NEW e \in Execs, Api(e) PROVE AuthBooks'
  <2>1. CASE TriggerInsert(e)
    BY <2>1 DEF TriggerInsert
  <2>2. CASE TriggerAuthorize(e)
    BY <2>2 DEF TriggerAuthorize
  <2>3. CASE TriggerEnqueue(e)
    BY <2>3 DEF TriggerEnqueue
  <2>4. CASE TriggerFail(e)
    BY <2>4 DEF TriggerFail
  <2>5. CASE Expire(e)
    BY <2>5 DEF Expire
  <2>6. CASE StopRead(e)
    BY <2>6 DEF StopRead
  <2>7. CASE StopWrite(e)
    BY <2>7 DEF StopWrite, Update
  <2>8. CASE DeleteWorkflow(e)
    BY <2>8 DEF DeleteWorkflow
  <2>9. CASE SweepSteps(e)
    BY <2>9 DEF SweepSteps
  <2>10. CASE SweepRow(e)
    BY <2>10 DEF SweepRow
  <2> QED BY <1>1, <2>1, <2>2, <2>3, <2>4, <2>5, <2>6, <2>7, <2>8, <2>9, <2>10 DEF Api
<1>2. ASSUME NEW e \in Execs, Stall(e) PROVE AuthBooks'
  BY <1>2 DEF Stall
<1>3. ASSUME NEW h \in Handlers, HandlerStep(h) PROVE AuthBooks'
  <2>1. CASE ReadStatus(h)
    BY <2>1 DEF ReadStatus, Goto
  <2>2. CASE MarkRunning(h)
    BY <2>2 DEF MarkRunning, Goto, Update
  <2>3. CASE Authorize(h)
    BY <2>3 DEF Authorize, Goto
  <2>4. CASE LoadWorkflow(h)
    BY <2>4 DEF LoadWorkflow, Goto, NextPoint
  <2>5. CASE RejectGraph(h)
    BY <2>5 DEF RejectGraph, Goto
  <2>6. CASE StepStart(h)
    BY <2>6 DEF StepStart, Goto
  <2>7. CASE RunNode(h)
    BY <2>7 DEF RunNode, Goto
  <2>8. CASE SkipNode(h)
    BY <2>8 DEF SkipNode, Goto
  <2>9. CASE RecordStep(h)
    BY <2>9 DEF RecordStep, Goto, NextPoint
  <2>10. CASE SkipRest(h)
    BY <2>10 DEF SkipRest, Goto
  <2>11. CASE Finish(h)
    BY <2>11 DEF Finish, Goto, Update
  <2>12. CASE FailWrite(h)
    BY <2>12 DEF FailWrite, Goto, Update
  <2>13. CASE CancelWrite(h)
    BY <2>13 DEF CancelWrite, Goto, Update
  <2>14. CASE MissingRow(h)
    BY <2>14 DEF MissingRow, Throw, AfterThrow, Goto
  <2>15. CASE Ack(h)
    BY <2>15 DEF Ack, Release
  <2>16. CASE Nack(h)
    BY <2>16 DEF Nack, Release
  <2> QED BY <1>3, <2>1, <2>2, <2>3, <2>4, <2>5, <2>6, <2>7, <2>8, <2>9, <2>10, <2>11,
      <2>12, <2>13, <2>14, <2>15, <2>16 DEF HandlerStep
<1>4. ASSUME NEW h \in Handlers, DatabaseFault(h) PROVE AuthBooks'
  BY <1>4 DEF DatabaseFault, Throw, AfterThrow, Goto
<1>5. ASSUME NEW h \in Handlers, Crash(h) PROVE AuthBooks'
  BY <1>5 DEF Crash, Release
<1>6. ASSUME NEW h \in Handlers, NEW e \in Execs, Pickup(h, e) PROVE AuthBooks'
  BY <1>6 DEF Pickup
<1>7. CASE UNCHANGED vars
  BY <1>7 DEF vars
<1> HIDE DEF AuthBooks, TypeOK, DbType, ApiType, QueueType, HandlerType, HistoryType,
    Bookkeeping, JobBooks, HandlerBooks, RowStages, RowExists, Engaged, dbVars, apiVars, queueVars,
    historyVars
<1> QED BY <1>1, <1>2, <1>3, <1>4, <1>5, <1>6, <1>7 DEF Next

\* A stop that was written in time leaves the execution stopped for good.
LEMMA StopStep ==
    ASSUME TypeOK, Bookkeeping, RowStages, OwnerInv, AuthBooks, StopBooks, [Next]_vars
    PROVE  StopBooks'
<1> USE ConstantsAssumption DEF StopBooks, StaysStopped, EngineEmpty, Engaged, OwnerInv,
       OnlyTheOwner, AuthBooks, TypeOK, DbType, ApiType, QueueType, HandlerType,
       HistoryType, Bookkeeping, JobBooks, HandlerBooks, RowStages, RowExists, dbVars,
       apiVars, queueVars, historyVars
<1>1. ASSUME NEW e \in Execs, Api(e) PROVE StopBooks'
  <2>1. CASE TriggerInsert(e)
    BY <2>1 DEF TriggerInsert
  <2>2. CASE TriggerAuthorize(e)
    BY <2>2 DEF TriggerAuthorize
  <2>3. CASE TriggerEnqueue(e)
    BY <2>3 DEF TriggerEnqueue
  <2>4. CASE TriggerFail(e)
    BY <2>4 DEF TriggerFail
  <2>5. CASE Expire(e)
    BY <2>5 DEF Expire
  <2>6. CASE StopRead(e)
    BY <2>6 DEF StopRead
  <2>7. CASE StopWrite(e)
    BY <2>7 DEF StopWrite, Update
  <2>8. CASE DeleteWorkflow(e)
    BY <2>8 DEF DeleteWorkflow
  <2>9. CASE SweepSteps(e)
    BY <2>9 DEF SweepSteps
  <2>10. CASE SweepRow(e)
    BY <2>10 DEF SweepRow
  <2> QED BY <1>1, <2>1, <2>2, <2>3, <2>4, <2>5, <2>6, <2>7, <2>8, <2>9, <2>10 DEF Api
<1>2. ASSUME NEW e \in Execs, Stall(e) PROVE StopBooks'
  BY <1>2 DEF Stall
<1>3. ASSUME NEW h \in Handlers, HandlerStep(h) PROVE StopBooks'
  <2>1. CASE ReadStatus(h)
    BY <2>1 DEF ReadStatus, Goto
  <2>2. CASE MarkRunning(h)
    BY <2>2 DEF MarkRunning, Goto, Update
  <2>3. CASE Authorize(h)
    BY <2>3 DEF Authorize, Goto
  <2>4. CASE LoadWorkflow(h)
    BY <2>4 DEF LoadWorkflow, Goto, NextPoint
  <2>5. CASE RejectGraph(h)
    BY <2>5 DEF RejectGraph, Goto
  <2>6. CASE StepStart(h)
    BY <2>6 DEF StepStart, Goto
  <2>7. CASE RunNode(h)
    BY <2>7 DEF RunNode, Goto
  <2>8. CASE SkipNode(h)
    BY <2>8 DEF SkipNode, Goto
  <2>9. CASE RecordStep(h)
    BY <2>9 DEF RecordStep, Goto, NextPoint
  <2>10. CASE SkipRest(h)
    BY <2>10 DEF SkipRest, Goto
  <2>11. CASE Finish(h)
    <3>1. /\ pc[h] = "finish" /\ pc' = [pc EXCEPT ![h] = "ack"]
          /\ UNCHANGED <<auth, trigger, job, owner, stalled, mishaps, heldStop, exec>>
          /\ \A x \in Execs : x # exec[h] => row'[x] = row[x]
          /\ row[exec[h]] = "none" => row'[exec[h]] = "none"
      BY <2>11 DEF Finish, Goto, Update
    <3>2. ASSUME NEW x \in Execs, heldStop[x], stalled[x] = 0, "fault" \notin mishaps[x]
          PROVE  StaysStopped(x)'
      <4>1. CASE x # exec[h]
        BY <3>1, <3>2, <4>1
      <4>2. CASE x = exec[h]
        <5>1. \A g \in Handlers : exec[g] = x => g = h
          BY <3>2, <4>2
        <5>2. job[x] = "active" /\ \A g \in Handlers : exec'[g] = x => pc'[g] = "ack"
          BY <3>1, <3>2, <4>2, <5>1
        <5> QED BY <3>1, <3>2, <4>2, <5>2
      <4> QED BY <4>1, <4>2
    <3> QED BY <3>1, <3>2
  <2>12. CASE FailWrite(h)
    BY <2>12 DEF FailWrite, Goto, Update
  <2>13. CASE CancelWrite(h)
    BY <2>13 DEF CancelWrite, Goto, Update
  <2>14. CASE MissingRow(h)
    BY <2>14 DEF MissingRow, Throw, AfterThrow, Goto
  <2>15. CASE Ack(h)
    BY <2>15 DEF Ack, Release
  <2>16. CASE Nack(h)
    BY <2>16 DEF Nack, Release
  <2> QED BY <1>3, <2>1, <2>2, <2>3, <2>4, <2>5, <2>6, <2>7, <2>8, <2>9, <2>10, <2>11,
      <2>12, <2>13, <2>14, <2>15, <2>16 DEF HandlerStep
<1>4. ASSUME NEW h \in Handlers, DatabaseFault(h) PROVE StopBooks'
  BY <1>4 DEF DatabaseFault, Throw, AfterThrow, Goto
<1>5. ASSUME NEW h \in Handlers, Crash(h) PROVE StopBooks'
  BY <1>5 DEF Crash, Release
<1>6. ASSUME NEW h \in Handlers, NEW e \in Execs, Pickup(h, e) PROVE StopBooks'
  BY <1>6 DEF Pickup
<1>7. CASE UNCHANGED vars
  BY <1>7 DEF vars
<1> HIDE DEF StopBooks, StaysStopped, EngineEmpty, Engaged, OwnerInv, OnlyTheOwner, AuthBooks,
    TypeOK, DbType, ApiType, QueueType, HandlerType, HistoryType, Bookkeeping, JobBooks,
    HandlerBooks, RowStages, RowExists, dbVars, apiVars, queueVars, historyVars
<1> QED BY <1>1, <1>2, <1>3, <1>4, <1>5, <1>6, <1>7 DEF Next

\* Between a stop that was written over an active status and the end of the handler's
\* pass, the row stays canceled unless the handler had already read it.
THEOREM StopInvariant == Spec => []StopInv
<1>1. Init => StopInv
  BY ConstantsAssumption DEF Init, StopInv, OwnerInv, OnlyTheOwner, UnqueuedIsUntouched,
     CompletedIsReturning, AuthBooks, StopBooks
<1>2. TypeOK /\ Bookkeeping /\ RowStages /\ StopInv /\ [Next]_vars => StopInv'
  BY OwnerStep, AuthStep, StopStep DEF StopInv
<1> QED BY <1>1, <1>2, TypeCorrect, RowStagesInvariant, PTL DEF Spec

\* A handler that passes its check of the status works on an execution without a stop
\* that was written in time, or on one the exceptions are about.
LEMMA ObeyStep ==
    ASSUME TypeOK, Bookkeeping, StopBooks, [Next]_vars, NEW g \in Handlers,
           pc[g] = "stepStart", pc'[g] = "runNode", heldStop[exec[g]]
    PROVE  stalled[exec[g]] > 0 \/ "fault" \in mishaps[exec[g]]
<1>1. exec[g] \in Execs /\ pc[g] \in Engaged /\ pc[g] # "ack"
  BY DEF Bookkeeping, HandlerBooks, Engaged
<1>2. stalled[exec[g]] = 0 /\ "fault" \notin mishaps[exec[g]]
        => row[exec[g]] \in {"none", "canceled"}
  BY <1>1 DEF StopBooks, StaysStopped, EngineEmpty
<1>3. StepStart(g)
  <2> USE DEF TypeOK, HandlerType
  <2>1. ASSUME NEW e \in Execs, Api(e) \/ Stall(e) PROVE FALSE
    <3>1. UNCHANGED pc
      BY <2>1 DEF Api, TriggerInsert, TriggerAuthorize, TriggerEnqueue, TriggerFail, Expire,
         StopRead, StopWrite, DeleteWorkflow, SweepSteps, SweepRow, Stall
    <3> QED BY <3>1
  <2>2. ASSUME NEW h \in Handlers, HandlerStep(h) PROVE StepStart(g)
    <3>1. CASE ReadStatus(h) \/ MarkRunning(h) \/ Authorize(h) \/ LoadWorkflow(h) \/ RejectGraph(h)
      BY <3>1 DEF ReadStatus, MarkRunning, Authorize, LoadWorkflow, RejectGraph, NextPoint, Goto
    <3>2. CASE StepStart(h)
      BY <3>2 DEF StepStart, Goto
    <3>3. CASE RunNode(h) \/ SkipNode(h) \/ RecordStep(h) \/ SkipRest(h)
      BY <3>3 DEF RunNode, SkipNode, RecordStep, SkipRest, NextPoint, Goto
    <3>4. CASE Finish(h) \/ FailWrite(h) \/ CancelWrite(h)
      BY <3>4 DEF Finish, FailWrite, CancelWrite, Goto
    <3>5. CASE MissingRow(h) \/ Ack(h) \/ Nack(h)
      BY <3>5 DEF MissingRow, Throw, AfterThrow, Ack, Nack, Release, Goto
    <3> QED BY <2>2, <3>1, <3>2, <3>3, <3>4, <3>5 DEF HandlerStep
  <2>3. ASSUME NEW h \in Handlers, DatabaseFault(h) \/ Crash(h) PROVE FALSE
    BY <2>3 DEF DatabaseFault, Throw, AfterThrow, Crash, Release, Goto
  <2>4. ASSUME NEW h \in Handlers, NEW e \in Execs, Pickup(h, e) PROVE FALSE
    BY <2>4 DEF Pickup
  <2>5. CASE UNCHANGED vars
    BY <2>5 DEF vars
  <2> QED BY <2>1, <2>2, <2>3, <2>4, <2>5 DEF Next
<1>4. row[exec[g]] \notin {"none", "canceled"}
  BY <1>3 DEF StepStart, Goto, TypeOK, HandlerType
<1> QED BY <1>1, <1>2, <1>4 DEF TypeOK, QueueType

\* A stop that was written while no handler was about to overwrite it is obeyed,
\* unless a lock expires or a database call throws.
THEOREM HeldStopIsObeyedHolds == Spec => HeldStopIsObeyed
<1>1. TypeOK /\ Bookkeeping /\ StopInv /\ [Next]_vars
        => [\A h \in Handlers :
               LET e == exec[h] IN
               pc[h] = "stepStart" /\ pc'[h] = "runNode" /\ heldStop[e]
                   => stalled[e] > 0 \/ "fault" \in mishaps[e]]_vars
  BY ObeyStep DEF StopInv
<1> QED BY <1>1, TypeCorrect, StopInvariant, PTL DEF Spec, HeldStopIsObeyed

(***************************************************************************)
(* An execution at rest is settled.                                        *)
(***************************************************************************)
\* Nothing that went wrong is forgotten.
LEMMA MishapsStay ==
    ASSUME TypeOK, [Next]_vars, NEW x \in Execs
    PROVE  mishaps[x] \subseteq mishaps'[x]
<1>1. ASSUME NEW e \in Execs, Api(e) PROVE mishaps'[x] = mishaps[x]
  BY <1>1 DEF Api, TriggerInsert, TriggerAuthorize, TriggerEnqueue, TriggerFail, Expire,
     StopRead, StopWrite, DeleteWorkflow, SweepSteps, SweepRow, historyVars
<1>2. ASSUME NEW e \in Execs, Stall(e) PROVE mishaps[x] \subseteq mishaps'[x]
  BY <1>2 DEF Stall, TypeOK, HistoryType
<1>3. ASSUME NEW h \in Handlers, HandlerStep(h) PROVE mishaps'[x] = mishaps[x]
  BY <1>3 DEF HandlerStep, ReadStatus, MarkRunning, Authorize, LoadWorkflow, RejectGraph,
     StepStart, RunNode, SkipNode, RecordStep, SkipRest, Finish, FailWrite, CancelWrite,
     MissingRow, Ack, Nack, historyVars
<1>4. ASSUME NEW h \in Handlers, DatabaseFault(h) \/ Crash(h)
      PROVE  mishaps[x] \subseteq mishaps'[x]
  BY <1>4 DEF DatabaseFault, Crash, TypeOK, HistoryType
<1>5. ASSUME NEW h \in Handlers, NEW e \in Execs, Pickup(h, e) PROVE mishaps'[x] = mishaps[x]
  BY <1>5 DEF Pickup, historyVars
<1>6. CASE UNCHANGED vars
  BY <1>6 DEF vars, historyVars
<1> QED BY <1>1, <1>2, <1>3, <1>4, <1>5, <1>6 DEF Next

\* A handler before its last write stays before it, or writes, or throws, or is gone
\* and leaves its lock to expire.
LEMMA WriterStep ==
    ASSUME TypeOK, Bookkeeping, [Next]_vars, NEW x \in Execs, NEW g \in Handlers,
           WillWrite(g, x), row'[x] \in Active, ~Unrepaired(x)'
    PROVE  WillWrite(g, x)' \/ LockedBefore(x)'
<1> USE ConstantsAssumption DEF WillWrite, LockedBefore, Committed, Engaged, Active,
       Unrepaired, TypeOK, DbType, QueueType, HandlerType, HistoryType, Bookkeeping,
       JobBooks, HandlerBooks, dbVars, queueVars, historyVars
<1>1. ASSUME NEW e \in Execs, Api(e) PROVE WillWrite(g, x)' \/ LockedBefore(x)'
  <2>1. CASE TriggerInsert(e)
    BY <2>1 DEF TriggerInsert
  <2>2. CASE TriggerAuthorize(e)
    BY <2>2 DEF TriggerAuthorize
  <2>3. CASE TriggerEnqueue(e)
    BY <2>3 DEF TriggerEnqueue
  <2>4. CASE TriggerFail(e)
    BY <2>4 DEF TriggerFail
  <2>5. CASE Expire(e)
    BY <2>5 DEF Expire
  <2>6. CASE StopRead(e)
    BY <2>6 DEF StopRead
  <2>7. CASE StopWrite(e)
    BY <2>7 DEF StopWrite, Update
  <2>8. CASE DeleteWorkflow(e)
    BY <2>8 DEF DeleteWorkflow
  <2>9. CASE SweepSteps(e)
    BY <2>9 DEF SweepSteps
  <2>10. CASE SweepRow(e)
    BY <2>10 DEF SweepRow
  <2> QED BY <1>1, <2>1, <2>2, <2>3, <2>4, <2>5, <2>6, <2>7, <2>8, <2>9, <2>10 DEF Api
<1>2. ASSUME NEW e \in Execs, Stall(e) PROVE WillWrite(g, x)' \/ LockedBefore(x)'
  BY <1>2 DEF Stall
<1>3. ASSUME NEW h \in Handlers, HandlerStep(h) PROVE WillWrite(g, x)' \/ LockedBefore(x)'
  <2>1. CASE ReadStatus(h)
    BY <2>1 DEF ReadStatus, Goto
  <2>2. CASE MarkRunning(h)
    BY <2>2 DEF MarkRunning, Goto, Update
  <2>3. CASE Authorize(h)
    BY <2>3 DEF Authorize, Goto
  <2>4. CASE LoadWorkflow(h)
    BY <2>4 DEF LoadWorkflow, Goto, NextPoint
  <2>5. CASE RejectGraph(h)
    BY <2>5 DEF RejectGraph, Goto
  <2>6. CASE StepStart(h)
    BY <2>6 DEF StepStart, Goto
  <2>7. CASE RunNode(h)
    BY <2>7 DEF RunNode, Goto
  <2>8. CASE SkipNode(h)
    BY <2>8 DEF SkipNode, Goto
  <2>9. CASE RecordStep(h)
    BY <2>9 DEF RecordStep, Goto, NextPoint
  <2>10. CASE SkipRest(h)
    BY <2>10 DEF SkipRest, Goto
  <2>11. CASE Finish(h)
    BY <2>11 DEF Finish, Goto, Update
  <2>12. CASE FailWrite(h)
    BY <2>12 DEF FailWrite, Goto, Update
  <2>13. CASE CancelWrite(h)
    BY <2>13 DEF CancelWrite, Goto, Update
  <2>14. CASE MissingRow(h)
    BY <2>14 DEF MissingRow, Throw, AfterThrow, Goto
  <2>15. CASE Ack(h)
    BY <2>15 DEF Ack, Release
  <2>16. CASE Nack(h)
    BY <2>16 DEF Nack, Release
  <2> QED BY <1>3, <2>1, <2>2, <2>3, <2>4, <2>5, <2>6, <2>7, <2>8, <2>9, <2>10, <2>11,
      <2>12, <2>13, <2>14, <2>15, <2>16 DEF HandlerStep
<1>4. ASSUME NEW h \in Handlers, DatabaseFault(h) PROVE WillWrite(g, x)' \/ LockedBefore(x)'
  BY <1>4 DEF DatabaseFault, Throw, AfterThrow, Goto
<1>5. ASSUME NEW h \in Handlers, Crash(h) PROVE WillWrite(g, x)' \/ LockedBefore(x)'
  <2>1. CASE h = g /\ owner[x] = g
    <3>1. job'[x] = "active" /\ owner'[x] = g /\ exec'[g] = None
      BY <1>5, <2>1 DEF Crash, Release
    <3> QED BY <3>1
  <2>2. CASE h = g /\ owner[x] # g
    BY <1>5, <2>2 DEF Crash, Release
  <2>3. CASE h # g
    BY <1>5, <2>3 DEF Crash, Release
  <2> QED BY <2>1, <2>2, <2>3
<1>6. ASSUME NEW h \in Handlers, NEW e \in Execs, Pickup(h, e) PROVE WillWrite(g, x)' \/ LockedBefore(x)'
  BY <1>6 DEF Pickup
<1>7. CASE UNCHANGED vars
  BY <1>7 DEF vars
<1> HIDE DEF WillWrite, LockedBefore, Committed, Engaged, Active, Unrepaired, TypeOK, DbType,
    QueueType, HandlerType, HistoryType, Bookkeeping, JobBooks, HandlerBooks, dbVars,
    queueVars, historyVars
<1> QED BY <1>1, <1>2, <1>3, <1>4, <1>5, <1>6, <1>7 DEF Next

\* The holder of a lock that has not written yet stays before its first write, makes
\* it, or loses the lock.
LEMMA HolderStep ==
    ASSUME TypeOK, Bookkeeping, Watched, [Next]_vars, NEW x \in Execs,
           LockedBefore(x), row'[x] \in Active, ~Unrepaired(x)'
    PROVE  LockedBefore(x)' \/ job'[x] = "waiting" \/ \E g \in Handlers : WillWrite(g, x)'
<1> DEFINE HolderGoal(y) ==
         LockedBefore(y)' \/ job'[y] = "waiting" \/ \E g \in Handlers : WillWrite(g, y)'
<1>o. owner[x] \in Handlers
  BY DEF LockedBefore, Watched, TypeOK, QueueType
<1> USE ConstantsAssumption, <1>o DEF WillWrite, LockedBefore, Committed, Engaged, Active,
       Unrepaired, TypeOK, DbType, QueueType, HandlerType, HistoryType, Bookkeeping,
       JobBooks, HandlerBooks, dbVars, queueVars, historyVars
<1>1. ASSUME NEW e \in Execs, Api(e) PROVE HolderGoal(x)
  <2>1. CASE TriggerInsert(e)
    BY <2>1 DEF TriggerInsert
  <2>2. CASE TriggerAuthorize(e)
    BY <2>2 DEF TriggerAuthorize
  <2>3. CASE TriggerEnqueue(e)
    BY <2>3 DEF TriggerEnqueue
  <2>4. CASE TriggerFail(e)
    BY <2>4 DEF TriggerFail
  <2>5. CASE Expire(e)
    BY <2>5 DEF Expire
  <2>6. CASE StopRead(e)
    BY <2>6 DEF StopRead
  <2>7. CASE StopWrite(e)
    BY <2>7 DEF StopWrite, Update
  <2>8. CASE DeleteWorkflow(e)
    BY <2>8 DEF DeleteWorkflow
  <2>9. CASE SweepSteps(e)
    BY <2>9 DEF SweepSteps
  <2>10. CASE SweepRow(e)
    BY <2>10 DEF SweepRow
  <2> QED BY <1>1, <2>1, <2>2, <2>3, <2>4, <2>5, <2>6, <2>7, <2>8, <2>9, <2>10 DEF Api
<1>2. ASSUME NEW e \in Execs, Stall(e) PROVE HolderGoal(x)
  BY <1>2 DEF Stall
<1>3. ASSUME NEW h \in Handlers, HandlerStep(h) PROVE HolderGoal(x)
  <2>1. CASE ReadStatus(h)
    BY <2>1 DEF ReadStatus, Goto
  <2>2. CASE MarkRunning(h)
    BY <2>2 DEF MarkRunning, Goto, Update
  <2>3. CASE Authorize(h)
    BY <2>3 DEF Authorize, Goto
  <2>4. CASE LoadWorkflow(h)
    BY <2>4 DEF LoadWorkflow, Goto, NextPoint
  <2>5. CASE RejectGraph(h)
    BY <2>5 DEF RejectGraph, Goto
  <2>6. CASE StepStart(h)
    BY <2>6 DEF StepStart, Goto
  <2>7. CASE RunNode(h)
    BY <2>7 DEF RunNode, Goto
  <2>8. CASE SkipNode(h)
    BY <2>8 DEF SkipNode, Goto
  <2>9. CASE RecordStep(h)
    BY <2>9 DEF RecordStep, Goto, NextPoint
  <2>10. CASE SkipRest(h)
    BY <2>10 DEF SkipRest, Goto
  <2>11. CASE Finish(h)
    BY <2>11 DEF Finish, Goto, Update
  <2>12. CASE FailWrite(h)
    BY <2>12 DEF FailWrite, Goto, Update
  <2>13. CASE CancelWrite(h)
    BY <2>13 DEF CancelWrite, Goto, Update
  <2>14. CASE MissingRow(h)
    BY <2>14 DEF MissingRow, Throw, AfterThrow, Goto
  <2>15. CASE Ack(h)
    <3>1. CASE exec[h] = x
      BY <2>15, <3>1 DEF Ack, Release
    <3>2. CASE exec[h] # x
      <4>1. /\ job'[x] = "active" /\ owner'[x] = owner[x]
            /\ \A g \in Handlers : g # h => exec'[g] = exec[g] /\ pc'[g] = pc[g]
            /\ exec'[h] = None
        BY <2>15, <3>2 DEF Ack, Release
      <4> QED BY <4>1
    <3> QED BY <3>1, <3>2
  <2>16. CASE Nack(h)
    <3>1. CASE exec[h] = x
      BY <2>16, <3>1 DEF Nack, Release
    <3>2. CASE exec[h] # x
      <4>1. /\ job'[x] = "active" /\ owner'[x] = owner[x]
            /\ \A g \in Handlers : g # h => exec'[g] = exec[g] /\ pc'[g] = pc[g]
            /\ exec'[h] = None
        BY <2>16, <3>2 DEF Nack, Release
      <4> QED BY <4>1
    <3> QED BY <3>1, <3>2
  <2> QED BY <1>3, <2>1, <2>2, <2>3, <2>4, <2>5, <2>6, <2>7, <2>8, <2>9, <2>10, <2>11,
      <2>12, <2>13, <2>14, <2>15, <2>16 DEF HandlerStep
<1>4. ASSUME NEW h \in Handlers, DatabaseFault(h) PROVE HolderGoal(x)
  <2>1. ASSUME exec[h] = x PROVE FALSE
    <3>1. "fault" \in mishaps'[x]
      BY <1>4, <2>1 DEF DatabaseFault
    <3> QED BY <3>1
  <2>2. /\ UNCHANGED <<job, owner, exec, row>>
        /\ \A g \in Handlers : g # h => pc'[g] = pc[g]
    BY <1>4 DEF DatabaseFault, Throw, AfterThrow, Goto
  <2> QED BY <2>1, <2>2
<1>5. ASSUME NEW h \in Handlers, Crash(h) PROVE HolderGoal(x)
  BY <1>5 DEF Crash, Release
<1>6. ASSUME NEW h \in Handlers, NEW e \in Execs, Pickup(h, e) PROVE HolderGoal(x)
  BY <1>6 DEF Pickup
<1>7. CASE UNCHANGED vars
  BY <1>7 DEF vars
<1> HIDE DEF WillWrite, LockedBefore, Committed, Engaged, Active, Unrepaired, TypeOK, DbType,
    QueueType, HandlerType, HistoryType, Bookkeeping, JobBooks, HandlerBooks, dbVars,
    queueVars, historyVars
<1> QED BY <1>1, <1>2, <1>3, <1>4, <1>5, <1>6, <1>7 DEF Next

\* A job that is to come or waits is put in the queue or locked.
LEMMA WaitStep ==
    ASSUME TypeOK, Bookkeeping, [Next]_vars, NEW x \in Execs,
           job[x] = "none" \/ job[x] = "waiting"
    PROVE  job'[x] = "none" \/ job'[x] = "waiting" \/ LockedBefore(x)'
<1> USE ConstantsAssumption DEF LockedBefore, TypeOK, ApiType, QueueType, HandlerType,
       Bookkeeping, JobBooks, HandlerBooks, apiVars, queueVars
<1> DEFINE Allowed == job'[x] = "none" \/ job'[x] = "waiting" \/ LockedBefore(x)'
<1>1. ASSUME NEW e \in Execs, Api(e) PROVE Allowed
  <2>1. CASE TriggerInsert(e)
    BY <2>1 DEF TriggerInsert
  <2>2. CASE TriggerAuthorize(e)
    BY <2>2 DEF TriggerAuthorize
  <2>3. CASE TriggerEnqueue(e)
    BY <2>3 DEF TriggerEnqueue
  <2>4. CASE TriggerFail(e)
    BY <2>4 DEF TriggerFail
  <2>5. CASE Expire(e)
    BY <2>5 DEF Expire
  <2>6. CASE StopRead(e)
    BY <2>6 DEF StopRead
  <2>7. CASE StopWrite(e)
    BY <2>7 DEF StopWrite, Update
  <2>8. CASE DeleteWorkflow(e)
    BY <2>8 DEF DeleteWorkflow
  <2>9. CASE SweepSteps(e)
    BY <2>9 DEF SweepSteps
  <2>10. CASE SweepRow(e)
    BY <2>10 DEF SweepRow
  <2> QED BY <1>1, <2>1, <2>2, <2>3, <2>4, <2>5, <2>6, <2>7, <2>8, <2>9, <2>10 DEF Api
<1>2. ASSUME NEW e \in Execs, Stall(e) PROVE Allowed
  BY <1>2 DEF Stall
<1>3. ASSUME NEW h \in Handlers, HandlerStep(h) PROVE Allowed
  <2>1. CASE ReadStatus(h)
    BY <2>1 DEF ReadStatus, Goto
  <2>2. CASE MarkRunning(h)
    BY <2>2 DEF MarkRunning, Goto, Update
  <2>3. CASE Authorize(h)
    BY <2>3 DEF Authorize, Goto
  <2>4. CASE LoadWorkflow(h)
    BY <2>4 DEF LoadWorkflow, Goto, NextPoint
  <2>5. CASE RejectGraph(h)
    BY <2>5 DEF RejectGraph, Goto
  <2>6. CASE StepStart(h)
    BY <2>6 DEF StepStart, Goto
  <2>7. CASE RunNode(h)
    BY <2>7 DEF RunNode, Goto
  <2>8. CASE SkipNode(h)
    BY <2>8 DEF SkipNode, Goto
  <2>9. CASE RecordStep(h)
    BY <2>9 DEF RecordStep, Goto, NextPoint
  <2>10. CASE SkipRest(h)
    BY <2>10 DEF SkipRest, Goto
  <2>11. CASE Finish(h)
    BY <2>11 DEF Finish, Goto, Update
  <2>12. CASE FailWrite(h)
    BY <2>12 DEF FailWrite, Goto, Update
  <2>13. CASE CancelWrite(h)
    BY <2>13 DEF CancelWrite, Goto, Update
  <2>14. CASE MissingRow(h)
    BY <2>14 DEF MissingRow, Throw, AfterThrow, Goto
  <2>15. CASE Ack(h)
    BY <2>15 DEF Ack, Release
  <2>16. CASE Nack(h)
    BY <2>16 DEF Nack, Release
  <2> QED BY <1>3, <2>1, <2>2, <2>3, <2>4, <2>5, <2>6, <2>7, <2>8, <2>9, <2>10, <2>11,
      <2>12, <2>13, <2>14, <2>15, <2>16 DEF HandlerStep
<1>4. ASSUME NEW h \in Handlers, DatabaseFault(h) PROVE Allowed
  BY <1>4 DEF DatabaseFault, Throw, AfterThrow, Goto
<1>5. ASSUME NEW h \in Handlers, Crash(h) PROVE Allowed
  BY <1>5 DEF Crash, Release
<1>6. ASSUME NEW h \in Handlers, NEW e \in Execs, Pickup(h, e) PROVE Allowed
  BY <1>6 DEF Pickup
<1>7. CASE UNCHANGED vars
  BY <1>7 DEF vars
<1> HIDE DEF LockedBefore, TypeOK, ApiType, QueueType, HandlerType, Bookkeeping, JobBooks,
    HandlerBooks, apiVars, queueVars
<1> QED BY <1>1, <1>2, <1>3, <1>4, <1>5, <1>6, <1>7 DEF Next

\* Only the trigger and a handler's write of "running" make a row active.
LEMMA WakeStep ==
    ASSUME TypeOK, Bookkeeping, [Next]_vars, NEW x \in Execs,
           row[x] \notin Active, row'[x] \in Active
    PROVE  job'[x] = "none" \/ \E h \in Handlers : WillWrite(h, x)'
<1> USE ConstantsAssumption DEF Active, WillWrite, Committed, TypeOK, DbType, ApiType,
       QueueType, HandlerType, Bookkeeping, JobBooks, HandlerBooks, dbVars, apiVars, queueVars
<1> DEFINE Announced == job'[x] = "none" \/ \E g \in Handlers : WillWrite(g, x)'
<1>1. ASSUME NEW e \in Execs, Api(e) PROVE Announced
  <2>1. CASE TriggerInsert(e)
    BY <2>1 DEF TriggerInsert
  <2>2. CASE TriggerAuthorize(e)
    BY <2>2 DEF TriggerAuthorize
  <2>3. CASE TriggerEnqueue(e)
    BY <2>3 DEF TriggerEnqueue
  <2>4. CASE TriggerFail(e)
    BY <2>4 DEF TriggerFail
  <2>5. CASE Expire(e)
    BY <2>5 DEF Expire
  <2>6. CASE StopRead(e)
    BY <2>6 DEF StopRead
  <2>7. CASE StopWrite(e)
    BY <2>7 DEF StopWrite, Update
  <2>8. CASE DeleteWorkflow(e)
    BY <2>8 DEF DeleteWorkflow
  <2>9. CASE SweepSteps(e)
    BY <2>9 DEF SweepSteps
  <2>10. CASE SweepRow(e)
    BY <2>10 DEF SweepRow
  <2> QED BY <1>1, <2>1, <2>2, <2>3, <2>4, <2>5, <2>6, <2>7, <2>8, <2>9, <2>10 DEF Api
<1>2. ASSUME NEW e \in Execs, Stall(e) PROVE Announced
  BY <1>2 DEF Stall
<1>3. ASSUME NEW h \in Handlers, HandlerStep(h) PROVE Announced
  <2>1. CASE ReadStatus(h)
    BY <2>1 DEF ReadStatus, Goto
  <2>2. CASE MarkRunning(h)
    BY <2>2 DEF MarkRunning, Goto, Update
  <2>3. CASE Authorize(h)
    BY <2>3 DEF Authorize, Goto
  <2>4. CASE LoadWorkflow(h)
    BY <2>4 DEF LoadWorkflow, Goto, NextPoint
  <2>5. CASE RejectGraph(h)
    BY <2>5 DEF RejectGraph, Goto
  <2>6. CASE StepStart(h)
    BY <2>6 DEF StepStart, Goto
  <2>7. CASE RunNode(h)
    BY <2>7 DEF RunNode, Goto
  <2>8. CASE SkipNode(h)
    BY <2>8 DEF SkipNode, Goto
  <2>9. CASE RecordStep(h)
    BY <2>9 DEF RecordStep, Goto, NextPoint
  <2>10. CASE SkipRest(h)
    BY <2>10 DEF SkipRest, Goto
  <2>11. CASE Finish(h)
    BY <2>11 DEF Finish, Goto, Update
  <2>12. CASE FailWrite(h)
    BY <2>12 DEF FailWrite, Goto, Update
  <2>13. CASE CancelWrite(h)
    BY <2>13 DEF CancelWrite, Goto, Update
  <2>14. CASE MissingRow(h)
    BY <2>14 DEF MissingRow, Throw, AfterThrow, Goto
  <2>15. CASE Ack(h)
    BY <2>15 DEF Ack, Release
  <2>16. CASE Nack(h)
    BY <2>16 DEF Nack, Release
  <2> QED BY <1>3, <2>1, <2>2, <2>3, <2>4, <2>5, <2>6, <2>7, <2>8, <2>9, <2>10, <2>11,
      <2>12, <2>13, <2>14, <2>15, <2>16 DEF HandlerStep
<1>4. ASSUME NEW h \in Handlers, DatabaseFault(h) PROVE Announced
  BY <1>4 DEF DatabaseFault, Throw, AfterThrow, Goto
<1>5. ASSUME NEW h \in Handlers, Crash(h) PROVE Announced
  BY <1>5 DEF Crash, Release
<1>6. ASSUME NEW h \in Handlers, NEW e \in Execs, Pickup(h, e) PROVE Announced
  BY <1>6 DEF Pickup
<1>7. CASE UNCHANGED vars
  BY <1>7 DEF vars
<1> HIDE DEF Active, WillWrite, Committed, TypeOK, DbType, ApiType, QueueType, HandlerType,
    Bookkeeping, JobBooks, HandlerBooks, dbVars, apiVars, queueVars
<1> QED BY <1>1, <1>2, <1>3, <1>4, <1>5, <1>6, <1>7 DEF Next

LEMMA LockStep ==
    ASSUME TypeOK, Bookkeeping, Watched, [Next]_vars, NEW x \in Execs, job'[x] = "active"
    PROVE  owner'[x] # None
<1> USE ConstantsAssumption DEF Watched, TypeOK, QueueType, Bookkeeping, HandlerBooks,
       queueVars
<1>1. ASSUME NEW e \in Execs, Api(e) PROVE owner'[x] # None
  <2>1. CASE TriggerInsert(e)
    BY <2>1 DEF TriggerInsert
  <2>2. CASE TriggerAuthorize(e)
    BY <2>2 DEF TriggerAuthorize
  <2>3. CASE TriggerEnqueue(e)
    BY <2>3 DEF TriggerEnqueue
  <2>4. CASE TriggerFail(e)
    BY <2>4 DEF TriggerFail
  <2>5. CASE Expire(e)
    BY <2>5 DEF Expire
  <2>6. CASE StopRead(e)
    BY <2>6 DEF StopRead
  <2>7. CASE StopWrite(e)
    BY <2>7 DEF StopWrite, Update
  <2>8. CASE DeleteWorkflow(e)
    BY <2>8 DEF DeleteWorkflow
  <2>9. CASE SweepSteps(e)
    BY <2>9 DEF SweepSteps
  <2>10. CASE SweepRow(e)
    BY <2>10 DEF SweepRow
  <2> QED BY <1>1, <2>1, <2>2, <2>3, <2>4, <2>5, <2>6, <2>7, <2>8, <2>9, <2>10 DEF Api
<1>2. ASSUME NEW e \in Execs, Stall(e) PROVE owner'[x] # None
  BY <1>2 DEF Stall
<1>3. ASSUME NEW h \in Handlers, HandlerStep(h) PROVE owner'[x] # None
  <2>1. CASE ReadStatus(h)
    BY <2>1 DEF ReadStatus, Goto
  <2>2. CASE MarkRunning(h)
    BY <2>2 DEF MarkRunning, Goto, Update
  <2>3. CASE Authorize(h)
    BY <2>3 DEF Authorize, Goto
  <2>4. CASE LoadWorkflow(h)
    BY <2>4 DEF LoadWorkflow, Goto, NextPoint
  <2>5. CASE RejectGraph(h)
    BY <2>5 DEF RejectGraph, Goto
  <2>6. CASE StepStart(h)
    BY <2>6 DEF StepStart, Goto
  <2>7. CASE RunNode(h)
    BY <2>7 DEF RunNode, Goto
  <2>8. CASE SkipNode(h)
    BY <2>8 DEF SkipNode, Goto
  <2>9. CASE RecordStep(h)
    BY <2>9 DEF RecordStep, Goto, NextPoint
  <2>10. CASE SkipRest(h)
    BY <2>10 DEF SkipRest, Goto
  <2>11. CASE Finish(h)
    BY <2>11 DEF Finish, Goto, Update
  <2>12. CASE FailWrite(h)
    BY <2>12 DEF FailWrite, Goto, Update
  <2>13. CASE CancelWrite(h)
    BY <2>13 DEF CancelWrite, Goto, Update
  <2>14. CASE MissingRow(h)
    BY <2>14 DEF MissingRow, Throw, AfterThrow, Goto
  <2>15. CASE Ack(h)
    BY <2>15 DEF Ack, Release
  <2>16. CASE Nack(h)
    BY <2>16 DEF Nack, Release
  <2> QED BY <1>3, <2>1, <2>2, <2>3, <2>4, <2>5, <2>6, <2>7, <2>8, <2>9, <2>10, <2>11,
      <2>12, <2>13, <2>14, <2>15, <2>16 DEF HandlerStep
<1>4. ASSUME NEW h \in Handlers, DatabaseFault(h) PROVE owner'[x] # None
  BY <1>4 DEF DatabaseFault, Throw, AfterThrow, Goto
<1>5. ASSUME NEW h \in Handlers, Crash(h) PROVE owner'[x] # None
  BY <1>5 DEF Crash, Release
<1>6. ASSUME NEW h \in Handlers, NEW e \in Execs, Pickup(h, e) PROVE owner'[x] # None
  BY <1>6 DEF Pickup
<1>7. CASE UNCHANGED vars
  BY <1>7 DEF vars
<1> HIDE DEF Watched, TypeOK, QueueType, Bookkeeping, HandlerBooks, queueVars
<1> QED BY <1>1, <1>2, <1>3, <1>4, <1>5, <1>6, <1>7 DEF Next

\* A row that is still "pending" or "running" keeps somebody who will write it.
LEMMA WatchStep ==
    ASSUME TypeOK, Bookkeeping, Watched, [Next]_vars
    PROVE  Watched'
<1>1. ASSUME NEW x \in Execs, row'[x] \in Active, ~Unrepaired(x)'
      PROVE  IsWatched(x)'
  <2>1. CASE row[x] \notin Active
    BY <1>1, <2>1, WakeStep DEF IsWatched
  <2>2. CASE job[x] \in {"none", "waiting"}
    BY <1>1, <2>2, WaitStep DEF IsWatched
  <2>3. CASE \E g \in Handlers : WillWrite(g, x)
    BY <1>1, <2>3, WriterStep DEF IsWatched
  <2>4. CASE LockedBefore(x)
    <3>1. owner[x] \in Handlers
      BY <2>4 DEF LockedBefore, Watched, TypeOK, QueueType
    <3> QED BY <1>1, <2>4, <3>1, HolderStep DEF IsWatched
  <2>5. mishaps[x] \subseteq mishaps'[x]
    BY MishapsStay
  <2> QED BY <1>1, <2>1, <2>2, <2>3, <2>4, <2>5 DEF Watched, IsWatched, Unrepaired
<1> QED BY <1>1, LockStep DEF Watched

\* When the queue is done with an execution and no handler is on it any more, its row
\* says neither "pending" nor "running".
THEOREM RestIsSettled == Spec => []SettledAtRest
<1>1. Init => Watched
  BY DEF Init, Watched, Active
<1>2. Bookkeeping /\ Watched => SettledAtRest
  BY DEF Bookkeeping, JobBooks, Watched, IsWatched, WillWrite, LockedBefore, SettledAtRest,
     AtRest
<1> QED BY <1>1, <1>2, TypeCorrect, WatchStep, PTL DEF Spec

(***************************************************************************)
(* A node that runs again.                                                 *)
(***************************************************************************)
\* What a step adds to the handlers that may still start a node, at most one, it takes
\* from elsewhere: then the budget holds after it too.
LEMMA BudgetBalance ==
    ASSUME TypeOK, TypeOK', NEW x \in Execs, NEW n \in Nodes, IsBudgeted(x, n),
           NEW more \in {-1, 0, 1},
           more = 0 => Starters(x, n)' \subseteq Starters(x, n),
           more = 1 => \E h \in Handlers : Starters(x, n)' \subseteq (Starters(x, n) \cup {h}),
           more = -1 => \E h \in Starters(x, n) : Starters(x, n)' \subseteq (Starters(x, n) \ {h}),
           started'[x][n] + Deliveries(x)' + more + stalled[x] + faults
               <= started[x][n] + Deliveries(x) + stalled'[x] + faults'
    PROVE  IsBudgeted(x, n)'
<1> DEFINE S == Starters(x, n)
           T == Starters(x, n)'
<1>1. /\ more = 0 => T \subseteq S
      /\ more = 1 => \E h \in Handlers : T \subseteq (S \cup {h})
      /\ more = -1 => \E h \in S : T \subseteq (S \ {h})
      /\ IsFiniteSet(S)
      /\ started[x][n] + Cardinality(S) + Deliveries(x) <= 1 + stalled[x] + faults
  BY DEF IsBudgeted
<1> HIDE DEF S, T
<1>s. Cardinality(S) \in Nat
  BY <1>1, FS_CardinalityType
<1>2. IsFiniteSet(T) /\ Cardinality(T) \in Nat /\ Cardinality(T) <= Cardinality(S) + more
  <2>1. CASE more = 0
    BY <1>1, <1>s, <2>1, FS_Subset, FS_CardinalityType
  <2>2. CASE more = 1
    <3>1. PICK h \in Handlers : T \subseteq (S \cup {h})
      BY <1>1, <2>2
    <3>2. IsFiniteSet(S \cup {h}) /\ Cardinality(S \cup {h}) <= Cardinality(S) + 1
      <4>1. /\ IsFiniteSet(S \cup {h})
            /\ Cardinality(S \cup {h}) = IF h \in S THEN Cardinality(S) ELSE Cardinality(S) + 1
        BY <1>1, FS_AddElement
      <4> QED BY <4>1, <1>s
    <3>3. IsFiniteSet(T) /\ Cardinality(T) <= Cardinality(S \cup {h})
      BY <3>1, <3>2, FS_Subset
    <3>4. Cardinality(T) \in Nat /\ Cardinality(S \cup {h}) \in Nat
      BY <3>2, <3>3, FS_CardinalityType
    <3> QED BY <1>s, <2>2, <3>2, <3>3, <3>4
  <2>3. CASE more = -1
    <3>1. PICK h \in S : T \subseteq (S \ {h})
      BY <1>1, <2>3
    <3>2. IsFiniteSet(S \ {h}) /\ Cardinality(S \ {h}) = Cardinality(S) - 1
      BY <1>1, <3>1, FS_RemoveElement, <1>s
    <3>3. IsFiniteSet(T) /\ Cardinality(T) <= Cardinality(S \ {h})
      BY <3>1, <3>2, FS_Subset
    <3>4. Cardinality(T) \in Nat
      BY <3>3, FS_CardinalityType
    <3> QED BY <1>s, <2>3, <3>2, <3>3, <3>4
  <2> QED BY <2>1, <2>2, <2>3
<1>3. /\ started[x][n] \in Nat /\ started'[x][n] \in Nat
      /\ stalled[x] \in Nat /\ stalled'[x] \in Nat
      /\ faults \in Nat /\ faults' \in Nat
      /\ Deliveries(x) \in Nat /\ Deliveries(x)' \in Nat
  BY ConstantsAssumption DEF TypeOK, QueueType, HistoryType, Deliveries
<1>4. started'[x][n] + Cardinality(T) + Deliveries(x)' <= 1 + stalled'[x] + faults'
  BY <1>1, <1>s, <1>2, <1>3
<1> QED BY <1>2, <1>4 DEF IsBudgeted, T

\* A step of a handler that neither starts a node, nor fails its attempt, nor throws
\* for a fault, brings no handler nearer to a node.
LEMMA QuietStep ==
    ASSUME TypeOK, Bookkeeping, NEW x \in Execs, NEW n \in Nodes, NEW h \in Handlers,
           HandlerStep(h), ~RunNode(h), ~Nack(h)
    PROVE  /\ Starters(x, n)' \subseteq Starters(x, n)
           /\ UNCHANGED <<started, stalled, faults>>
           /\ Deliveries(x)' <= Deliveries(x)
<1> USE ConstantsAssumption DEF Starters, MayStart, Deliveries, TypeOK, QueueType,
       HandlerType, HistoryType, Nodes, Bookkeeping, JobBooks, HandlerBooks, Cursors,
       queueVars, historyVars, passVars
<1>1. CASE ReadStatus(h)
  BY <1>1 DEF ReadStatus, Goto
<1>2. CASE MarkRunning(h)
  BY <1>2 DEF MarkRunning, Goto, Update
<1>3. CASE Authorize(h)
  BY <1>3 DEF Authorize, Goto
<1>4. CASE LoadWorkflow(h)
  BY <1>4 DEF LoadWorkflow, Goto, NextPoint
<1>5. CASE RejectGraph(h)
  BY <1>5 DEF RejectGraph, Goto
<1>6. CASE StepStart(h)
  BY <1>6 DEF StepStart, Goto
<1>7. CASE SkipNode(h)
  BY <1>7 DEF SkipNode, Goto
<1>8. CASE RecordStep(h)
  BY <1>8 DEF RecordStep, Goto, NextPoint
<1>9. CASE SkipRest(h)
  <2>1. /\ pc[h] = "skipRest" /\ pc'[h] \in {"skipRest", "finish"}
        /\ \A g \in Handlers : g # h => pc'[g] = pc[g] /\ cursor'[g] = cursor[g]
        /\ UNCHANGED <<exec, job, started, stalled, faults>>
    BY <1>9 DEF SkipRest, Goto
  <2> QED BY <2>1
<1>10. CASE Finish(h)
  BY <1>10 DEF Finish, Goto, Update
<1>11. CASE FailWrite(h)
  BY <1>11 DEF FailWrite, Goto, Update
<1>12. CASE CancelWrite(h)
  BY <1>12 DEF CancelWrite, Goto, Update
<1>13. CASE MissingRow(h)
  BY <1>13 DEF MissingRow, Throw, AfterThrow, Goto
<1>14. CASE Ack(h)
  BY <1>14 DEF Ack, Release
<1> QED BY <1>1, <1>2, <1>3, <1>4, <1>5, <1>6, <1>7, <1>8, <1>9, <1>10,
      <1>11, <1>12, <1>13, <1>14 DEF HandlerStep

\* Every start of a node and every chance of another one has its cause.
LEMMA BudgetStep ==
    ASSUME TypeOK, Bookkeeping, StartsAreBudgeted, [Next]_vars
    PROVE  StartsAreBudgeted'
<1> SUFFICES ASSUME NEW x \in Execs, NEW n \in Nodes PROVE IsBudgeted(x, n)'
  BY DEF StartsAreBudgeted
<1> USE ConstantsAssumption
<1>t. TypeOK'
  BY TypeStep
<1>b. /\ IsBudgeted(x, n)
      /\ started[x][n] \in Nat /\ stalled[x] \in Nat /\ faults \in Nat
      /\ Deliveries(x) \in Nat /\ n \in Nat \ {0}
  BY DEF StartsAreBudgeted, TypeOK, QueueType, HistoryType, Deliveries, Nodes
<1>1. ASSUME NEW e \in Execs, Api(e) PROVE IsBudgeted(x, n)'
  <2>1. UNCHANGED <<pc, exec, cursor, started, stalled, faults>>
    BY <1>1 DEF Api, TriggerInsert, TriggerAuthorize, TriggerEnqueue, TriggerFail, Expire,
       StopRead, StopWrite, DeleteWorkflow, SweepSteps, SweepRow, queueVars, passVars, historyVars
  <2>2. Starters(x, n)' = Starters(x, n)
    BY <2>1 DEF Starters, MayStart
  <2>3. Deliveries(x)' = Deliveries(x)
    BY <1>1 DEF Api, TriggerInsert, TriggerAuthorize, TriggerEnqueue, TriggerFail, Expire,
       StopRead, StopWrite, DeleteWorkflow, SweepSteps, SweepRow, queueVars, Deliveries,
       TypeOK, QueueType, Bookkeeping, JobBooks
  <2> QED BY <1>t, <1>b, <2>1, <2>2, <2>3, BudgetBalance
<1>2. ASSUME NEW e \in Execs, Stall(e) PROVE IsBudgeted(x, n)'
  <2>1. UNCHANGED <<pc, exec, cursor, started, faults>>
    BY <1>2 DEF Stall, passVars
  <2>2. Starters(x, n)' = Starters(x, n)
    BY <2>1 DEF Starters, MayStart
  <2>3. Deliveries(x)' + stalled[x] <= Deliveries(x) + stalled'[x] /\ stalled'[x] \in Nat
    BY <1>2 DEF Stall, Deliveries, TypeOK, QueueType
  <2>4. Deliveries(x)' \in Nat
    BY DEF Deliveries
  <2> QED BY <1>t, <1>b, <2>1, <2>2, <2>3, <2>4, BudgetBalance
<1>3. ASSUME NEW h \in Handlers, HandlerStep(h), ~RunNode(h), ~Nack(h)
      PROVE  IsBudgeted(x, n)'
  <2>1. Deliveries(x)' \in Nat
    BY DEF Deliveries
  <2> QED BY <1>t, <1>b, <1>3, <2>1, QuietStep, BudgetBalance
<1>4. ASSUME NEW h \in Handlers, RunNode(h) PROVE IsBudgeted(x, n)'
  <2>1. /\ exec[h] \in Execs /\ cursor[h] + 1 \in Nodes /\ pc[h] = "runNode"
        /\ pc' = [pc EXCEPT ![h] = "record"]
        /\ started' = [started EXCEPT ![exec[h]][cursor[h] + 1] = @ + 1]
        /\ UNCHANGED <<exec, cursor, job, stalled, faults>>
    BY <1>4 DEF RunNode, Goto, Bookkeeping, HandlerBooks, Cursors, TypeOK, HandlerType,
       Nodes, queueVars
  <2>2. Deliveries(x)' = Deliveries(x)
    BY <2>1 DEF Deliveries
  <2>3. CASE exec[h] = x /\ cursor[h] + 1 = n
    <3>1. h \in Starters(x, n) /\ Starters(x, n)' \subseteq (Starters(x, n) \ {h})
      BY <1>b, <2>1, <2>3 DEF Starters, MayStart, TypeOK, HandlerType
    <3>2. started'[x][n] = started[x][n] + 1
      BY <2>1, <2>3 DEF TypeOK, HistoryType
    <3> QED BY <1>t, <1>b, <2>1, <2>2, <3>1, <3>2, BudgetBalance
  <2>4. CASE ~(exec[h] = x /\ cursor[h] + 1 = n)
    <3>1. Starters(x, n)' \subseteq Starters(x, n)
      BY <1>b, <2>1, <2>4 DEF Starters, MayStart, TypeOK, HandlerType
    <3>2. started'[x][n] = started[x][n]
      BY <2>1, <2>4 DEF TypeOK, HistoryType
    <3> QED BY <1>t, <1>b, <2>1, <2>2, <3>1, <3>2, BudgetBalance
  <2> QED BY <2>3, <2>4
<1>5. ASSUME NEW h \in Handlers, Nack(h) PROVE IsBudgeted(x, n)'
  <2>1. /\ exec[h] \in Execs /\ pc[h] = "nack"
        /\ pc' = [pc EXCEPT ![h] = "idle"] /\ exec' = [exec EXCEPT ![h] = None]
        /\ cursor' = [cursor EXCEPT ![h] = 0]
        /\ \A e \in Execs : e # exec[h] => job'[e] = job[e]
        /\ UNCHANGED <<started, stalled, faults>>
    BY <1>5 DEF Nack, Release, Bookkeeping, HandlerBooks, TypeOK, QueueType, historyVars
  <2>2. CASE exec[h] = x
    <3>1. h \in Starters(x, n) /\ Starters(x, n)' \subseteq (Starters(x, n) \ {h})
      BY <2>1, <2>2 DEF Starters, MayStart, TypeOK, HandlerType
    <3>2. Deliveries(x)' - 1 <= Deliveries(x) /\ Deliveries(x)' \in Nat
      BY DEF Deliveries
    <3> QED BY <1>t, <1>b, <2>1, <3>1, <3>2, BudgetBalance
  <2>3. CASE exec[h] # x
    <3>1. Starters(x, n)' \subseteq Starters(x, n)
      BY <2>1, <2>3 DEF Starters, MayStart, TypeOK, HandlerType
    <3>2. Deliveries(x)' = Deliveries(x)
      BY <2>1, <2>3 DEF Deliveries
    <3> QED BY <1>t, <1>b, <2>1, <3>1, <3>2, BudgetBalance
  <2> QED BY <2>2, <2>3
<1>6. ASSUME NEW h \in Handlers, DatabaseFault(h) PROVE IsBudgeted(x, n)'
  <2>1. /\ pc' = [pc EXCEPT ![h] = AfterThrow(h)] /\ faults' = faults + 1
        /\ UNCHANGED <<exec, cursor, job, started, stalled>>
    BY <1>6 DEF DatabaseFault, Throw, Goto, queueVars
  <2>2. Starters(x, n)' \subseteq (Starters(x, n) \cup {h})
    BY <2>1 DEF Starters, MayStart, TypeOK, HandlerType
  <2>3. Deliveries(x)' = Deliveries(x)
    BY <2>1 DEF Deliveries
  <2> QED BY <1>t, <1>b, <2>1, <2>2, <2>3, BudgetBalance
<1>7. ASSUME NEW h \in Handlers, Crash(h) PROVE IsBudgeted(x, n)'
  <2>1. /\ exec[h] \in Execs
        /\ pc' = [pc EXCEPT ![h] = "idle"] /\ exec' = [exec EXCEPT ![h] = None]
        /\ cursor' = [cursor EXCEPT ![h] = 0]
        /\ UNCHANGED <<job, started, stalled, faults>>
    BY <1>7 DEF Crash, Release, Bookkeeping, HandlerBooks, queueVars
  <2>2. Starters(x, n)' \subseteq Starters(x, n)
    BY <2>1 DEF Starters, MayStart, TypeOK, HandlerType
  <2>3. Deliveries(x)' = Deliveries(x)
    BY <2>1 DEF Deliveries
  <2> QED BY <1>t, <1>b, <2>1, <2>2, <2>3, BudgetBalance
<1>8. ASSUME NEW h \in Handlers, NEW e \in Execs, Pickup(h, e) PROVE IsBudgeted(x, n)'
  <2>1. /\ job[e] = "waiting" /\ job' = [job EXCEPT ![e] = "active"]
        /\ pc' = [pc EXCEPT ![h] = "read"] /\ exec' = [exec EXCEPT ![h] = e]
        /\ UNCHANGED <<cursor, started, stalled, faults>>
    BY <1>8 DEF Pickup, passVars, historyVars
  <2>2. CASE e = x
    <3>1. Starters(x, n)' \subseteq (Starters(x, n) \cup {h})
      BY <2>1, <2>2 DEF Starters, MayStart, TypeOK, HandlerType
    <3>2. Deliveries(x)' = 0 /\ Deliveries(x) = 1
      BY <2>1, <2>2 DEF Deliveries, TypeOK, QueueType
    <3> QED BY <1>t, <1>b, <2>1, <3>1, <3>2, BudgetBalance
  <2>3. CASE e # x
    <3>1. Starters(x, n)' \subseteq Starters(x, n)
      BY <2>1, <2>3 DEF Starters, MayStart, TypeOK, HandlerType
    <3>2. Deliveries(x)' = Deliveries(x)
      BY <2>1, <2>3 DEF Deliveries, TypeOK, QueueType
    <3> QED BY <1>t, <1>b, <2>1, <3>1, <3>2, BudgetBalance
  <2> QED BY <2>2, <2>3
<1>9. CASE UNCHANGED vars
  <2>1. UNCHANGED <<pc, exec, cursor, job, started, stalled, faults>>
    BY <1>9 DEF vars, queueVars, passVars, historyVars
  <2>2. Starters(x, n)' = Starters(x, n) /\ Deliveries(x)' = Deliveries(x)
    BY <2>1 DEF Starters, MayStart, Deliveries
  <2> QED BY <1>t, <1>b, <2>1, <2>2, BudgetBalance
<1> QED BY <1>1, <1>2, <1>3, <1>4, <1>5, <1>6, <1>7, <1>8, <1>9 DEF Next

\* A node is started once, and once more only for a lock that expired or a database
\* call that threw, for any number of handlers, attempts and executions.
THEOREM RerunsHaveACauseHolds == Spec => []RerunsHaveACause
<1>1. Init => StartsAreBudgeted
  <2> SUFFICES ASSUME Init, NEW x \in Execs, NEW n \in Nodes PROVE IsBudgeted(x, n)
    BY DEF StartsAreBudgeted
  <2>1. Starters(x, n) = {}
    BY ConstantsAssumption DEF Init, Starters
  <2>2. started[x][n] = 0 /\ Deliveries(x) = 1 /\ stalled[x] = 0 /\ faults = 0
    BY DEF Init, Deliveries
  <2> QED BY <2>1, <2>2, FS_EmptySet DEF IsBudgeted
<1>2. TypeOK /\ StartsAreBudgeted => RerunsHaveACause
  <2> SUFFICES ASSUME TypeOK, StartsAreBudgeted, NEW x \in Execs, NEW n \in Nodes
               PROVE  started[x][n] <= 1 + stalled[x] + faults
    BY DEF RerunsHaveACause
  <2>1. IsBudgeted(x, n)
    BY DEF StartsAreBudgeted
  <2>2. Cardinality(Starters(x, n)) \in Nat
    BY <2>1, FS_CardinalityType DEF IsBudgeted
  <2>3. started[x][n] \in Nat /\ stalled[x] \in Nat /\ faults \in Nat /\ Deliveries(x) \in Nat
    BY ConstantsAssumption DEF TypeOK, QueueType, HistoryType, Deliveries
  <2> QED BY <2>1, <2>2, <2>3 DEF IsBudgeted
<1> QED BY <1>1, <1>2, TypeCorrect, BudgetStep, PTL DEF Spec
==============================================================================
