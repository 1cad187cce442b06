---------------------------- MODULE IngestionProofs ----------------------------
(* What a ready document and a finished job mean, for any number of         *)
(* documents, corpora and handlers.                                         *)
EXTENDS IngestionProperties, FiniteSetTheorems, TLAPS

UploadPoints  == Points \ {"idle", "resolve", "create", "insertDoc"}
RuntimePoints == {"resolve", "create", "insertDoc", "delete", "insert", "markReady",
                  "summarize", "conclude", "failDoc"}
\* Where a document has been marked "processing" and not yet "ready".
Filling == {"markCorpus", "load", "delete", "insert", "markReady"}

Holders(d)   == {h \in Handlers : doc[h] = d}
Inserting(d) == {h \in Handlers : doc[h] = d /\ pc[h] = "insert"}

(* Where a handler is says what it works on.                                *)
Places ==
    \A h \in Handlers :
        /\ doc[h] = None <=> pc[h] = "idle"
        /\ doc[h] \in Uploads => pc[h] \in UploadPoints
        /\ doc[h] \in RuntimeDocs => pc[h] \in RuntimePoints
        /\ pc[h] \in {"resolve", "create"} \/ doc[h] = None \/ place[h] \in Corpora
        /\ caught[h] => pc[h] \in {"failDoc", "failCorpus", "nack", "summarize", "conclude"}
        /\ caught[h] /\ doc[h] \in Uploads => pc[h] \in {"failDoc", "failCorpus", "nack"}

(* A request that has not come to the queue has given nobody its document,  *)
(* and there is no more of a document than what was inserted.               *)
Requests ==
    \A d \in Docs :
        /\ api[d] = "new" => status[d] = "none"
        /\ api[d] \in {"new", "enqueue"} => job[d] = "none" /\ \A h \in Handlers : doc[h] # d
        /\ api[d] \in {"enqueue", "markFailed"} => d \in Uploads /\ home[d] \in Corpora
        /\ api[d] = "markFailed" \/ Refused(d) => faults > 0
        /\ d \in Uploads /\ job[d] = "none" => \A h \in Handlers : doc[h] # d
        /\ d \in Uploads /\ job[d] # "none" => home[d] \in Corpora
        /\ status[d] = "none" => chunks[d] = 0

(* Who has a document.  Nobody can lose a runtime document, and an upload    *)
(* only when a lock expires under a living holder.                          *)
Holding ==
    /\ \A d \in RuntimeDocs : job[d] = "none" /\ owner[d] = None
    /\ \A g, h \in Handlers : doc[g] \in RuntimeDocs /\ doc[g] = doc[h] => g = h
    /\ \A d \in Docs : owner[d] # None => doc[owner[d]] = d /\ job[d] = "active"
    /\ stalls = 0 => \A h \in Handlers : doc[h] \in Uploads => owner[doc[h]] = h
    /\ stalls = 0 /\ crashes = 0 => \A d \in Docs : job[d] = "active" => owner[d] # None

(* A document whose lock was never lost is where its one holder says, or    *)
(* where the catch of its request has put it.                               *)
Alone(d) == d \in RuntimeDocs \/ stalls = 0
Late(d) == Refused(d) /\ status[d] = "failed"

HolderKnows(h) ==
    LET d == doc[h] IN
    /\ pc[h] \in {"resolve", "create", "insertDoc"} => status[d] = "none"
    /\ pc[h] \in Filling => status[d] \in {"processing", "none"} \/ Late(d)
    /\ pc[h] = "insert" => chunks[d] = 0
    /\ pc[h] = "markReady" => chunks[d] = 1 \/ status[d] = "none"
    /\ d \in Uploads /\ pc[h] \in {"summarize", "conclude", "ack"} =>
          status[d] \in {"ready", "none"} \/ Late(d)
    /\ pc[h] = "failCorpus" => status[d] \in {"failed", "none"}
    /\ pc[h] = "nack" /\ faults = 0 => status[d] \in {"failed", "none"}

Exclusive ==
    /\ \A h \in Handlers : doc[h] # None /\ Alone(doc[h]) => HolderKnows(h)
    /\ \A d \in Docs : Alone(d) /\ status[d] = "ready" => chunks[d] = 1
    /\ \A d \in Uploads : stalls = 0 /\ job[d] = "completed" => status[d] \in {"ready", "none"} \/ Late(d)
    /\ \A d \in Uploads :
          faults = 0 /\ crashes = 0 /\ stalls = 0 /\ job[d] = "failed" => status[d] \in {"failed", "none"}

(* Where no call fails, holders that share a document agree on what becomes *)
(* of it: it fails only if it is blank, and else whoever marks it           *)
(* "processing" marks it "ready".                                           *)
Agreed ==
    \A d \in Uploads : faults = 0 =>
        /\ status[d] = "failed" => blank[d]
        /\ job[d] = "completed" => ~blank[d] /\ status[d] # "pending"
        /\ \A h \in Handlers : doc[h] = d =>
              /\ pc[h] \in {"delete", "insert", "markReady", "summarize", "conclude", "ack"} => ~blank[d]
              /\ pc[h] \in {"failDoc", "failCorpus", "nack"} => blank[d] \/ status[d] = "none"
              /\ status[d] = "pending" => pc[h] = "markDoc"
        /\ crashes = 0 /\ status[d] = "processing" /\ ~blank[d] =>
              \E h \in Handlers : doc[h] = d /\ pc[h] \in Filling

(* Every lock lost makes at most one holder more, and every holder may add  *)
(* its chunks to those of the others.                                       *)
LossesOf(d) ==
    /\ IsFiniteSet(Holders(d))
    /\ Cardinality(Holders(d)) <=
          (IF d \in RuntimeDocs THEN 1 ELSE stalled[d] + (IF owner[d] = None THEN 0 ELSE 1))
    /\ chunks[d] + Cardinality(Inserting(d)) <= 1 + stalled[d]

Losses == \A d \in Docs : LossesOf(d)

(* Attempts and losses left to a job that is not finished.                  *)
Chances ==
    \A d \in Docs : job[d] \in {"none", "waiting", "active"} =>
        attemptsMade[d] < MaxAttempts /\ stalled[d] <= MaxStalled

HandlerTypes ==
    /\ pc \in [Handlers -> Points]
    /\ doc \in [Handlers -> Docs \cup {None}]
    /\ place \in [Handlers -> Corpora \cup {None}]
    /\ seen \in [Handlers -> CorpusStatuses \cup {"none"}]
    /\ caught \in [Handlers -> BOOLEAN]

IngestionInv == TypeOK /\ Chances /\ Places /\ Requests /\ Holding /\ Exclusive /\ Agreed /\ Losses

\* A handler that rests, or goes where its exception goes, is one.
LEMMA RestTypes ==
    ASSUME HandlerTypes, NEW g \in Handlers, Rest(g)
    PROVE  HandlerTypes'
  BY DEF HandlerTypes, Rest, Points, CorpusStatuses

LEMMA ThrowTypes ==
    ASSUME HandlerTypes, NEW g \in Handlers, Throw(g)
    PROVE  HandlerTypes'
<1>1. CASE CatchOf(g) = "idle"
  BY <1>1, RestTypes DEF Throw
<1>2. CASE CatchOf(g) # "idle"
  <2>1. CatchOf(g) \in {"nack", "failDoc"}
    BY <1>2 DEF CatchOf
  <2>2. pc' = [pc EXCEPT ![g] = CatchOf(g)]
        /\ caught' = [caught EXCEPT ![g] = (CatchOf(g) = "failDoc")]
        /\ doc' = doc /\ place' = place /\ seen' = seen
    BY <1>2 DEF Throw, Goto
  <2>. HIDE DEF CatchOf
  <2>. QED
    BY <2>1, <2>2 DEF HandlerTypes, Points
<1>. QED
  BY <1>1, <1>2

\* Every step keeps the types.
LEMMA TypeStep ==
    ASSUME TypeOK, Chances, Places, Holding, [Next]_vars
    PROVE  TypeOK'
<1>. USE IngestionAssumption
    DEF TypeOK, Chances, Holding, Places, UploadPoints, RuntimePoints, Points, CorpusStatuses,
        DocStatuses, Docs, Existing, database, queue, handler, mishaps
<1>1. ASSUME NEW c \in Corpora, CreateCorpus(c) PROVE TypeOK'
  BY <1>1 DEF CreateCorpus
<1>2. ASSUME NEW d \in Docs, NEW c \in Corpora, NEW empty \in BOOLEAN,
              Upload(d, c, empty)
      PROVE  TypeOK'
  BY <1>2 DEF Upload
<1>3. ASSUME NEW d \in Docs, Enqueue(d) \/ MarkUploadFailed(d) \/ ApiDies(d) PROVE TypeOK'
  BY <1>3 DEF Enqueue, MarkUploadFailed, ApiDies, Fault, SetStatus
<1>4. ASSUME NEW d \in Docs, Sweep(d) \/ StalledBack(d) PROVE TypeOK'
  BY <1>4 DEF Sweep, StalledBack
<1>5. ASSUME NEW g \in Handlers, NEW d \in Docs, Take(g, d) \/ BeginRuntime(g, d) PROVE TypeOK'
  BY <1>5 DEF Take, BeginRuntime, Goto
<1>6. ASSUME NEW g \in Handlers,
              \/ MarkDoc(g) \/ MarkCorpus(g) \/ FailDoc(g) \/ FailCorpus(g)
      PROVE  TypeOK'
  BY <1>6 DEF MarkDoc, MarkCorpus, FailDoc, FailCorpus, SetStatus, Goto
<1>7. ASSUME NEW g \in Handlers, Load(g) PROVE TypeOK'
  <2>1. HandlerTypes
    BY DEF HandlerTypes
  <2>2. HandlerTypes'
    BY <1>7, <2>1, ThrowTypes
       DEF Load, Goto, HandlerTypes
  <2>. QED
    BY <1>7, <2>2 DEF Load, HandlerTypes
<1>8. ASSUME NEW g \in Handlers, ResolveRuntimeCorpus(g) \/ InsertRuntimeDoc(g) PROVE TypeOK'
  BY <1>8 DEF ResolveRuntimeCorpus, InsertRuntimeDoc, Goto
<1>9. ASSUME NEW g \in Handlers, DeleteChunks(g) PROVE TypeOK'
  BY <1>9 DEF DeleteChunks, Goto
<1>10. ASSUME NEW g \in Handlers, InsertChunks(g) PROVE TypeOK'
  <2>1. HandlerTypes
    BY DEF HandlerTypes
  <2>2. HandlerTypes'
    BY <1>10, <2>1, ThrowTypes
       DEF InsertChunks, Goto, HandlerTypes
  <2>. QED
    BY <1>10, <2>2 DEF InsertChunks, HandlerTypes
<1>11. ASSUME NEW g \in Handlers, MarkReady(g) PROVE TypeOK'
  BY <1>11 DEF MarkReady, SetStatus, Goto
<1>12. ASSUME NEW g \in Handlers, Summarize(g) PROVE TypeOK'
  BY <1>12 DEF Summarize, Goto, Summary
<1>13. ASSUME NEW g \in Handlers, Conclude(g) PROVE TypeOK'
  <2>1. HandlerTypes
    BY DEF HandlerTypes
  <2>2. HandlerTypes'
    BY <1>13, <2>1, RestTypes
       DEF Conclude, Goto, HandlerTypes
  <2>. QED
    BY <1>13, <2>2 DEF Conclude, HandlerTypes
<1>14. ASSUME NEW g \in Handlers, Report(g) PROVE TypeOK'
  <2>1. HandlerTypes
    BY DEF HandlerTypes
  <2>2. HandlerTypes'
    BY <1>14, <2>1, RestTypes
       DEF Report, HandlerTypes
  <2>3. owner[doc[g]] = g => doc[g] \in Docs /\ attemptsMade[doc[g]] < MaxAttempts
    BY <1>14 DEF Report
  <2>4. /\ job' \in [Docs -> {"none", "waiting", "active", "completed", "failed"}]
        /\ attemptsMade' \in [Docs -> 0..MaxAttempts]
        /\ stalled' \in [Docs -> 0..(MaxStalled + 1)]
        /\ owner' \in [Docs -> Handlers \cup {None}]
    <3>1. CASE owner[doc[g]] # g
      BY <1>14, <3>1 DEF Report
    <3>2. CASE owner[doc[g]] = g
      BY <1>14, <2>3, <3>2 DEF Report
    <3>. QED
      BY <3>1, <3>2
  <2>5. UNCHANGED <<database, api, mishaps>>
    BY <1>14 DEF Report
  <2>. QED
    BY <2>2, <2>4, <2>5 DEF HandlerTypes
<1>15. ASSUME NEW g \in Handlers, CallFails(g) \/ EmptyRuntimeDoc(g) PROVE TypeOK'
  <2>1. HandlerTypes
    BY DEF HandlerTypes
  <2>2. HandlerTypes'
    BY <1>15, <2>1, ThrowTypes
       DEF CallFails, EmptyRuntimeDoc, HandlerTypes
  <2>. QED
    BY <1>15, <2>2 DEF CallFails, EmptyRuntimeDoc, Fault, HandlerTypes
<1>16. ASSUME NEW g \in Handlers, Crash(g) PROVE TypeOK'
  BY <1>16 DEF Crash, Rest
<1>17. ASSUME NEW g \in Handlers, NEW c \in Corpora, CreateRuntimeCorpus(g, c) PROVE TypeOK'
  BY <1>17 DEF CreateRuntimeCorpus, Goto
<1>18. CASE UNCHANGED vars
  BY <1>18 DEF vars
<1>. HIDE DEF TypeOK, Chances, Holding, Places, UploadPoints, RuntimePoints, Points,
    CorpusStatuses, DocStatuses, Docs, Existing, database, queue, handler, mishaps
<1>. QED
  BY <1>1, <1>2, <1>3, <1>4, <1>5, <1>6, <1>7, <1>8, <1>9, <1>10, <1>11, <1>12, <1>13, <1>14,
     <1>15, <1>16, <1>17, <1>18
     DEF Next, Attempt

\* A job that may be taken has attempts and losses left.
LEMMA ChancesStep ==
    ASSUME TypeOK, Chances, Places, Requests, Holding, [Next]_vars
    PROVE  Chances'
<1>. USE IngestionAssumption
    DEF TypeOK, Chances, Places, Requests, Holding, Docs, database, queue, handler, mishaps
<1>1. ASSUME NEW c \in Corpora, CreateCorpus(c) PROVE Chances'
  BY <1>1 DEF CreateCorpus
<1>2. ASSUME NEW d \in Docs, NEW c \in Corpora, NEW empty \in BOOLEAN,
              Upload(d, c, empty)
      PROVE  Chances'
  BY <1>2 DEF Upload
<1>3. ASSUME NEW d \in Docs, Enqueue(d) \/ MarkUploadFailed(d) \/ ApiDies(d) PROVE Chances'
  BY <1>3 DEF Enqueue, MarkUploadFailed, ApiDies, Fault, SetStatus
<1>4. ASSUME NEW d \in Docs, Sweep(d) \/ StalledBack(d) PROVE Chances'
  BY <1>4 DEF Sweep, StalledBack
<1>5. ASSUME NEW g \in Handlers, NEW d \in Docs, Take(g, d) \/ BeginRuntime(g, d) PROVE Chances'
  BY <1>5 DEF Take, BeginRuntime, Goto
<1>6. ASSUME NEW g \in Handlers,
              \/ MarkDoc(g) \/ MarkCorpus(g) \/ FailDoc(g) \/ FailCorpus(g)
      PROVE  Chances'
  BY <1>6 DEF MarkDoc, MarkCorpus, FailDoc, FailCorpus, SetStatus, Goto
<1>7. ASSUME NEW g \in Handlers,
              \/ Load(g) \/ InsertChunks(g) \/ CallFails(g) \/ EmptyRuntimeDoc(g)
      PROVE  Chances'
  BY <1>7 DEF Load, InsertChunks, CallFails, EmptyRuntimeDoc, Throw, CatchOf, Rest, Goto, Fault
<1>8. ASSUME NEW g \in Handlers, ResolveRuntimeCorpus(g) \/ InsertRuntimeDoc(g) PROVE Chances'
  BY <1>8 DEF ResolveRuntimeCorpus, InsertRuntimeDoc, Goto
<1>9. ASSUME NEW g \in Handlers,
              \/ DeleteChunks(g) \/ MarkReady(g) \/ Summarize(g) \/ Conclude(g)
      PROVE  Chances'
  BY <1>9 DEF DeleteChunks, MarkReady, Summarize, Conclude, Goto, SetStatus, Summary, Rest
<1>10. ASSUME NEW g \in Handlers, Report(g) \/ Crash(g) PROVE Chances'
  BY <1>10 DEF Report, Crash, Rest
<1>11. ASSUME NEW g \in Handlers, NEW c \in Corpora, CreateRuntimeCorpus(g, c) PROVE Chances'
  BY <1>11 DEF CreateRuntimeCorpus, Goto
<1>12. CASE UNCHANGED vars
  BY <1>12 DEF vars
<1>. HIDE DEF TypeOK, Chances, Places, Requests, Holding, Docs, database, queue, handler,
    mishaps
<1>. QED
  BY <1>1, <1>2, <1>3, <1>4, <1>5, <1>6, <1>7, <1>8, <1>9, <1>10, <1>11, <1>12
     DEF Next, Attempt

\* A handler is where its document takes it.
LEMMA PlacesStep ==
    ASSUME TypeOK, Places, Requests, Holding, [Next]_vars
    PROVE  Places'
<1>. USE IngestionAssumption
    DEF TypeOK, Places, Requests, Holding, UploadPoints, RuntimePoints, Points, Docs, Existing,
        database, queue, handler, mishaps
<1>1. ASSUME NEW c \in Corpora, CreateCorpus(c) PROVE Places'
  BY <1>1 DEF CreateCorpus
<1>2. ASSUME NEW d \in Docs, NEW c \in Corpora, NEW empty \in BOOLEAN,
              Upload(d, c, empty)
      PROVE  Places'
  BY <1>2 DEF Upload
<1>3. ASSUME NEW d \in Docs, Enqueue(d) \/ MarkUploadFailed(d) \/ ApiDies(d) PROVE Places'
  BY <1>3 DEF Enqueue, MarkUploadFailed, ApiDies, Fault, SetStatus
<1>4. ASSUME NEW d \in Docs, Sweep(d) \/ StalledBack(d) PROVE Places'
  BY <1>4 DEF Sweep, StalledBack
<1>5. ASSUME NEW g \in Handlers, NEW d \in Docs, Take(g, d) \/ BeginRuntime(g, d) PROVE Places'
  BY <1>5 DEF Take, BeginRuntime, Goto
<1>6. ASSUME NEW g \in Handlers,
              \/ MarkDoc(g) \/ MarkCorpus(g) \/ FailDoc(g) \/ FailCorpus(g)
      PROVE  Places'
  BY <1>6 DEF MarkDoc, MarkCorpus, FailDoc, FailCorpus, SetStatus, Goto
<1>7. ASSUME NEW g \in Handlers,
              \/ Load(g) \/ InsertChunks(g) \/ CallFails(g) \/ EmptyRuntimeDoc(g)
      PROVE  Places'
  BY <1>7 DEF Load, InsertChunks, CallFails, EmptyRuntimeDoc, Throw, CatchOf, Rest, Goto, Fault
<1>8. ASSUME NEW g \in Handlers, ResolveRuntimeCorpus(g) \/ InsertRuntimeDoc(g) PROVE Places'
  BY <1>8 DEF ResolveRuntimeCorpus, InsertRuntimeDoc, Goto
<1>9. ASSUME NEW g \in Handlers,
              \/ DeleteChunks(g) \/ MarkReady(g) \/ Summarize(g) \/ Conclude(g)
      PROVE  Places'
  BY <1>9 DEF DeleteChunks, MarkReady, Summarize, Conclude, Goto, SetStatus, Summary, Rest
<1>10. ASSUME NEW g \in Handlers, Report(g) \/ Crash(g) PROVE Places'
  BY <1>10 DEF Report, Crash, Rest
<1>11. ASSUME NEW g \in Handlers, NEW c \in Corpora, CreateRuntimeCorpus(g, c) PROVE Places'
  BY <1>11 DEF CreateRuntimeCorpus, Goto
<1>12. CASE UNCHANGED vars
  BY <1>12 DEF vars
<1>. HIDE DEF TypeOK, Places, Requests, Holding, UploadPoints, RuntimePoints, Points, Docs,
    Existing, database, queue, handler, mishaps
<1>. QED
  BY <1>1, <1>2, <1>3, <1>4, <1>5, <1>6, <1>7, <1>8, <1>9, <1>10, <1>11, <1>12
     DEF Next, Attempt

\* A request hands its document over once.
LEMMA RequestsStep ==
    ASSUME TypeOK, Places, Requests, [Next]_vars
    PROVE  Requests'
<1>. USE IngestionAssumption
    DEF TypeOK, Places, Requests, Refused, UploadPoints, RuntimePoints, Points, Docs, Existing, database,
        queue, handler, mishaps
<1>1. ASSUME NEW c \in Corpora, CreateCorpus(c) PROVE Requests'
  BY <1>1 DEF CreateCorpus
<1>2. ASSUME NEW d \in Docs, NEW c \in Corpora, NEW empty \in BOOLEAN,
              Upload(d, c, empty)
      PROVE  Requests'
  BY <1>2 DEF Upload
<1>3. ASSUME NEW d \in Docs, Enqueue(d) \/ MarkUploadFailed(d) \/ ApiDies(d) PROVE Requests'
  BY <1>3 DEF Enqueue, MarkUploadFailed, ApiDies, Fault, SetStatus
<1>4. ASSUME NEW d \in Docs, Sweep(d) \/ StalledBack(d) PROVE Requests'
  BY <1>4 DEF Sweep, StalledBack
<1>5. ASSUME NEW g \in Handlers, NEW d \in Docs,
              \/ Take(g, d) \/ BeginRuntime(g, d)
      PROVE  Requests'
  BY <1>5 DEF Take, BeginRuntime, Goto
<1>6. ASSUME NEW g \in Handlers,
              \/ MarkDoc(g) \/ MarkCorpus(g) \/ FailDoc(g) \/ FailCorpus(g)
      PROVE  Requests'
  BY <1>6 DEF MarkDoc, MarkCorpus, FailDoc, FailCorpus, SetStatus, Goto
<1>7. ASSUME NEW g \in Handlers,
              \/ Load(g) \/ InsertChunks(g) \/ CallFails(g) \/ EmptyRuntimeDoc(g)
      PROVE  Requests'
  BY <1>7 DEF Load, InsertChunks, CallFails, EmptyRuntimeDoc, Throw, CatchOf, Rest, Goto, Fault
<1>8. ASSUME NEW g \in Handlers, ResolveRuntimeCorpus(g) \/ InsertRuntimeDoc(g) PROVE Requests'
  BY <1>8 DEF ResolveRuntimeCorpus, InsertRuntimeDoc, Goto
<1>9. ASSUME NEW g \in Handlers,
              \/ DeleteChunks(g) \/ MarkReady(g) \/ Summarize(g) \/ Conclude(g)
      PROVE  Requests'
  BY <1>9 DEF DeleteChunks, MarkReady, Summarize, Conclude, Goto, SetStatus, Summary, Rest
<1>10. ASSUME NEW g \in Handlers, Report(g) \/ Crash(g) PROVE Requests'
  BY <1>10 DEF Report, Crash, Rest
<1>11. ASSUME NEW g \in Handlers, NEW c \in Corpora, CreateRuntimeCorpus(g, c) PROVE Requests'
  BY <1>11 DEF CreateRuntimeCorpus, Goto
<1>12. CASE UNCHANGED vars
  BY <1>12 DEF vars
<1>. HIDE DEF TypeOK, Places, Requests, Refused, UploadPoints, RuntimePoints, Points, Docs, Existing,
    database, queue, handler, mishaps
<1>. QED
  BY <1>1, <1>2, <1>3, <1>4, <1>5, <1>6, <1>7, <1>8, <1>9, <1>10, <1>11, <1>12
     DEF Next, Attempt

\* A document has one holder until a lock expires under a living one.
LEMMA HoldingStep ==
    ASSUME TypeOK, Places, Requests, Holding, [Next]_vars
    PROVE  Holding'
<1>. USE IngestionAssumption
    DEF TypeOK, Places, Requests, Holding, UploadPoints, RuntimePoints, Points, Docs, database,
        queue, handler, mishaps
<1>1. ASSUME NEW c \in Corpora, CreateCorpus(c) PROVE Holding'
  BY <1>1 DEF CreateCorpus
<1>2. ASSUME NEW d \in Docs, NEW c \in Corpora, NEW empty \in BOOLEAN,
              Upload(d, c, empty)
      PROVE  Holding'
  BY <1>2 DEF Upload
<1>3. ASSUME NEW d \in Docs, Enqueue(d) \/ MarkUploadFailed(d) \/ ApiDies(d) PROVE Holding'
  BY <1>3 DEF Enqueue, MarkUploadFailed, ApiDies, Fault, SetStatus
<1>4. ASSUME NEW d \in Docs, Sweep(d) \/ StalledBack(d) PROVE Holding'
  BY <1>4 DEF Sweep, StalledBack
<1>5. ASSUME NEW g \in Handlers, NEW d \in Docs, Take(g, d) \/ BeginRuntime(g, d) PROVE Holding'
  BY <1>5 DEF Take, BeginRuntime, Goto
<1>6. ASSUME NEW g \in Handlers,
              \/ MarkDoc(g) \/ MarkCorpus(g) \/ FailDoc(g) \/ FailCorpus(g)
      PROVE  Holding'
  BY <1>6 DEF MarkDoc, MarkCorpus, FailDoc, FailCorpus, SetStatus, Goto
<1>7. ASSUME NEW g \in Handlers,
              \/ Load(g) \/ InsertChunks(g) \/ CallFails(g) \/ EmptyRuntimeDoc(g)
      PROVE  Holding'
  BY <1>7 DEF Load, InsertChunks, CallFails, EmptyRuntimeDoc, Throw, CatchOf, Rest, Goto, Fault
<1>8. ASSUME NEW g \in Handlers, ResolveRuntimeCorpus(g) \/ InsertRuntimeDoc(g) PROVE Holding'
  BY <1>8 DEF ResolveRuntimeCorpus, InsertRuntimeDoc, Goto
<1>9. ASSUME NEW g \in Handlers,
              \/ DeleteChunks(g) \/ MarkReady(g) \/ Summarize(g) \/ Conclude(g)
      PROVE  Holding'
  BY <1>9 DEF DeleteChunks, MarkReady, Summarize, Conclude, Goto, SetStatus, Summary, Rest
<1>10. ASSUME NEW g \in Handlers, Report(g) \/ Crash(g) PROVE Holding'
  BY <1>10 DEF Report, Crash, Rest
<1>11. ASSUME NEW g \in Handlers, NEW c \in Corpora, CreateRuntimeCorpus(g, c) PROVE Holding'
  BY <1>11 DEF CreateRuntimeCorpus, Goto
<1>12. CASE UNCHANGED vars
  BY <1>12 DEF vars
<1>. HIDE DEF TypeOK, Places, Requests, Holding, UploadPoints, RuntimePoints, Points, Docs,
    database, queue, handler, mishaps
<1>. QED
  BY <1>1, <1>2, <1>3, <1>4, <1>5, <1>6, <1>7, <1>8, <1>9, <1>10, <1>11, <1>12
     DEF Next, Attempt

\* Without a fault, those that share a document agree on what becomes of it.
LEMMA AgreedStep ==
    ASSUME IngestionInv, [Next]_vars
    PROVE  Agreed'
<1>. USE IngestionAssumption
    DEF IngestionInv, TypeOK, Places, Requests, Refused, Holding, Agreed, Filling, UploadPoints,
        RuntimePoints, Points, Docs, database, queue, handler, mishaps
<1>1. ASSUME NEW c \in Corpora, CreateCorpus(c) PROVE Agreed'
  BY <1>1 DEF CreateCorpus
<1>2. ASSUME NEW d \in Docs, NEW c \in Corpora, NEW empty \in BOOLEAN,
              Upload(d, c, empty)
      PROVE  Agreed'
  BY <1>2 DEF Upload
<1>3. ASSUME NEW d \in Docs, Enqueue(d) \/ MarkUploadFailed(d) \/ ApiDies(d) PROVE Agreed'
  BY <1>3 DEF Enqueue, MarkUploadFailed, ApiDies, Fault, SetStatus
<1>4. ASSUME NEW d \in Docs, Sweep(d) \/ StalledBack(d) PROVE Agreed'
  BY <1>4 DEF Sweep, StalledBack
<1>5. ASSUME NEW g \in Handlers, NEW d \in Docs, Take(g, d) \/ BeginRuntime(g, d) PROVE Agreed'
  BY <1>5 DEF Take, BeginRuntime, Goto
<1>6. ASSUME NEW g \in Handlers,
              \/ MarkDoc(g) \/ MarkCorpus(g) \/ FailDoc(g) \/ FailCorpus(g)
      PROVE  Agreed'
  BY <1>6 DEF MarkDoc, MarkCorpus, FailDoc, FailCorpus, SetStatus, Goto
<1>7. ASSUME NEW g \in Handlers,
              \/ Load(g) \/ InsertChunks(g) \/ CallFails(g) \/ EmptyRuntimeDoc(g)
      PROVE  Agreed'
  BY <1>7 DEF Load, InsertChunks, CallFails, EmptyRuntimeDoc, Throw, CatchOf, Rest, Goto, Fault
<1>8. ASSUME NEW g \in Handlers, ResolveRuntimeCorpus(g) \/ InsertRuntimeDoc(g) PROVE Agreed'
  BY <1>8 DEF ResolveRuntimeCorpus, InsertRuntimeDoc, Goto
<1>9. ASSUME NEW g \in Handlers,
              \/ DeleteChunks(g) \/ MarkReady(g) \/ Summarize(g) \/ Conclude(g)
      PROVE  Agreed'
  BY <1>9 DEF DeleteChunks, MarkReady, Summarize, Conclude, Goto, SetStatus, Summary, Rest
<1>10. ASSUME NEW g \in Handlers, Report(g) \/ Crash(g) PROVE Agreed'
  BY <1>10 DEF Report, Crash, Rest
<1>11. ASSUME NEW g \in Handlers, NEW c \in Corpora, CreateRuntimeCorpus(g, c) PROVE Agreed'
  BY <1>11 DEF CreateRuntimeCorpus, Goto
<1>12. CASE UNCHANGED vars
  BY <1>12 DEF vars
<1>. HIDE DEF IngestionInv, TypeOK, Places, Requests, Refused, Holding, Agreed, Filling, UploadPoints,
    RuntimePoints, Points, Docs, database, queue, handler, mishaps
<1>. QED
  BY <1>1, <1>2, <1>3, <1>4, <1>5, <1>6, <1>7, <1>8, <1>9, <1>10, <1>11, <1>12
     DEF Next, Attempt

\* A document with one holder is where the holder says.
LEMMA ExclusiveStep ==
    ASSUME IngestionInv, [Next]_vars
    PROVE  Exclusive'
<1>. USE IngestionAssumption
    DEF IngestionInv, TypeOK, Places, Requests, Holding, Exclusive, HolderKnows, Alone, Late,
        Refused, Filling, UploadPoints, RuntimePoints, Points, Docs, database, queue, handler, mishaps
<1>1. ASSUME NEW c \in Corpora, CreateCorpus(c) PROVE Exclusive'
  BY <1>1 DEF CreateCorpus
<1>2. ASSUME NEW d \in Docs, NEW c \in Corpora, NEW empty \in BOOLEAN,
              Upload(d, c, empty)
      PROVE  Exclusive'
  BY <1>2 DEF Upload
<1>3. ASSUME NEW d \in Docs, Enqueue(d) \/ MarkUploadFailed(d) \/ ApiDies(d) PROVE Exclusive'
  <2>1. CASE Enqueue(d)
    BY <2>1 DEF Enqueue, Fault
  <2>2. CASE ApiDies(d)
    BY <2>2 DEF ApiDies, Fault
  <2>3. CASE MarkUploadFailed(d)
    <3>1. /\ d \in Uploads /\ faults > 0 /\ faults' >= faults
          /\ api' = [api EXCEPT ![d] = "refused"] /\ UNCHANGED <<chunks, queue, handler, stalls, crashes>>
          /\ status' = status \/ (status[d] # "none" /\ status' = [status EXCEPT ![d] = "failed"])
      BY <2>3 DEF MarkUploadFailed, Fault, SetStatus
    <3>2. CASE status' = status
      BY <3>1, <3>2
    <3>3. CASE status[d] # "none" /\ status' = [status EXCEPT ![d] = "failed"]
      BY <3>1, <3>3
    <3>. QED
      BY <3>1, <3>2, <3>3
  <2>. QED
    BY <1>3, <2>1, <2>2, <2>3
<1>4. ASSUME NEW d \in Docs, Sweep(d) \/ StalledBack(d) PROVE Exclusive'
  BY <1>4 DEF Sweep, StalledBack
<1>5. ASSUME NEW g \in Handlers, NEW d \in Docs,
              \/ Take(g, d) \/ BeginRuntime(g, d)
      PROVE  Exclusive'
  BY <1>5 DEF Take, BeginRuntime, Goto
<1>6. ASSUME NEW g \in Handlers,
              \/ MarkDoc(g) \/ MarkCorpus(g) \/ FailDoc(g) \/ FailCorpus(g)
      PROVE  Exclusive'
  BY <1>6 DEF MarkDoc, MarkCorpus, FailDoc, FailCorpus, SetStatus, Goto
<1>7. ASSUME NEW g \in Handlers,
              \/ Load(g) \/ InsertChunks(g) \/ CallFails(g) \/ EmptyRuntimeDoc(g)
      PROVE  Exclusive'
  BY <1>7 DEF Load, InsertChunks, CallFails, EmptyRuntimeDoc, Throw, CatchOf, Rest, Goto, Fault
<1>8. ASSUME NEW g \in Handlers, ResolveRuntimeCorpus(g) \/ InsertRuntimeDoc(g) PROVE Exclusive'
  BY <1>8 DEF ResolveRuntimeCorpus, InsertRuntimeDoc, Goto
<1>9. ASSUME NEW g \in Handlers,
              \/ DeleteChunks(g) \/ MarkReady(g) \/ Summarize(g) \/ Conclude(g)
      PROVE  Exclusive'
  BY <1>9 DEF DeleteChunks, MarkReady, Summarize, Conclude, Goto, SetStatus, Summary, Rest
<1>10. ASSUME NEW g \in Handlers, Report(g) \/ Crash(g) PROVE Exclusive'
  BY <1>10 DEF Report, Crash, Rest
<1>11. ASSUME NEW g \in Handlers, NEW c \in Corpora, CreateRuntimeCorpus(g, c) PROVE Exclusive'
  BY <1>11 DEF CreateRuntimeCorpus, Goto
<1>12. CASE UNCHANGED vars
  BY <1>12 DEF vars
<1>. HIDE DEF IngestionInv, TypeOK, Places, Requests, Holding, Exclusive, HolderKnows, Alone, Late,
    Refused, Filling, UploadPoints, RuntimePoints, Points, Docs, database, queue, handler, mishaps
<1>. QED
  BY <1>1, <1>2, <1>3, <1>4, <1>5, <1>6, <1>7, <1>8, <1>9, <1>10, <1>11, <1>12
     DEF Next, Attempt

\* Those that insert chunks of a document are among those that hold it.
LEMMA InsertingIsFew ==
    ASSUME NEW e, IsFiniteSet(Holders(e))
    PROVE  /\ IsFiniteSet(Inserting(e))
           /\ Cardinality(Holders(e)) \in Nat /\ Cardinality(Inserting(e)) \in Nat
           /\ Cardinality(Inserting(e)) <= Cardinality(Holders(e))
<1>1. Inserting(e) \subseteq Holders(e)
  BY DEF Inserting, Holders
<1>. QED
  BY <1>1, FS_Subset, FS_CardinalityType

\* Nothing is lost where neither holders nor chunks become more.
LEMMA NoMoreHolders ==
    ASSUME TypeOK, NEW e \in Docs, LossesOf(e),
           Holders(e)' \subseteq Holders(e), Inserting(e)' \subseteq Inserting(e),
           chunks'[e] \in Nat, chunks'[e] <= chunks[e],
           stalled'[e] = stalled[e], owner'[e] = owner[e]
    PROVE  LossesOf(e)'
<1>. DEFINE H == Cardinality(Holders(e))
            I == Cardinality(Inserting(e))
<1>1. IsFiniteSet(Inserting(e)) /\ H \in Nat /\ I \in Nat
  BY InsertingIsFew DEF LossesOf
<1>2. IsFiniteSet(Holders(e)') /\ Cardinality(Holders(e)') <= H /\ Cardinality(Holders(e)') \in Nat
  BY FS_Subset, FS_CardinalityType DEF LossesOf
<1>3. Cardinality(Inserting(e)') <= I /\ Cardinality(Inserting(e)') \in Nat
  BY <1>1, FS_Subset, FS_CardinalityType
<1>4. stalled[e] \in Nat /\ chunks[e] \in Nat
  BY DEF TypeOK
<1>5. H <= (IF e \in RuntimeDocs THEN 1 ELSE stalled[e] + (IF owner[e] = None THEN 0 ELSE 1))
      /\ chunks[e] + I <= 1 + stalled[e]
  BY DEF LossesOf
<1>. HIDE DEF H, I
<1>. QED
  BY <1>1, <1>2, <1>3, <1>4, <1>5 DEF LossesOf

\* A holder that leaves makes room for another one.
LEMMA HolderLeaves ==
    ASSUME TypeOK, NEW e \in Docs, LossesOf(e), NEW g \in Holders(e),
           Holders(e)' = Holders(e) \ {g}, Inserting(e)' \subseteq Inserting(e),
           chunks'[e] = chunks[e], stalled'[e] = stalled[e]
    PROVE  LossesOf(e)'
<1>. DEFINE H == Cardinality(Holders(e))
            I == Cardinality(Inserting(e))
<1>1. IsFiniteSet(Inserting(e)) /\ H \in Nat /\ I \in Nat
  BY InsertingIsFew DEF LossesOf
<1>2. IsFiniteSet(Holders(e)') /\ Cardinality(Holders(e)') = H - 1
  BY FS_RemoveElement DEF LossesOf
<1>3. Cardinality(Inserting(e)') <= I /\ Cardinality(Inserting(e)') \in Nat
  BY <1>1, FS_Subset, FS_CardinalityType
<1>4. stalled[e] \in Nat /\ chunks[e] \in Nat
  BY DEF TypeOK
<1>5. H <= (IF e \in RuntimeDocs THEN 1 ELSE stalled[e] + (IF owner[e] = None THEN 0 ELSE 1))
      /\ chunks[e] + I <= 1 + stalled[e]
  BY DEF LossesOf
<1>. HIDE DEF H, I
<1>. QED
  BY <1>1, <1>2, <1>3, <1>4, <1>5 DEF LossesOf

LEMMA LossesStep ==
    ASSUME IngestionInv, [Next]_vars
    PROVE  Losses'
<1>. USE IngestionAssumption DEF IngestionInv
<1>. SUFFICES ASSUME NEW e \in Docs PROVE LossesOf(e)'
  BY DEF Losses
<1>0. TypeOK /\ LossesOf(e)
  BY DEF Losses
<1>1. CASE /\ Holders(e)' = Holders(e) /\ Inserting(e)' = Inserting(e)
           /\ chunks'[e] = chunks[e] /\ stalled'[e] = stalled[e] /\ owner'[e] = owner[e]
  BY <1>0, <1>1, NoMoreHolders DEF TypeOK
<1>2. ASSUME NEW c \in Corpora, CreateCorpus(c) PROVE LossesOf(e)'
  BY <1>1, <1>2 DEF CreateCorpus, handler, queue, Holders, Inserting
<1>3. ASSUME NEW d \in Docs, NEW c \in Corpora, NEW empty \in BOOLEAN, Upload(d, c, empty) PROVE LossesOf(e)'
  BY <1>1, <1>3 DEF Upload, handler, queue, Holders, Inserting
<1>4. ASSUME NEW d \in Docs, Enqueue(d) \/ MarkUploadFailed(d) \/ ApiDies(d) PROVE LossesOf(e)'
  BY <1>1, <1>4 DEF Enqueue, MarkUploadFailed, ApiDies, database, handler, queue, Holders, Inserting
<1>5. ASSUME NEW d \in Docs, Sweep(d) PROVE LossesOf(e)'
  <2>1. /\ Holders(e)' = Holders(e) /\ Inserting(e)' = Inserting(e)
        /\ stalled'[e] = stalled[e] /\ owner'[e] = owner[e]
    BY <1>5 DEF Sweep, handler, queue, Holders, Inserting
  <2>2. chunks'[e] \in Nat /\ chunks'[e] <= chunks[e]
    BY <1>0, <1>5 DEF Sweep, TypeOK
  <2>. QED
    BY <1>0, <2>1, <2>2, NoMoreHolders
<1>6. ASSUME NEW d \in Docs, StalledBack(d) PROVE LossesOf(e)'
  <2>1. /\ Holders(e)' = Holders(e) /\ Inserting(e)' = Inserting(e) /\ chunks'[e] = chunks[e]
    BY <1>6 DEF StalledBack, handler, database, Holders, Inserting
  <2>2. CASE e # d
    BY <1>1, <1>6, <2>1, <2>2 DEF StalledBack
  <2>3. CASE e = d
    <3>1. /\ d \notin RuntimeDocs /\ stalled'[d] = stalled[d] + 1 /\ owner'[d] = None
          /\ stalled[d] \in Nat /\ chunks[d] \in Nat
      BY <1>6 DEF StalledBack, TypeOK, Holding
    <3>2. Cardinality(Holders(e)) \in Nat /\ Cardinality(Inserting(e)) \in Nat
      BY <1>0, InsertingIsFew DEF LossesOf
    <3>. QED
      BY <1>0, <2>1, <2>3, <3>1, <3>2 DEF LossesOf
  <2>. QED
    BY <2>2, <2>3
<1>7. ASSUME NEW g \in Handlers, NEW d \in Docs, Take(g, d) \/ BeginRuntime(g, d) PROVE LossesOf(e)'
  <2>1. /\ Inserting(e)' = Inserting(e) /\ chunks'[e] = chunks[e] /\ stalled'[e] = stalled[e]
    BY <1>7 DEF Take, BeginRuntime, Goto, TypeOK, Places, database, queue, Inserting
  <2>2. CASE e # d
    <3>1. Holders(e)' = Holders(e) /\ owner'[e] = owner[e]
      BY <1>7, <2>2 DEF Take, BeginRuntime, TypeOK, Places, queue, Holders, Docs
    <3>. QED
      BY <1>1, <2>1, <3>1
  <2>3. CASE e = d
    <3>1. Holders(e)' = Holders(e) \union {g} /\ g \notin Holders(e)
      BY <1>7, <2>3 DEF Take, BeginRuntime, TypeOK, Places, Holders, Docs
    <3>2. /\ IsFiniteSet(Holders(e)')
          /\ Cardinality(Holders(e)') = Cardinality(Holders(e)) + 1
          /\ Cardinality(Holders(e)) \in Nat
      BY <1>0, <3>1, FS_AddElement, InsertingIsFew DEF LossesOf
    <3>3. CASE Take(g, d)
      <4>1. e \notin RuntimeDocs /\ owner[e] = None /\ owner'[e] # None /\ stalled[e] \in Nat
        BY <1>7, <2>3, <3>3 DEF Take, TypeOK, Holding, Docs
      <4>. QED
        BY <1>0, <2>1, <3>2, <4>1 DEF LossesOf
    <3>4. CASE BeginRuntime(g, d)
      <4>1. e \in RuntimeDocs /\ Holders(e) = {}
        BY <2>3, <3>4 DEF BeginRuntime, Requests, Holders
      <4>2. Cardinality(Holders(e)) = 0
        BY <4>1, FS_EmptySet
      <4>. QED
        BY <1>0, <2>1, <3>2, <4>1, <4>2 DEF LossesOf
    <3>. QED
      BY <1>7, <3>3, <3>4
  <2>. QED
    BY <2>2, <2>3
<1>8. ASSUME NEW g \in Handlers, DeleteChunks(g) PROVE LossesOf(e)'
  <2>1. /\ Holders(e)' = Holders(e) /\ stalled'[e] = stalled[e] /\ owner'[e] = owner[e]
    BY <1>8 DEF DeleteChunks, Holders, queue
  <2>2. CASE e # doc[g]
    BY <1>1, <1>8, <2>1, <2>2 DEF DeleteChunks, Goto, Inserting, TypeOK
  <2>3. CASE e = doc[g]
    <3>1. chunks'[e] = 0
      BY <1>8, <2>3 DEF DeleteChunks, TypeOK
    <3>2. Cardinality(Inserting(e)') <= Cardinality(Holders(e)) /\ Cardinality(Inserting(e)') \in Nat
      <4>1. Inserting(e)' \subseteq Holders(e)
        BY <2>1 DEF Inserting, Holders
      <4>. QED
        BY <1>0, <4>1, FS_Subset, FS_CardinalityType DEF LossesOf
    <3>3. Cardinality(Holders(e)) \in Nat
      BY <1>0, InsertingIsFew DEF LossesOf
    <3>4. stalled[e] \in Nat
      BY DEF TypeOK
    <3>. QED
      BY <1>0, <2>1, <3>1, <3>2, <3>3, <3>4 DEF LossesOf
  <2>. QED
    BY <2>2, <2>3
<1>9. ASSUME NEW g \in Handlers, g \in Holders(e), Rest(g),
             chunks'[e] = chunks[e], stalled'[e] = stalled[e]
      PROVE  LossesOf(e)'
  <2>1. Holders(e)' = Holders(e) \ {g} /\ Inserting(e)' \subseteq Inserting(e)
    BY <1>9 DEF Rest, Holders, Inserting, TypeOK, Docs
  <2>. QED
    BY <1>0, <1>9, <2>1, HolderLeaves
<1>10. ASSUME NEW g \in Handlers, g \notin Holders(e), Rest(g),
              chunks'[e] = chunks[e], stalled'[e] = stalled[e], owner'[e] = owner[e]
       PROVE  LossesOf(e)'
  <2>1. Holders(e)' = Holders(e) /\ Inserting(e)' = Inserting(e)
    BY <1>10 DEF Rest, Holders, Inserting, TypeOK, Docs
  <2>. QED
    BY <1>1, <1>10, <2>1
<1>11. ASSUME NEW g \in Handlers, doc' = doc, \A h \in Handlers \ {g} : pc'[h] = pc[h],
              pc'[g] # "insert",
              chunks'[e] = chunks[e], stalled'[e] = stalled[e], owner'[e] = owner[e]
       PROVE  LossesOf(e)'
  <2>1. Holders(e)' = Holders(e) /\ Inserting(e)' \subseteq Inserting(e)
    BY <1>11 DEF Holders, Inserting
  <2>2. chunks'[e] \in Nat /\ chunks'[e] <= chunks[e]
    BY <1>11 DEF TypeOK
  <2>. QED
    BY <1>0, <1>11, <2>1, <2>2, NoMoreHolders
<1>12. ASSUME NEW g \in Handlers, Throw(g), chunks' = chunks, UNCHANGED queue PROVE LossesOf(e)'
  <2>1. CASE CatchOf(g) = "idle"
    BY <1>9, <1>10, <1>12, <2>1 DEF Throw, queue
  <2>2. CASE CatchOf(g) # "idle"
    <3>1. pc' = [pc EXCEPT ![g] = CatchOf(g)] /\ doc' = doc
      BY <1>12, <2>2 DEF Throw, Goto
    <3>2. CatchOf(g) # "insert"
      BY DEF CatchOf
    <3>. QED
      BY <1>11, <1>12, <3>1, <3>2 DEF TypeOK, queue
  <2>. QED
    BY <2>1, <2>2
<1>13. ASSUME NEW g \in Handlers, InsertChunks(g) PROVE LossesOf(e)'
  <2>1. CASE status[doc[g]] = "none"
    BY <1>12, <1>13, <2>1 DEF InsertChunks
  <2>2. CASE status[doc[g]] # "none"
    <3>1. /\ chunks' = [chunks EXCEPT ![doc[g]] = chunks[doc[g]] + 1]
          /\ pc' = [pc EXCEPT ![g] = "markReady"] /\ pc[g] = "insert" /\ doc' = doc
          /\ stalled' = stalled /\ owner' = owner
      BY <1>13, <2>2 DEF InsertChunks, Goto, queue
    <3>2. CASE e # doc[g]
      BY <1>11, <3>1, <3>2 DEF TypeOK
    <3>3. CASE e = doc[g]
      <4>1. Holders(e)' = Holders(e) /\ Inserting(e)' = Inserting(e) \ {g} /\ g \in Inserting(e)
        BY <3>1, <3>3 DEF Holders, Inserting, TypeOK
      <4>2. Cardinality(Inserting(e)') = Cardinality(Inserting(e)) - 1
        BY <1>0, <4>1, InsertingIsFew, FS_RemoveElement DEF LossesOf
      <4>3. chunks'[e] = chunks[e] + 1 /\ chunks[e] \in Nat /\ stalled[e] \in Nat
        BY <3>1, <3>3 DEF TypeOK
      <4>4. Cardinality(Inserting(e)) \in Nat
        BY <1>0, InsertingIsFew DEF LossesOf
      <4>. QED
        BY <1>0, <3>1, <4>1, <4>2, <4>3, <4>4 DEF LossesOf
    <3>. QED
      BY <3>2, <3>3
  <2>. QED
    BY <2>1, <2>2
<1>14. ASSUME NEW g \in Handlers, Load(g) \/ CallFails(g) \/ EmptyRuntimeDoc(g) PROVE LossesOf(e)'
  BY <1>11, <1>12, <1>14 DEF Load, CallFails, EmptyRuntimeDoc, Goto, TypeOK, database, queue
<1>15. ASSUME NEW g \in Handlers, Conclude(g) PROVE LossesOf(e)'
  <2>1. chunks' = chunks /\ stalled' = stalled /\ owner' = owner
    BY <1>15 DEF Conclude, queue
  <2>. QED
    BY <1>9, <1>10, <1>11, <1>15, <2>1 DEF Conclude, Goto, TypeOK
<1>16. ASSUME NEW g \in Handlers, Report(g) PROVE LossesOf(e)'
  <2>1. Rest(g) /\ chunks' = chunks /\ stalled' = stalled
    BY <1>16 DEF Report, database, queue
  <2>2. g \notin Holders(e) => owner'[e] = owner[e]
    BY <1>16 DEF Report, Holders, queue, TypeOK
  <2>. QED
    BY <1>9, <1>10, <2>1, <2>2
<1>17. ASSUME NEW g \in Handlers, Crash(g) PROVE LossesOf(e)'
  <2>1. Rest(g) /\ chunks' = chunks /\ stalled' = stalled
    BY <1>17 DEF Crash, database
  <2>2. g \notin Holders(e) => owner'[e] = owner[e]
    BY <1>17 DEF Crash, Holders, TypeOK, Holding
  <2>. QED
    BY <1>9, <1>10, <2>1, <2>2
<1>18. ASSUME NEW g \in Handlers, NEW c \in Corpora, CreateRuntimeCorpus(g, c) PROVE LossesOf(e)'
  BY <1>11, <1>18 DEF CreateRuntimeCorpus, Goto, TypeOK, queue
<1>19. ASSUME NEW g \in Handlers,
              \/ MarkDoc(g) \/ MarkCorpus(g) \/ ResolveRuntimeCorpus(g) \/ InsertRuntimeDoc(g)
              \/ MarkReady(g) \/ Summarize(g) \/ FailDoc(g) \/ FailCorpus(g)
       PROVE  LossesOf(e)'
  BY <1>11, <1>19 DEF MarkDoc, MarkCorpus, ResolveRuntimeCorpus, InsertRuntimeDoc, MarkReady,
     Summarize, FailDoc, FailCorpus, Goto, TypeOK, queue, database
<1>20. CASE UNCHANGED vars
  BY <1>1, <1>20 DEF vars, handler, queue, database, Holders, Inserting
<1>. HIDE DEF IngestionInv
<1>. QED
  BY <1>2, <1>3, <1>4, <1>5, <1>6, <1>7, <1>8, <1>13, <1>14, <1>15, <1>16, <1>17, <1>18, <1>19, <1>20
  DEF Next, Attempt

LEMMA IngestionInit == Init => IngestionInv
<1>. SUFFICES ASSUME Init PROVE IngestionInv
  OBVIOUS
<1>. USE IngestionAssumption DEF Init
<1>1. TypeOK
  BY DEF TypeOK, Points, CorpusStatuses
<1>2. Chances /\ Places /\ Requests /\ Holding
  BY DEF Chances, Places, Requests, Refused, Holding, Docs
<1>3. Exclusive /\ Agreed
  BY DEF Exclusive, Agreed, Docs
<1>4. \A d \in Docs : Holders(d) = {} /\ Inserting(d) = {}
  BY DEF Holders, Inserting, Docs
<1>5. Losses
  <2>. SUFFICES ASSUME NEW d \in Docs PROVE LossesOf(d)
    BY DEF Losses
  <2>1. IsFiniteSet({}) /\ Cardinality({}) = 0
    BY FS_EmptySet
  <2>2. Holders(d) = {} /\ Inserting(d) = {}
    BY <1>4
  <2>3. chunks[d] = 0 /\ stalled[d] = 0 /\ owner[d] = None
    OBVIOUS
  <2>. QED
    BY <2>1, <2>2, <2>3 DEF LossesOf
<1>. QED
  BY <1>1, <1>2, <1>3, <1>5 DEF IngestionInv

\* Whatever is uploaded or written by a node, and however handlers die, calls fail,
\* locks expire and documents are swept away, the parts above hold together.
THEOREM IngestionInvariant == Spec => []IngestionInv
<1>1. IngestionInv /\ [Next]_vars => IngestionInv'
  <2>. SUFFICES ASSUME IngestionInv, [Next]_vars PROVE IngestionInv'
    OBVIOUS
  <2>1. TypeOK /\ Chances /\ Places /\ Requests /\ Holding
    BY DEF IngestionInv
  <2>2. TypeOK' /\ Chances'
    BY <2>1, TypeStep, ChancesStep
  <2>3. Places' /\ Requests' /\ Holding'
    BY <2>1, PlacesStep, RequestsStep, HoldingStep
  <2>4. Exclusive' /\ Agreed' /\ Losses'
    BY ExclusiveStep, AgreedStep, LossesStep
  <2>. QED
    BY <2>2, <2>3, <2>4 DEF IngestionInv
<1>. QED
  BY <1>1, IngestionInit, PTL DEF Spec

\* A "ready" document has one set of its chunks while no lock expired under a living
\* holder, and never more sets than one for each loss of its lock and one.
THEOREM ReadyIsSearchableHolds ==
    Spec => []ReadyIsSearchable
<1>1. IngestionInv => ReadyIsSearchable
  <2>. SUFFICES ASSUME IngestionInv, NEW d \in Docs
                PROVE  /\ status[d] = "ready" /\ stalls = 0 => chunks[d] = 1
                       /\ chunks[d] <= 1 + stalled[d]
    BY DEF ReadyIsSearchable
  <2>1. LossesOf(d) /\ chunks[d] \in Nat /\ stalled[d] \in Nat
    BY DEF IngestionInv, Losses, TypeOK
  <2>2. Cardinality(Inserting(d)) \in Nat
    BY <2>1, InsertingIsFew DEF LossesOf
  <2>3. chunks[d] <= 1 + stalled[d]
    BY <2>1, <2>2 DEF LossesOf
  <2>. QED
    BY <2>3 DEF IngestionInv, Exclusive, Alone
<1>. QED
  BY <1>1, IngestionInvariant, PTL

\* A job reported completed has left its document "ready", and one given up without a
\* mishap "failed", also when a lock was lost and every holder has ended.
THEOREM JobAndDocumentAgreeHolds ==
    Spec => []JobAndDocumentAgree
<1>1. IngestionInv => JobAndDocumentAgree
  <2>. SUFFICES ASSUME IngestionInv, NEW d \in Uploads
                PROVE  /\ /\ job[d] = "completed" /\ ~Refused(d)
                          /\ stalls = 0 \/ (~InHand(d) /\ faults = 0 /\ crashes = 0)
                          => status[d] \in {"ready", "none"}
                       /\ job[d] = "failed" /\ faults + crashes + stalls = 0
                          => status[d] \in {"failed", "none"}
    BY DEF JobAndDocumentAgree
  <2>1. faults \in Nat /\ crashes \in Nat /\ stalls \in Nat /\ status[d] \in DocStatuses \cup {"none"}
    BY IngestionAssumption DEF IngestionInv, TypeOK, Docs
  <2>. QED
    BY <2>1 DEF IngestionInv, Exclusive, Agreed, Late, InHand, DocStatuses
<1>. QED
  BY <1>1, IngestionInvariant, PTL
==============================================================================
