------------------------------ MODULE Ingestion ------------------------------
(***************************************************************************)
(* How a document becomes chunks that a query can find.  There are two     *)
(* ways in:                                                                *)
(*                                                                         *)
(*   - an upload (knowledge.service.ts): the API inserts a "pending"       *)
(*     document and adds a job; the worker (knowledge-handler.ts) replaces *)
(*     the document's chunks, and the queue retries an attempt that threw; *)
(*   - a knowledge-ingest node (handler.ts): the execution's own worker    *)
(*     finds or creates a corpus, inserts a "processing" document and      *)
(*     writes its chunks, once.                                            *)
(*                                                                         *)
(* Every step is one statement in a transaction of its own, and the status *)
(* of the corpus is read in one and written in the next.  The retention    *)
(* sweep may delete a document, and with it its chunks, at any moment.     *)
(* The queue is external: it hands a job out under a lock, and hands it    *)
(* out again when the lock expires, be the holder dead or only slow.       *)
(***************************************************************************)
EXTENDS Integers

CONSTANTS
    Uploads,        \* documents that come through the API
    RuntimeDocs,    \* documents that come from knowledge-ingest nodes
    Corpora,        \* ids of corpora of one user and scope
    Handlers,       \* job slots of all workers together
    None,           \* no corpus, no document, no handler
    MaxAttempts,    \* "attempts" of the queue's default job options
    MaxStalled,     \* maxStalledCount of the BullMQ worker
    MaxFaults,      \* bound: calls that throw, requests cut off
    MaxCrashes,     \* bound: handlers that die in the middle of a job
    MaxStalls,      \* bound: locks that expire while the holder is alive
    MaxSweeps       \* bound: documents deleted by the retention sweep

ASSUME IngestionAssumption ==
    /\ Uploads \cap RuntimeDocs = {}
    /\ None \notin Uploads \cup RuntimeDocs \cup Corpora \cup Handlers
    /\ MaxAttempts \in Nat \ {0} /\ MaxStalled \in Nat
    /\ {MaxFaults, MaxCrashes, MaxStalls, MaxSweeps} \subseteq Nat

Docs == Uploads \cup RuntimeDocs

VARIABLES
    (* the database *)
    corpus,         \* status of a corpus, or "none" when there is no row
    runtimeMade,    \* the corpora an execution created
    home,           \* the corpus of a document
    status,         \* status of a document, or "none" when there is no row
    blank,          \* whether its text is empty after normalization
    chunks,         \* how many complete sets of its chunks are stored
    (* a request of the API, the queue, the handlers *)
    api,            \* how far the request that brings the document has come
    job, attemptsMade, stalled, owner,
    pc, doc, place, seen, caught,
    (* what went wrong so far *)
    faults, crashes, stalls, sweeps

database == <<corpus, runtimeMade, home, status, blank, chunks>>
queue    == <<job, attemptsMade, stalled, owner>>
handler  == <<pc, doc, place, seen, caught>>
mishaps  == <<faults, crashes, stalls, sweeps>>
vars == <<database, api, queue, handler, mishaps>>

CorpusStatuses == {"ingesting", "ready", "failed"}
DocStatuses == {"pending", "processing", "ready", "failed"}
Points == {"idle", "markDoc", "markCorpus", "load", "resolve", "create", "insertDoc",
           "delete", "insert", "markReady", "summarize", "conclude",
           "failDoc", "failCorpus", "ack", "nack"}

TypeOK ==
    /\ corpus \in [Corpora -> CorpusStatuses \cup {"none"}]
    /\ runtimeMade \subseteq Corpora
    /\ home \in [Docs -> Corpora \cup {None}]
    /\ status \in [Docs -> DocStatuses \cup {"none"}]
    /\ blank \in [Docs -> BOOLEAN]
    /\ chunks \in [Docs -> Nat]
    /\ api \in [Docs -> {"new", "enqueue", "markFailed", "refused", "done"}]
    /\ job \in [Docs -> {"none", "waiting", "active", "completed", "failed"}]
    /\ attemptsMade \in [Docs -> 0..MaxAttempts]
    /\ stalled \in [Docs -> 0..(MaxStalled + 1)]
    /\ owner \in [Docs -> Handlers \cup {None}]
    /\ pc \in [Handlers -> Points]
    /\ doc \in [Handlers -> Docs \cup {None}]
    /\ place \in [Handlers -> Corpora \cup {None}]
    /\ seen \in [Handlers -> CorpusStatuses \cup {"none"}]
    /\ caught \in [Handlers -> BOOLEAN]
    /\ faults \in 0..MaxFaults /\ crashes \in 0..MaxCrashes
    /\ stalls \in 0..MaxStalls /\ sweeps \in 0..MaxSweeps

Init ==
    /\ corpus = [c \in Corpora |-> "none"] /\ runtimeMade = {}
    /\ home = [d \in Docs |-> None] /\ status = [d \in Docs |-> "none"]
    /\ blank = [d \in Docs |-> FALSE] /\ chunks = [d \in Docs |-> 0]
    /\ api = [d \in Docs |-> "new"]
    /\ job = [d \in Docs |-> "none"] /\ attemptsMade = [d \in Docs |-> 0]
    /\ stalled = [d \in Docs |-> 0] /\ owner = [d \in Docs |-> None]
    /\ pc = [h \in Handlers |-> "idle"] /\ doc = [h \in Handlers |-> None]
    /\ place = [h \in Handlers |-> None] /\ seen = [h \in Handlers |-> "none"]
    /\ caught = [h \in Handlers |-> FALSE]
    /\ faults = 0 /\ crashes = 0 /\ stalls = 0 /\ sweeps = 0

Fault == faults < MaxFaults /\ faults' = faults + 1 /\ UNCHANGED <<crashes, stalls, sweeps>>

Existing == {c \in Corpora : corpus[c] # "none"}

-----------------------------------------------------------------------------
(* The API. *)

CreateCorpus(c) ==
    /\ corpus[c] = "none"
    /\ corpus' = [corpus EXCEPT ![c] = "ingesting"]
    /\ UNCHANGED <<runtimeMade, home, status, blank, chunks, api, queue, handler, mishaps>>

(* ingestDocument: the row first, then the job. *)
Upload(d, c, empty) ==
    /\ d \in Uploads /\ api[d] = "new" /\ c \in Existing
    /\ home' = [home EXCEPT ![d] = c]
    /\ status' = [status EXCEPT ![d] = "pending"]
    /\ blank' = [blank EXCEPT ![d] = empty]
    /\ api' = [api EXCEPT ![d] = "enqueue"]
    /\ UNCHANGED <<corpus, runtimeMade, chunks, queue, handler, mishaps>>

(* queue.add may throw with the job lost, or after Redis has taken it.     *)
Enqueue(d) ==
    /\ api[d] = "enqueue"
    /\ \/ /\ job' = [job EXCEPT ![d] = "waiting"]
          /\ api' = [api EXCEPT ![d] = "done"]
          /\ UNCHANGED mishaps
       \/ /\ Fault
          /\ job' \in {job, [job EXCEPT ![d] = "waiting"]}
          /\ api' = [api EXCEPT ![d] = "markFailed"]
    /\ UNCHANGED <<database, attemptsMade, stalled, owner, handler>>

(* Writes a status where the row is still there: an UPDATE of no row is no error. *)
SetStatus(d, s) == status' = IF status[d] = "none" THEN status ELSE [status EXCEPT ![d] = s]

(* The catch of ingestDocument says nothing to the corpus, and does not    *)
(* ask whether the job is at work on the document.                         *)
MarkUploadFailed(d) ==
    /\ api[d] = "markFailed"
    /\ api' = [api EXCEPT ![d] = "refused"]
    /\ \/ SetStatus(d, "failed") /\ UNCHANGED mishaps
       \/ Fault /\ UNCHANGED status
    /\ UNCHANGED <<corpus, runtimeMade, home, blank, chunks, queue, handler>>

(* The API dies between two of its calls. *)
ApiDies(d) ==
    /\ api[d] \in {"enqueue", "markFailed"} /\ Fault
    /\ api' = [api EXCEPT ![d] = "done"]
    /\ UNCHANGED <<database, queue, handler>>

(* runRetentionSweep deletes old documents; their chunks go with them. *)
Sweep(d) ==
    /\ status[d] # "none" /\ sweeps < MaxSweeps
    /\ sweeps' = sweeps + 1
    /\ status' = [status EXCEPT ![d] = "none"]
    /\ chunks' = [chunks EXCEPT ![d] = 0]
    /\ UNCHANGED <<corpus, runtimeMade, home, blank, api, queue, handler, faults, crashes, stalls>>

-----------------------------------------------------------------------------
(* The queue. *)

Take(h, d) ==
    /\ pc[h] = "idle" /\ job[d] = "waiting"
    /\ job' = [job EXCEPT ![d] = "active"]
    /\ owner' = [owner EXCEPT ![d] = h]
    /\ pc' = [pc EXCEPT ![h] = "markDoc"]
    /\ doc' = [doc EXCEPT ![h] = d]
    /\ place' = [place EXCEPT ![h] = home[d]]
    /\ UNCHANGED <<database, api, attemptsMade, stalled, seen, caught, mishaps>>

(* What is left of a handler that is done or dead. *)
Rest(h) ==
    /\ pc' = [pc EXCEPT ![h] = "idle"]
    /\ doc' = [doc EXCEPT ![h] = None]
    /\ place' = [place EXCEPT ![h] = None]
    /\ seen' = [seen EXCEPT ![h] = "none"]
    /\ caught' = [caught EXCEPT ![h] = FALSE]

(* The result of an attempt counts only while the handler has the lock. *)
Report(h) ==
    /\ pc[h] \in {"ack", "nack"}
    /\ LET d == doc[h] IN
       IF owner[d] # h THEN UNCHANGED queue
       ELSE /\ owner' = [owner EXCEPT ![d] = None]
            /\ UNCHANGED stalled
            /\ IF pc[h] = "ack"
               THEN job' = [job EXCEPT ![d] = "completed"] /\ UNCHANGED attemptsMade
               ELSE /\ attemptsMade' = [attemptsMade EXCEPT ![d] = @ + 1]
                    /\ job' = [job EXCEPT ![d] =
                                  IF attemptsMade[d] + 1 < MaxAttempts THEN "waiting" ELSE "failed"]
    /\ Rest(h)
    /\ UNCHANGED <<database, api, mishaps>>

Crash(h) ==
    /\ pc[h] # "idle" /\ crashes < MaxCrashes
    /\ crashes' = crashes + 1
    /\ owner' = [d \in Docs |-> IF owner[d] = h THEN None ELSE owner[d]]
    /\ Rest(h)
    /\ UNCHANGED <<database, api, job, attemptsMade, stalled, faults, stalls, sweeps>>

(* The lock of a job is gone: its holder has died, or is only slow. *)
StalledBack(d) ==
    /\ job[d] = "active"
    /\ \/ owner[d] = None /\ UNCHANGED mishaps
       \/ /\ owner[d] # None /\ stalls < MaxStalls
          /\ stalls' = stalls + 1 /\ UNCHANGED <<faults, crashes, sweeps>>
    /\ owner' = [owner EXCEPT ![d] = None]
    /\ stalled' = [stalled EXCEPT ![d] = @ + 1]
    /\ job' = [job EXCEPT ![d] = IF stalled[d] < MaxStalled THEN "waiting" ELSE "failed"]
    /\ UNCHANGED <<database, api, attemptsMade, handler>>

-----------------------------------------------------------------------------
(* The steps of an attempt.  An exception goes to the catch of the handler,*)
(* or out of it where no catch is around.                                  *)

Goto(h, next) == pc' = [pc EXCEPT ![h] = next]

CatchOf(h) ==
    IF pc[h] \in {"markDoc", "markCorpus", "resolve", "create", "insertDoc"} \/ caught[h]
    THEN IF doc[h] \in Uploads THEN "nack" ELSE "idle"
    ELSE "failDoc"

Throw(h) ==
    IF CatchOf(h) = "idle" THEN Rest(h)
    ELSE /\ Goto(h, CatchOf(h))
         /\ caught' = [caught EXCEPT ![h] = (CatchOf(h) = "failDoc")]
         /\ UNCHANGED <<doc, place, seen>>

(* A call to the database may throw. *)
CallFails(h) ==
    /\ pc[h] \notin {"idle", "ack", "nack"}
    /\ Fault /\ Throw(h)
    /\ UNCHANGED <<database, api, queue>>

(* The two marks in front of the try. *)
MarkDoc(h) ==
    /\ pc[h] = "markDoc"
    /\ SetStatus(doc[h], "processing")
    /\ Goto(h, "markCorpus")
    /\ UNCHANGED <<corpus, runtimeMade, home, blank, chunks, api, queue, doc, place, seen, caught, mishaps>>

MarkCorpus(h) ==
    /\ pc[h] = "markCorpus"
    /\ corpus' = [corpus EXCEPT ![place[h]] = "ingesting"]
    /\ Goto(h, "load")
    /\ UNCHANGED <<runtimeMade, home, status, blank, chunks, api, queue, doc, place, seen, caught, mishaps>>

\* Variant: an empty document is nothing to report.
LoadQuietly(h) ==
    /\ pc[h] = "load"
    /\ Goto(h, IF status[doc[h]] = "none" \/ blank[doc[h]] THEN "ack" ELSE "delete")
    /\ UNCHANGED <<database, api, queue, doc, place, seen, caught, mishaps>>
(* The document must be there and have text.  Embedding falls back to a    *)
(* deterministic vector and does not fail.                                 *)
Load(h) ==
    /\ pc[h] = "load"
    /\ IF status[doc[h]] = "none" \/ blank[doc[h]]
       THEN Throw(h)
       ELSE Goto(h, "delete") /\ UNCHANGED <<doc, place, seen, caught>>
    /\ UNCHANGED <<database, api, queue, mishaps>>

\* Variant: the chunks of an earlier attempt stay.
KeepChunks(h) ==
    /\ pc[h] = "delete" /\ Goto(h, "insert")
    /\ UNCHANGED <<database, api, queue, doc, place, seen, caught, mishaps>>
DeleteChunks(h) ==
    /\ pc[h] = "delete"
    /\ chunks' = [chunks EXCEPT ![doc[h]] = 0]
    /\ Goto(h, "insert")
    /\ UNCHANGED <<corpus, runtimeMade, home, status, blank, api, queue, doc, place, seen, caught, mishaps>>

(* All chunks in one INSERT; a foreign key wants the document. *)
InsertChunks(h) ==
    /\ pc[h] = "insert"
    /\ IF status[doc[h]] = "none"
       THEN Throw(h) /\ UNCHANGED chunks
       ELSE /\ chunks' = [chunks EXCEPT ![doc[h]] = @ + 1]
            /\ Goto(h, "markReady") /\ UNCHANGED <<doc, place, seen, caught>>
    /\ UNCHANGED <<corpus, runtimeMade, home, status, blank, api, queue, mishaps>>

MarkReady(h) ==
    /\ pc[h] = "markReady"
    /\ SetStatus(doc[h], "ready")
    /\ Goto(h, "summarize")
    /\ UNCHANGED <<corpus, runtimeMade, home, blank, chunks, api, queue, doc, place, seen, caught, mishaps>>

(* What the documents of a corpus say about it. *)
Summary(c) ==
    LET found == {status[d] : d \in {x \in Docs : home[x] = c}}
    IN  IF "failed" \in found THEN "failed"
        ELSE IF found \cap {"pending", "processing"} # {} THEN "ingesting"
        ELSE "ready"

(* updateCorpusStatus: a SELECT, and an UPDATE with what it found. *)
Summarize(h) ==
    /\ pc[h] = "summarize"
    /\ seen' = [seen EXCEPT ![h] = Summary(place[h])]
    /\ Goto(h, "conclude")
    /\ UNCHANGED <<database, api, queue, doc, place, caught, mishaps>>

Conclude(h) ==
    /\ pc[h] = "conclude"
    /\ corpus' = [corpus EXCEPT ![place[h]] = seen[h]]
    /\ IF doc[h] \in Uploads
       THEN Goto(h, "ack") /\ UNCHANGED <<doc, place, seen, caught>>
       ELSE Rest(h)
    /\ UNCHANGED <<runtimeMade, home, status, blank, chunks, api, queue, mishaps>>

(* The catch: the job writes "failed" to the corpus, the node sums up.     *)
FailDoc(h) ==
    /\ pc[h] = "failDoc"
    /\ SetStatus(doc[h], "failed")
    /\ Goto(h, IF doc[h] \in Uploads THEN "failCorpus" ELSE "summarize")
    /\ UNCHANGED <<corpus, runtimeMade, home, blank, chunks, api, queue, doc, place, seen, caught, mishaps>>

\* Variant: the catch keeps the exception to itself.
FailWithoutRethrow(h) ==
    /\ pc[h] = "failCorpus" /\ Goto(h, "ack")
    /\ corpus' = [corpus EXCEPT ![place[h]] = "failed"]
    /\ UNCHANGED <<runtimeMade, home, status, blank, chunks, api, queue, doc, place, seen, caught, mishaps>>
FailCorpus(h) ==
    /\ pc[h] = "failCorpus"
    /\ corpus' = [corpus EXCEPT ![place[h]] = "failed"]
    /\ Goto(h, "nack")
    /\ UNCHANGED <<runtimeMade, home, status, blank, chunks, api, queue, doc, place, seen, caught, mishaps>>

-----------------------------------------------------------------------------
(* A knowledge-ingest node: where does the document go, then the row.      *)

BeginRuntime(h, d) ==
    /\ pc[h] = "idle" /\ d \in RuntimeDocs /\ api[d] = "new"
    /\ api' = [api EXCEPT ![d] = "done"]
    /\ Goto(h, "resolve")
    /\ doc' = [doc EXCEPT ![h] = d]
    /\ UNCHANGED <<database, queue, place, seen, caught, mishaps>>

(* The corpus last updated, of which this model knows only that it exists. *)
ResolveRuntimeCorpus(h) ==
    /\ pc[h] = "resolve"
    /\ \/ Existing = {} /\ Goto(h, "create") /\ UNCHANGED place
       \/ \E c \in Existing : place' = [place EXCEPT ![h] = c] /\ Goto(h, "insertDoc")
    /\ UNCHANGED <<database, api, queue, doc, seen, caught, mishaps>>

CreateRuntimeCorpus(h, c) ==
    /\ pc[h] = "create" /\ corpus[c] = "none"
    /\ corpus' = [corpus EXCEPT ![c] = "ingesting"]
    /\ runtimeMade' = runtimeMade \cup {c}
    /\ place' = [place EXCEPT ![h] = c]
    /\ Goto(h, "insertDoc")
    /\ UNCHANGED <<home, status, blank, chunks, api, queue, doc, seen, caught, mishaps>>

(* An empty text is found out here, outside the try: no row comes of it,   *)
(* and the corpus stays as it was found or created.                        *)
EmptyRuntimeDoc(h) ==
    /\ pc[h] = "insertDoc" /\ Throw(h)
    /\ UNCHANGED <<database, api, queue, mishaps>>

InsertRuntimeDoc(h) ==
    /\ pc[h] = "insertDoc"
    /\ home' = [home EXCEPT ![doc[h]] = place[h]]
    /\ status' = [status EXCEPT ![doc[h]] = "processing"]
    /\ Goto(h, "delete")
    /\ UNCHANGED <<corpus, runtimeMade, blank, chunks, api, queue, doc, place, seen, caught, mishaps>>

Attempt(h) ==
    \/ MarkDoc(h) \/ MarkCorpus(h) \/ Load(h)
    \/ ResolveRuntimeCorpus(h) \/ EmptyRuntimeDoc(h) \/ InsertRuntimeDoc(h)
    \/ \E c \in Corpora : CreateRuntimeCorpus(h, c)
    \/ DeleteChunks(h) \/ InsertChunks(h) \/ MarkReady(h)
    \/ Summarize(h) \/ Conclude(h) \/ FailDoc(h) \/ FailCorpus(h)
    \/ Report(h)

Next ==
    \/ \E c \in Corpora : CreateCorpus(c)
    \/ \E d \in Docs, c \in Corpora, empty \in BOOLEAN : Upload(d, c, empty)
    \/ \E d \in Docs : Enqueue(d) \/ MarkUploadFailed(d) \/ ApiDies(d)
    \/ \E d \in Docs : Sweep(d) \/ StalledBack(d)
    \/ \E h \in Handlers, d \in Docs : Take(h, d) \/ BeginRuntime(h, d)
    \/ \E h \in Handlers : Attempt(h) \/ CallFails(h) \/ Crash(h)

Spec == Init /\ [][Next]_vars

(* The API goes on with a request it has begun, a free slot takes a waiting*)
(* job, a live handler goes on, and an expired lock is noticed.            *)
FairSpec ==
    /\ Spec
    /\ \A d \in Docs :
          /\ WF_vars(Enqueue(d)) /\ WF_vars(MarkUploadFailed(d))
          /\ SF_vars(\E h \in Handlers : Take(h, d))
          /\ WF_vars(owner[d] = None /\ StalledBack(d))
    /\ \A h \in Handlers : WF_vars(Attempt(h))
=============================================================================
