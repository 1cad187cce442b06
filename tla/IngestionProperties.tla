------------------------- MODULE IngestionProperties -------------------------
(* What the ingestion of documents promises.                               *)
EXTENDS Ingestion

InHand(d) == \E h \in Handlers : doc[h] = d

(* A "ready" document has its chunks, and has them once: an attempt that    *)
(* follows another, that threw or died between any two statements,         *)
(* replaces what it left.  (knowledge-handler.ts:104-130.)  A lock that    *)
(* expires under a living holder may double them, at most once per loss.   *)
ReadyIsSearchable ==
    \A d \in Docs :
        /\ status[d] = "ready" /\ stalls = 0 => chunks[d] = 1
        /\ chunks[d] <= 1 + stalled[d]

(* The request that brought the document caught an exception of queue.add, *)
(* and has said "failed".                                                  *)
Refused(d) == api[d] = "refused"

(* The queue and the database agree: a job reported completed has left its *)
(* document "ready" for good, and one given up without a mishap has left   *)
(* it "failed"; only the retention sweep takes a document away.  Where the *)
(* lock was lost they agree again when the slow holder, too, has ended.    *)
(* Where queue.add threw although Redis had taken the job they need not:   *)
(* the catch of the request writes "failed" at any time.                   *)
JobAndDocumentAgree ==
    \A d \in Uploads :
        /\ /\ job[d] = "completed" /\ ~Refused(d)
           /\ stalls = 0 \/ (~InHand(d) /\ faults = 0 /\ crashes = 0)
           => status[d] \in {"ready", "none"}
        /\ job[d] = "failed" /\ faults + crashes + stalls = 0 => status[d] \in {"failed", "none"}

(* Nobody works on the document any more and its job is over, but an end   *)
(* that no code hears of came to pass: the queue gave the job up because   *)
(* its lock was lost maxStalledCount times and once more, or a handler     *)
(* that had lost its lock died behind its successor's back, after it had   *)
(* marked the document "processing" again.                                 *)
LeftBehind(d) ==
    /\ job[d] \in {"completed", "failed"} /\ ~InHand(d)
    /\ stalled[d] > MaxStalled \/ (stalls > 0 /\ crashes > 0)

(* An uploaded document comes to "ready" or "failed", or is deleted, and    *)
(* does so again whenever an attempt has marked it "processing": although  *)
(* a handler dies on it, or its lock expires under a slow one, or the      *)
(* sweep interferes, the queue hands its job out again.  Only a call that  *)
(* throws, or one of the two ends above, leaves it behind.                 *)
EachDocumentSettles ==
    \A d \in Uploads :
        status[d] \in {"pending", "processing"} ~>
            status[d] \in {"ready", "failed", "none"} \/ faults > 0 \/ LeftBehind(d)
=============================================================================
