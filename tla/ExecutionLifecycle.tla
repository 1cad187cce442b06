------------------------- MODULE ExecutionLifecycle --------------------------
(***************************************************************************)
(* What a client that reads the row of an execution can rely on, with the  *)
(* programs that write it left out.  An execution is "unqueued" until its  *)
(* job is added, "live" while the queue or a handler may still act on it,  *)
(* and "over" for good after that.                                         *)
(*                                                                         *)
(* The promises are few, because every write of the row is unconditional:  *)
(* an id is used once; only a live execution runs or ends; none ends that  *)
(* was never started; and when it is over only a late stop() or a deletion *)
(* changes the row.                                                        *)
(***************************************************************************)
CONSTANT Execs

VARIABLES row, stage, born

lifeVars == <<row, stage, born>>

Init ==
    /\ row = [e \in Execs |-> "none"]
    /\ stage = [e \in Execs |-> "unqueued"]
    /\ born = [e \in Execs |-> FALSE]

Create(e) ==
    /\ ~born[e]
    /\ row' = [row EXCEPT ![e] = "pending"]
    /\ born' = [born EXCEPT ![e] = TRUE]
    /\ UNCHANGED stage

Enqueue(e) ==
    /\ stage[e] = "unqueued"
    /\ born[e]
    /\ stage' = [stage EXCEPT ![e] = "live"]
    /\ UNCHANGED <<row, born>>

Start(e) ==
    /\ stage[e] = "live"
    /\ row[e] # "none"
    /\ row' = [row EXCEPT ![e] = "running"]
    /\ UNCHANGED <<stage, born>>

End(e) ==
    /\ stage[e] = "live"
    /\ row[e] \notin {"none", "pending"}
    /\ \E result \in {"completed", "failed"} : row' = [row EXCEPT ![e] = result]
    /\ UNCHANGED <<stage, born>>

Cancel(e) ==
    /\ row[e] # "none"
    /\ row' = [row EXCEPT ![e] = "canceled"]
    /\ UNCHANGED <<stage, born>>

Delete(e) ==
    /\ row' = [row EXCEPT ![e] = "none"]
    /\ UNCHANGED <<stage, born>>

Leave(e) ==
    /\ stage[e] = "live"
    /\ stage' = [stage EXCEPT ![e] = "over"]
    /\ UNCHANGED <<row, born>>

Next ==
    \E e \in Execs :
        \/ Create(e) \/ Enqueue(e) \/ Start(e) \/ End(e)
        \/ Cancel(e) \/ Delete(e) \/ Leave(e)

Spec == Init /\ [][Next]_lifeVars
==============================================================================
