----------------------------- MODULE MCScheduler -----------------------------
EXTENDS Scheduler, TLC
CONSTANTS w1, w2, w3

Symmetry == Permutations(Checks)

(* An interval of two periods, the shortest ScheduleTriggerNode allows; a   *)
(* cron expression for every minute; and the same with an interval of 0    *)
(* beside it, which counts.                                                *)
MCConfig ==
    w1 :> [intervalMs |-> 6, cron |-> NoCron] @@
    w2 :> [intervalMs |-> None, cron |-> Cron(Step(1), Star)] @@
    w3 :> [intervalMs |-> 0, cron |-> Cron(Star, Star)]
=============================================================================
