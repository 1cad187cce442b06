------------------------------ MODULE Scheduler ------------------------------
(***************************************************************************)
(* scheduler.service.ts: every Period the API lists the active workflows   *)
(* and triggers those whose interval has passed since their last run,      *)
(* which a map in memory remembers.                                        *)
(*                                                                         *)
(* setInterval does not wait for the check before: a check whose triggers  *)
(* take long is still at work when the next begins, and reads the map      *)
(* before the first has written it.  A check takes the time once, at its   *)
(* beginning.  A restart of the API forgets the map and the checks.        *)
(***************************************************************************)
EXTENDS Integers, FiniteSets

CONSTANTS
    Workflows,
    Config,         \* the schedule-trigger of each workflow: [intervalMs, cron]
    Minute,         \* units of the model's time in a minute
    Period,         \* CHECK_INTERVAL
    First,          \* delay of the initial check
    Checks,         \* checks that may be at work at once
    None,           \* no workflow; no last run; no intervalMs
    MaxTime,        \* bound: the clock
    MaxSlow,        \* bound: the time checks are at work
    MaxFailures,    \* bound: triggers and queries that throw
    MaxRestarts,    \* bound: restarts of the API
    MaxToggles      \* bound: workflows activated or deactivated

-----------------------------------------------------------------------------
(* parseCronToInterval, in minutes.  A field of the expression is "*",     *)
(* "*/n" or a number; what is not understood runs hourly, and what has not *)
(* the five fields of an expression (no expression has none) never.        *)

Star == [kind |-> "star", n |-> 0]
Step(n) == [kind |-> "step", n |-> n]
Num(n) == [kind |-> "num", n |-> n]

NoCron == [fields |-> 0]
Cron(minute, hour) == [fields |-> 5, minute |-> minute, hour |-> hour]

CronInterval(cron) ==
    IF cron.fields < 5 THEN 0
    ELSE IF cron.minute = Star /\ cron.hour = Star THEN 1
    ELSE IF cron.minute.kind = "step" /\ cron.hour = Star /\ cron.minute.n > 0 THEN cron.minute.n
    ELSE IF cron.minute.kind = "num" /\ cron.hour = Star THEN 60
    ELSE IF cron.minute.kind = "num" /\ cron.hour.kind = "num" THEN 24 * 60
    ELSE 60

(* An interval that is given counts, and be it 0; only where there is none *)
(* does the cron expression.                                               *)
EffectiveInterval(w) ==
    IF Config[w].intervalMs # None THEN Config[w].intervalMs
    ELSE Minute * CronInterval(Config[w].cron)

(* The others are passed over.                                             *)
Timed == {w \in Workflows : EffectiveInterval(w) > 0}

ASSUME SchedulerAssumption ==
    /\ Period \in Nat \ {0} /\ First \in 0..Period
    /\ \A w \in Workflows : EffectiveInterval(w) \in Nat
    /\ None \notin Workflows \cup Nat
    /\ {MaxTime, MaxSlow, MaxFailures, MaxRestarts, MaxToggles} \subseteq Nat

-----------------------------------------------------------------------------
VARIABLES
    clock,
    active,         \* workflows whose row says "active"
    booted,         \* when this process started
    lastRunAt,      \* scheduleMap; None where the workflow is not in it
    pc,             \* of each check: "off", "read", "scan" or "trigger"
    now,            \* the time a check took
    todo,           \* the workflows a check still has to look at
    current,        \* the workflow it is triggering
    done,           \* the uptime at which the last timer fired
    (* history, read by properties only *)
    upSince,        \* since when a workflow could be triggered
    overlapped,     \* whether a check began while another was at work
    slow,           \* how long checks were at work
    failures, restarts, toggles

check == <<pc, now, todo, current>>
history == <<upSince, overlapped, slow, failures, restarts, toggles>>
vars == <<clock, active, booted, lastRunAt, check, done, history>>

TypeOK ==
    /\ clock \in 0..MaxTime /\ booted \in 0..clock
    /\ active \subseteq Workflows
    /\ lastRunAt \in [Workflows -> 0..clock \cup {None}]
    /\ pc \in [Checks -> {"off", "read", "scan", "trigger"}]
    /\ now \in [Checks -> 0..clock]
    /\ todo \in [Checks -> SUBSET Workflows]
    /\ current \in [Checks -> Workflows \cup {None}]
    /\ done \in -1..MaxTime
    /\ upSince \in [Workflows -> 0..clock]
    /\ overlapped \in BOOLEAN /\ slow \in 0..MaxSlow
    /\ failures \in 0..MaxFailures /\ restarts \in 0..MaxRestarts
    /\ toggles \in 0..MaxToggles

Idle == /\ pc = [k \in Checks |-> "off"] /\ now = [k \in Checks |-> 0]
        /\ todo = [k \in Checks |-> {}] /\ current = [k \in Checks |-> None]

Init ==
    /\ clock = 0 /\ booted = 0 /\ active = Workflows /\ done = -1
    /\ lastRunAt = [w \in Workflows |-> None]
    /\ Idle
    /\ upSince = [w \in Workflows |-> 0]
    /\ overlapped = FALSE /\ slow = 0 /\ failures = 0 /\ restarts = 0 /\ toggles = 0

(* Whether a timer is due: the initial check, or a multiple of the period. *)
Uptime == clock - booted
TimerDue == (Uptime = First \/ (Uptime > 0 /\ Uptime % Period = 0)) /\ Uptime # done

Working == {k \in Checks : pc[k] # "off"}

StartCheck(k) ==
    /\ TimerDue /\ pc[k] = "off"
    /\ done' = Uptime
    /\ pc' = [pc EXCEPT ![k] = "read"]
    /\ overlapped' = (overlapped \/ Working # {})
    /\ UNCHANGED <<clock, active, booted, lastRunAt, now, todo, current, upSince, slow,
                   failures, restarts, toggles>>

(* The time is taken after the workflows are listed. *)
ListWorkflows(k) ==
    /\ pc[k] = "read"
    /\ \/ /\ pc' = [pc EXCEPT ![k] = "scan"]
          /\ now' = [now EXCEPT ![k] = clock]
          /\ todo' = [todo EXCEPT ![k] = active]
          /\ UNCHANGED failures
       \/ /\ failures < MaxFailures /\ failures' = failures + 1
          /\ pc' = [pc EXCEPT ![k] = "off"]
          /\ UNCHANGED <<now, todo>>
    /\ UNCHANGED <<clock, active, booted, lastRunAt, current, done, upSince, overlapped, slow,
                   restarts, toggles>>

\* Variant: a workflow waits for longer than its interval.
DueLate(k, w) ==
    w \in Timed /\ (lastRunAt[w] = None \/ now[k] - lastRunAt[w] >= EffectiveInterval(w) + Period)
\* Variant: as long as the check is the first to see it.
DueEarly(k, w) ==
    w \in Timed /\ (lastRunAt[w] = None \/ now[k] - lastRunAt[w] + Period >= EffectiveInterval(w))
Due(k, w) ==
    w \in Timed /\ (lastRunAt[w] = None \/ now[k] - lastRunAt[w] >= EffectiveInterval(w))

(* One workflow after the other, in the order the database lists them. *)
Visit(k, w) ==
    /\ pc[k] = "scan" /\ w \in todo[k]
    /\ todo' = [todo EXCEPT ![k] = @ \ {w}]
    /\ IF Due(k, w)
       THEN /\ pc' = [pc EXCEPT ![k] = "trigger"]
            /\ current' = [current EXCEPT ![k] = w]
       ELSE UNCHANGED <<pc, current>>
    /\ UNCHANGED <<clock, active, booted, lastRunAt, now, done, history>>

\* Variant: a trigger that throws ends the check.
TriggeredOrStop(k) ==
    /\ pc[k] = "trigger"
    /\ current' = [current EXCEPT ![k] = None]
    /\ \/ /\ lastRunAt' = [lastRunAt EXCEPT ![current[k]] = now[k]]
          /\ pc' = [pc EXCEPT ![k] = "scan"] /\ UNCHANGED <<failures, todo>>
       \/ /\ failures < MaxFailures /\ failures' = failures + 1
          /\ pc' = [pc EXCEPT ![k] = "off"] /\ todo' = [todo EXCEPT ![k] = {}]
          /\ UNCHANGED lastRunAt
    /\ UNCHANGED <<clock, active, booted, now, done, upSince, overlapped, slow, restarts, toggles>>
(* The map is written once the trigger was answered, with the time the     *)
(* check began; a trigger that throws is tried again by the next check.    *)
Triggered(k) ==
    /\ pc[k] = "trigger"
    /\ pc' = [pc EXCEPT ![k] = "scan"]
    /\ current' = [current EXCEPT ![k] = None]
    /\ \/ lastRunAt' = [lastRunAt EXCEPT ![current[k]] = now[k]] /\ UNCHANGED failures
       \/ failures < MaxFailures /\ failures' = failures + 1 /\ UNCHANGED lastRunAt
    /\ UNCHANGED <<clock, active, booted, now, todo, done, upSince, overlapped, slow, restarts, toggles>>

EndCheck(k) ==
    /\ pc[k] = "scan" /\ todo[k] = {}
    /\ pc' = [pc EXCEPT ![k] = "off"]
    /\ now' = [now EXCEPT ![k] = 0]
    /\ UNCHANGED <<clock, active, booted, lastRunAt, todo, current, done, history>>

-----------------------------------------------------------------------------
(* What goes on around the checks. *)

Tick ==
    /\ clock < MaxTime /\ ~TimerDue
    /\ clock' = clock + 1
    /\ IF Working = {} THEN UNCHANGED slow ELSE slow < MaxSlow /\ slow' = slow + 1
    /\ UNCHANGED <<active, booted, lastRunAt, check, done, upSince, overlapped, failures, restarts, toggles>>

(* The workflow's owner changes its status. *)
Toggle(w) ==
    /\ toggles < MaxToggles /\ toggles' = toggles + 1
    /\ active' = IF w \in active THEN active \ {w} ELSE active \cup {w}
    /\ upSince' = [upSince EXCEPT ![w] = clock]
    /\ UNCHANGED <<clock, booted, lastRunAt, check, done, overlapped, slow, failures, restarts>>

Restart ==
    /\ restarts < MaxRestarts /\ restarts' = restarts + 1
    /\ booted' = clock /\ done' = -1
    /\ lastRunAt' = [w \in Workflows |-> None]
    /\ upSince' = [w \in Workflows |-> clock]
    /\ pc' = [k \in Checks |-> "off"] /\ now' = [k \in Checks |-> 0]
    /\ todo' = [k \in Checks |-> {}] /\ current' = [k \in Checks |-> None]
    /\ UNCHANGED <<clock, active, overlapped, slow, failures, toggles>>

Next ==
    \/ Tick \/ Restart
    \/ \E w \in Workflows : Toggle(w)
    \/ \E k \in Checks : StartCheck(k) \/ ListWorkflows(k) \/ Triggered(k) \/ EndCheck(k)
    \/ \E k \in Checks, w \in Workflows : Visit(k, w)

Spec == Init /\ [][Next]_vars

-----------------------------------------------------------------------------
(* A workflow is not triggered before its interval has passed since its    *)
(* last trigger, as long as the process lives (docs/backend.md:65: "due"    *)
(* executions): whatever fails, is switched off and on, or is slow, unless *)
(* a check was so slow that the next began beside it.                      *)
NotBeforeDue ==
    [][~overlapped => \A w \in Workflows :
          LET last == lastRunAt[w]  run == lastRunAt'[w]
          IN  last # None /\ run # None /\ run # last => run - last >= EffectiveInterval(w)]_vars

Last(w) == IF lastRunAt[w] = None \/ lastRunAt[w] < upSince[w] THEN upSince[w] ELSE lastRunAt[w]

(* Nor much later: from its activation or its last trigger an active       *)
(* workflow that has an interval waits for it and one period, one period more for     *)
(* each call that threw, and for the time checks were at work, overlapping *)
(* or not.  One workflow's failure is not another's.                       *)
NotLongAfterDue ==
    \A w \in active \cap Timed :
        clock - Last(w) <= EffectiveInterval(w) + Period * (1 + failures) + slow

(* A trigger that throws is that workflow's alone: when a check has ended, *)
(* no workflow it listed was left unseen.                                  *)
EachWorkflowIsSeen ==
    [][\A k \in Checks : pc[k] \in {"scan", "trigger"} /\ pc'[k] = "off" /\ restarts' = restarts
          => todo[k] = {}]_vars
=============================================================================
