---------------------------- MODULE SchedulerProofs ----------------------------
(* When workflows are triggered, for any workflows, intervals and checks.  *)
EXTENDS Scheduler, TLAPS

\* Unless checks overlapped there is one at a time, and what it is triggering is still
\* due: nobody else has written the map since it looked.
DueInv ==
    /\ DOMAIN pc = Checks /\ DOMAIN now = Checks /\ DOMAIN todo = Checks /\ DOMAIN current = Checks
    /\ DOMAIN lastRunAt = Workflows /\ active \subseteq Workflows
    /\ \A k \in Checks : todo[k] \subseteq Workflows
    /\ \A k \in Checks : pc[k] = "trigger" => current[k] \in Workflows
    /\ ~overlapped =>
          /\ \A j, k \in Working : j = k
          /\ \A k \in Checks : pc[k] = "trigger" => Due(k, current[k])

LEMMA DueInit == Init => DueInv
  BY DEF Init, Idle, DueInv, Working

LEMMA DueStep == DueInv /\ [Next]_vars => DueInv'
<1>. SUFFICES ASSUME DueInv, [Next]_vars PROVE DueInv'
  OBVIOUS
<1>. USE DEF DueInv
<1>1. CASE Tick
  BY <1>1 DEF Tick, check, Working, Due
<1>2. CASE Restart
  BY <1>2 DEF Restart, Working
<1>3. ASSUME NEW w \in Workflows, Toggle(w) PROVE DueInv'
  BY <1>3 DEF Toggle, check, Working, Due
<1>4. ASSUME NEW k \in Checks, StartCheck(k) PROVE DueInv'
  BY <1>4 DEF StartCheck, Working, Due
<1>5. ASSUME NEW k \in Checks, ListWorkflows(k) PROVE DueInv'
  BY <1>5 DEF ListWorkflows, Working, Due
<1>6. ASSUME NEW k \in Checks, Triggered(k) PROVE DueInv'
  <2>1. /\ pc[k] = "trigger" /\ pc' = [pc EXCEPT ![k] = "scan"]
        /\ UNCHANGED <<active, now, todo, overlapped>>
        /\ current' = [current EXCEPT ![k] = None] /\ DOMAIN lastRunAt' = Workflows
    BY <1>6 DEF Triggered
  <2>2. Working' = Working
    BY <2>1 DEF Working
  <2>3. ~overlapped => \A j \in Checks : pc'[j] # "trigger"
    BY <2>1 DEF Working
  <2>. QED
    BY <2>1, <2>2, <2>3
<1>7. ASSUME NEW k \in Checks, EndCheck(k) PROVE DueInv'
  BY <1>7 DEF EndCheck, history, Working, Due
<1>8. ASSUME NEW k \in Checks, NEW w \in Workflows, Visit(k, w) PROVE DueInv'
  BY <1>8 DEF Visit, history, Working, Due
<1>9. CASE UNCHANGED vars
  BY <1>9 DEF vars, check, history, Working, Due
<1>. QED
  BY <1>1, <1>2, <1>3, <1>4, <1>5, <1>6, <1>7, <1>8, <1>9 DEF Next

\* Whatever fails, restarts or is switched on and off: as long as no check begins beside
\* another, no workflow is triggered before its interval has passed since its last run
\* (checkAndTrigger).
THEOREM TriggersAreDue ==
    Spec => NotBeforeDue
<1>1. DueInv /\ [Next]_vars =>
          (~overlapped => \A w \in Workflows :
              LET last == lastRunAt[w]  run == lastRunAt'[w]
              IN  last # None /\ run # None /\ run # last => run - last >= EffectiveInterval(w))
  <2>. SUFFICES ASSUME DueInv, [Next]_vars, ~overlapped, NEW w \in Workflows,
                       lastRunAt[w] # None, lastRunAt'[w] # None, lastRunAt'[w] # lastRunAt[w]
                PROVE  lastRunAt'[w] - lastRunAt[w] >= EffectiveInterval(w)
    OBVIOUS
  <2>1. PICK k \in Checks : Triggered(k)
    <3>1. ~Tick /\ ~UNCHANGED vars /\ \A x \in Workflows : ~Toggle(x)
      BY DEF Tick, Toggle, vars
    <3>2. ~Restart
      BY DEF Restart
    <3>3. \A k \in Checks : ~StartCheck(k) /\ ~ListWorkflows(k) /\ ~EndCheck(k)
                            /\ \A x \in Workflows : ~Visit(k, x)
      BY DEF StartCheck, ListWorkflows, EndCheck, Visit
    <3>. QED
      BY <3>1, <3>2, <3>3 DEF Next
  <2>2. pc[k] = "trigger" /\ current[k] = w /\ lastRunAt'[w] = now[k]
    BY <2>1 DEF Triggered, DueInv
  <2>. QED
    BY <2>2 DEF DueInv, Due
<1>. QED
  BY <1>1, DueInit, DueStep, PTL DEF Spec, NotBeforeDue

-----------------------------------------------------------------------------
(* How long a workflow waits.                                              *)

\* The time the last timer fired, just before the start of the process if none did.
Fired == booted + done

DueAt(w) == Last(w) + EffectiveInterval(w)

\* A check that has not come to the workflow yet, or is triggering it.
ToSee(k, w) ==
    \/ pc[k] = "read"
    \/ pc[k] \in {"scan", "trigger"} /\ w \in todo[k]
    \/ pc[k] = "trigger" /\ current[k] = w

Times ==
    /\ clock \in Nat /\ booted \in 0..clock /\ failures \in Nat /\ slow \in Nat /\ restarts \in Nat
    /\ lastRunAt \in [Workflows -> 0..clock \cup {None}]
    /\ upSince \in [Workflows -> booted..clock]
    /\ now \in [Checks -> 0..clock]
    /\ active \subseteq Workflows
    /\ DOMAIN pc = Checks /\ DOMAIN todo = Checks /\ DOMAIN current = Checks
    /\ \A k \in Checks : pc[k] = "trigger" => current[k] \in Workflows

\* No timer is passed over: the initial check, the first full period, and then each.
Timers ==
    \/ done = -1 /\ Uptime <= First
    \/ done = First /\ First <= Uptime /\ Uptime <= Period /\ First < Period
    \/ done \in Nat /\ Period <= done /\ done % Period = 0 /\ done <= Uptime /\ Uptime <= done + Period

\* The time a check has taken is past by no more than the time checks were at work.
NowIsRecent == \A k \in Checks : pc[k] \in {"scan", "trigger"} => clock <= now[k] + slow

\* What was due when the last timer fired waits only because of failures and slow checks,
\* or a check is still to come to it.
Settled(w) == Fired <= DueAt(w) + Period * failures + slow

SeenInTime == \A w \in active \cap Timed : Settled(w) \/ \E k \in Checks : ToSee(k, w)

WaitInv == Times /\ Timers /\ NowIsRecent /\ NotLongAfterDue /\ SeenInTime

\* The remainder of the next multiple.
LEMMA NextMultiple ==
    ASSUME NEW p \in Nat \ {0}, NEW a \in Nat, a % p = 0
    PROVE  (a + p) % p = 0
<1>. DEFINE q == a \div p
            s == (a + p) \div p
            r == (a + p) % p
<1>1. q \in Int /\ a = p * q
  OBVIOUS
<1>2. s \in Int /\ r \in 0..(p - 1) /\ a + p = p * s + r
  OBVIOUS
<1>. HIDE DEF q, s, r
<1>3. r = p * (q + 1 - s)
  BY <1>1, <1>2
<1>4. q + 1 - s \in Int
  BY <1>1, <1>2
<1>5. ASSUME NEW m \in Int, m > 0 PROVE p * m >= p
  BY <1>5
<1>6. ASSUME NEW m \in Int, m < 0 PROVE p * m < 0
  BY <1>6
<1>7. q + 1 - s = 0
  <2>. DEFINE m == q + 1 - s
  <2>1. m \in Int /\ r = p * m
    BY <1>3, <1>4
  <2>. HIDE DEF m
  <2>2. ~(m > 0) /\ ~(m < 0)
    BY <1>2, <1>5, <1>6, <2>1
  <2>. QED
    BY <2>1, <2>2 DEF m
<1>8. r = 0
  BY <1>3, <1>7
<1>. QED
  BY <1>8 DEF r

\* What a failure adds to the time a workflow may wait.
LEMMA Allowances ==
    ASSUME NEW f \in Nat
    PROVE  /\ Period * f \in Nat
           /\ Period * (1 + f) = Period + Period * f
           /\ Period * (f + 1) = Period + Period * f
  BY SchedulerAssumption

LEMMA LastIsPast ==
    ASSUME Times, NEW w \in Timed
    PROVE  /\ Last(w) \in booted..clock /\ DueAt(w) \in Nat
           /\ Last(w) < DueAt(w) /\ DueAt(w) = Last(w) + EffectiveInterval(w)
           /\ lastRunAt[w] # None => lastRunAt[w] <= Last(w)
           /\ upSince[w] <= Last(w)
           /\ booted \in Nat /\ clock \in Nat
<1>1. EffectiveInterval(w) \in Nat \ {0} /\ w \in Workflows
  BY SchedulerAssumption DEF Timed
<1>2. upSince[w] \in booted..clock /\ booted \in 0..clock /\ clock \in Nat
  BY <1>1 DEF Times
<1>3. lastRunAt[w] # None => lastRunAt[w] \in 0..clock
  BY <1>1 DEF Times
<1>. QED
  BY <1>1, <1>2, <1>3 DEF Last, DueAt

\* What waits for a workflow is settled when the times of its runs do not change.
LEMMA WaitFrame ==
    ASSUME NEW w \in Workflows, lastRunAt'[w] = lastRunAt[w], upSince'[w] = upSince[w]
    PROVE  Last(w)' = Last(w) /\ DueAt(w)' = DueAt(w)
  BY DEF Last, DueAt

\* A timer that is due keeps the clock until a check starts.
LEMMA TimersKept == Times /\ Timers /\ [Next]_vars => Timers'
<1>. SUFFICES ASSUME Times, Timers, [Next]_vars PROVE Timers'
  OBVIOUS
<1>. USE SchedulerAssumption
<1>0. clock \in Nat /\ booted \in 0..clock /\ Uptime \in Nat /\ Uptime = clock - booted
  BY DEF Times, Uptime
<1>1. CASE Tick
  <2>1. clock' = clock + 1 /\ booted' = booted /\ done' = done /\ ~TimerDue
    BY <1>1 DEF Tick
  <2>2. Uptime' = Uptime + 1
    BY <1>0, <2>1 DEF Uptime
  <2>3. CASE done = -1 /\ Uptime <= First
    <3>1. Uptime # First
      BY <1>0, <2>1, <2>3 DEF TimerDue
    <3>. QED
      BY <1>0, <2>1, <2>2, <2>3, <3>1 DEF Timers
  <2>4. CASE done = First /\ First <= Uptime /\ Uptime <= Period /\ First < Period
    <3>1. Period % Period = 0
      OBVIOUS
    <3>2. Uptime # Period
      BY <1>0, <2>1, <2>4, <3>1 DEF TimerDue
    <3>. QED
      BY <1>0, <2>1, <2>2, <2>4, <3>2 DEF Timers
  <2>5. CASE done \in Nat /\ Period <= done /\ done % Period = 0 /\ done <= Uptime /\ Uptime <= done + Period
    <3>1. (done + Period) % Period = 0
      BY <2>5, NextMultiple
    <3>2. Uptime # done + Period
      BY <1>0, <2>1, <2>5, <3>1 DEF TimerDue
    <3>. QED
      BY <1>0, <2>1, <2>2, <2>5, <3>2 DEF Timers
  <2>. QED
    BY <2>3, <2>4, <2>5 DEF Timers
<1>2. CASE Restart
  BY <1>0, <1>2 DEF Restart, Timers, Uptime
<1>3. ASSUME NEW k \in Checks, StartCheck(k) PROVE Timers'
  <2>1. TimerDue /\ done' = Uptime /\ clock' = clock /\ booted' = booted /\ Uptime' = Uptime
    BY <1>3 DEF StartCheck, Uptime
  <2>2. Period % Period = 0
    OBVIOUS
  <2>3. ASSUME NEW u \in 1..Period, u % Period = 0 PROVE u = Period
    BY <2>3
  <2>4. (Uptime = First /\ First < Period) \/ (Period <= Uptime /\ Uptime % Period = 0)
    BY <1>0, <2>1, <2>2, <2>3 DEF TimerDue
  <2>. QED
    BY <1>0, <2>1, <2>4 DEF Timers
<1>4. CASE UNCHANGED <<clock, booted, done>>
  BY <1>4 DEF Timers, Uptime
<1>5. ASSUME NEW k \in Checks, ListWorkflows(k) \/ Triggered(k) \/ EndCheck(k) PROVE Timers'
  BY <1>4, <1>5 DEF ListWorkflows, Triggered, EndCheck
<1>6. ASSUME NEW w \in Workflows, Toggle(w) \/ \E k \in Checks : Visit(k, w) PROVE Timers'
  BY <1>4, <1>6 DEF Toggle, Visit
<1>. QED
  BY <1>1, <1>2, <1>3, <1>4, <1>5, <1>6 DEF Next, vars

LEMMA TimesKept == Times /\ [Next]_vars => Times'
<1>. SUFFICES ASSUME Times, [Next]_vars PROVE Times'
  OBVIOUS
<1>. USE DEF Times
<1>1. CASE Tick
  BY <1>1 DEF Tick, check
<1>2. CASE Restart
  BY <1>2 DEF Restart
<1>3. ASSUME NEW w \in Workflows, Toggle(w) PROVE Times'
  BY <1>3 DEF Toggle, check
<1>4. ASSUME NEW k \in Checks, StartCheck(k) \/ ListWorkflows(k) PROVE Times'
  BY <1>4 DEF StartCheck, ListWorkflows
<1>5. ASSUME NEW k \in Checks, Triggered(k) PROVE Times'
  BY <1>5 DEF Triggered
<1>6. ASSUME NEW k \in Checks, EndCheck(k) PROVE Times'
  BY <1>6 DEF EndCheck, history
<1>7. ASSUME NEW k \in Checks, NEW w \in Workflows, Visit(k, w) PROVE Times'
  BY <1>7 DEF Visit, history
<1>8. CASE UNCHANGED vars
  BY <1>8 DEF vars, check, history
<1>. QED
  BY <1>1, <1>2, <1>3, <1>4, <1>5, <1>6, <1>7, <1>8 DEF Next

LEMMA NowIsRecentKept == Times /\ NowIsRecent /\ [Next]_vars => NowIsRecent'
<1>. SUFFICES ASSUME Times, NowIsRecent, [Next]_vars PROVE NowIsRecent'
  OBVIOUS
<1>. USE DEF Times, NowIsRecent
<1>1. CASE Tick
  BY <1>1 DEF Tick, check, Working
<1>2. CASE Restart
  BY <1>2 DEF Restart
<1>3. ASSUME NEW w \in Workflows, Toggle(w) PROVE NowIsRecent'
  BY <1>3 DEF Toggle, check
<1>4. ASSUME NEW k \in Checks, StartCheck(k) \/ ListWorkflows(k) PROVE NowIsRecent'
  BY <1>4 DEF StartCheck, ListWorkflows
<1>5. ASSUME NEW k \in Checks, Triggered(k) \/ EndCheck(k) PROVE NowIsRecent'
  BY <1>5 DEF Triggered, EndCheck, history
<1>6. ASSUME NEW k \in Checks, NEW w \in Workflows, Visit(k, w) PROVE NowIsRecent'
  BY <1>6 DEF Visit, history
<1>7. CASE UNCHANGED vars
  BY <1>7 DEF vars, check, history
<1>. QED
  BY <1>1, <1>2, <1>3, <1>4, <1>5, <1>6, <1>7 DEF Next

\* With no check at work, one more unit of time is still within a period of the timer
\* that fired last.
LEMMA TickInTime ==
    ASSUME WaitInv, Tick, Working = {}, NEW w \in active \cap Timed
    PROVE  clock + 1 <= DueAt(w) + Period * (1 + failures) + slow
<1>. USE SchedulerAssumption DEF WaitInv
<1>1. Settled(w)
  BY DEF SeenInTime, ToSee, Working
<1>2. w \in Timed /\ failures \in Nat /\ slow \in Nat
  BY DEF Times
<1>3. /\ Last(w) \in booted..clock /\ DueAt(w) \in Nat /\ Last(w) < DueAt(w)
      /\ booted \in Nat /\ clock \in Nat
  BY <1>2, LastIsPast
<1>4. Period * failures \in Nat /\ Period * (1 + failures) = Period + Period * failures
  BY <1>2, Allowances
<1>5. Timers' /\ clock' = clock + 1 /\ booted' = booted /\ done' = done
  BY TimersKept DEF Tick, Next
<1>6. \/ done = -1 /\ clock + 1 <= booted + First
      \/ done \in Nat /\ clock + 1 <= booted + done + Period
  BY <1>3, <1>5 DEF Timers, Uptime
<1>7. Fired <= DueAt(w) + Period * failures + slow
  BY <1>1 DEF Settled
<1>8. CASE done = -1 /\ clock + 1 <= booted + First
  BY <1>2, <1>3, <1>4, <1>8
<1>9. CASE done \in Nat /\ clock + 1 <= booted + done + Period
  BY <1>2, <1>3, <1>4, <1>7, <1>9 DEF Fired
<1>. QED
  BY <1>6, <1>8, <1>9

InTime(w) == clock - Last(w) <= EffectiveInterval(w) + Period * (1 + failures) + slow
Seen(w)   == Settled(w) \/ \E k \in Checks : ToSee(k, w)

\* What the steps below need to know of a workflow.
LEMMA WaitFacts ==
    ASSUME WaitInv, NEW w \in Timed
    PROVE  /\ EffectiveInterval(w) \in Nat \ {0} /\ slow \in Nat /\ failures \in Nat
           /\ clock \in Nat /\ booted \in 0..clock /\ Last(w) \in 0..clock
           /\ DueAt(w) = Last(w) + EffectiveInterval(w)
           /\ lastRunAt[w] # None => lastRunAt[w] \in Nat /\ lastRunAt[w] <= Last(w)
           /\ Period * failures \in Nat
           /\ Period * (1 + failures) = Period + Period * failures
           /\ Period * (1 + (failures + 1)) = Period + Period + Period * failures
           /\ Period * (failures + 1) = Period + Period * failures
           /\ Fired \in Int /\ Fired <= clock
<1>. USE SchedulerAssumption DEF WaitInv
<1>1. w \in Workflows /\ EffectiveInterval(w) \in Nat \ {0} /\ slow \in Nat /\ failures \in Nat
  BY DEF Times, Timed
<1>2. clock \in Nat /\ booted \in 0..clock /\ Last(w) \in 0..clock
  BY <1>1, LastIsPast DEF Times
<1>3. lastRunAt[w] # None => lastRunAt[w] \in Nat /\ lastRunAt[w] <= Last(w)
  BY <1>1, LastIsPast DEF Times
<1>4. Fired \in Int /\ Fired <= clock
  BY <1>2 DEF Fired, Timers, Uptime
<1>5. /\ Period * failures \in Nat
      /\ Period * (1 + failures) = Period + Period * failures
      /\ Period * (failures + 1) = Period + Period * failures
      /\ Period * (1 + (failures + 1)) = Period + Period + Period * failures
  BY <1>1, Allowances
<1>. QED
  BY <1>1, <1>2, <1>3, <1>4, <1>5 DEF DueAt

\* Where the clock and the counters stand still, a workflow whose run is not older than
\* the clock less the slowness is in time and settled.
LEMMA FreshIsSettled ==
    ASSUME WaitInv, NEW w \in Timed, NEW t \in Nat, Last(w)' = t, t <= clock, clock <= t + slow,
           UNCHANGED <<clock, booted, done, failures, slow>>
    PROVE  InTime(w)' /\ Seen(w)'
<1>1. DueAt(w)' = t + EffectiveInterval(w) /\ Fired' = Fired
  BY DEF DueAt, Fired
<1>2. Settled(w)'
  BY <1>1, WaitFacts DEF Settled
<1>3. InTime(w)'
  <2>1. clock - t <= EffectiveInterval(w) + Period * (1 + failures) + slow
    BY WaitFacts, SchedulerAssumption
  <2>. QED
    BY <2>1 DEF InTime
<1>. QED
  BY <1>2, <1>3 DEF Seen

\* Where nothing changes for a workflow but who has seen it.
LEMMA SameWait ==
    ASSUME WaitInv, NEW w \in active \cap Timed, lastRunAt'[w] = lastRunAt[w], upSince'[w] = upSince[w],
           UNCHANGED <<clock, booted, done, failures, slow>>,
           Settled(w) \/ \E k \in Checks : ToSee(k, w)'
    PROVE  InTime(w)' /\ Seen(w)'
<1>1. w \in Workflows /\ w \in Timed /\ InTime(w)
  BY DEF Timed, WaitInv, Times, NotLongAfterDue, InTime
<1>2. Last(w)' = Last(w) /\ DueAt(w)' = DueAt(w)
  BY <1>1, WaitFrame
<1>. QED
  BY <1>1, <1>2 DEF InTime, Seen, Settled, Fired

\* A failure gives every workflow another period.
LEMMA FailureSettles ==
    ASSUME WaitInv, NEW w \in active \cap Timed, lastRunAt' = lastRunAt, upSince' = upSince,
           UNCHANGED <<clock, booted, done, slow>>, failures' = failures + 1
    PROVE  InTime(w)' /\ Seen(w)'
<1>1. w \in Workflows /\ w \in Timed /\ InTime(w)
  BY DEF Timed, WaitInv, Times, NotLongAfterDue, InTime
<1>2. Last(w)' = Last(w) /\ DueAt(w)' = DueAt(w)
  BY <1>1, WaitFrame
<1>. QED
  BY <1>1, <1>2, WaitFacts, SchedulerAssumption DEF InTime, Seen, Settled, Fired

LEMMA WaitStep == WaitInv /\ [Next]_vars => NotLongAfterDue' /\ SeenInTime'
<1>. SUFFICES ASSUME WaitInv, [Next]_vars, NEW w \in active' \cap Timed PROVE InTime(w)' /\ Seen(w)'
  BY DEF NotLongAfterDue, SeenInTime, InTime, Seen
<1>0. w \in Workflows /\ w \in Timed
  BY DEF Timed
<1>. USE <1>0
<1>a. w \in active => Seen(w) /\ InTime(w)
  BY DEF WaitInv, SeenInTime, Seen, NotLongAfterDue, InTime
<1>1. CASE Tick
  <2>1. /\ w \in active /\ UNCHANGED <<booted, done, failures, check>>
        /\ clock' = clock + 1
        /\ (Working = {} /\ slow' = slow) \/ slow' = slow + 1
    BY <1>1 DEF Tick
  <2>2. Last(w)' = Last(w) /\ DueAt(w)' = DueAt(w)
    BY <1>0, <1>1, WaitFrame DEF Tick
  <2>3. Seen(w)'
    BY <1>0, <1>a, <2>1, <2>2, WaitFacts DEF Seen, Settled, Fired, ToSee, check
  <2>4. InTime(w)'
    <3>1. CASE Working = {} /\ slow' = slow
      <4>1. clock + 1 <= DueAt(w) + Period * (1 + failures) + slow
        BY <1>1, <2>1, <3>1, TickInTime
      <4>. QED
        BY <1>0, <2>1, <2>2, <3>1, <4>1, WaitFacts, SchedulerAssumption DEF InTime
    <3>2. CASE slow' = slow + 1
      BY <1>0, <1>a, <2>1, <2>2, <3>2, WaitFacts, SchedulerAssumption DEF InTime
    <3>. QED
      BY <2>1, <3>1, <3>2
  <2>. QED
    BY <2>3, <2>4
<1>2. CASE Restart
  <2>1. /\ Last(w)' = clock /\ clock' = clock /\ booted' = clock /\ done' = -1
        /\ slow' = slow /\ failures' = failures
    BY <1>0, <1>2 DEF Restart, Last
  <2>. QED
    BY <1>0, <2>1, WaitFacts, SchedulerAssumption DEF InTime, Seen, Settled, Fired, DueAt
<1>3. ASSUME NEW x \in Workflows, Toggle(x) PROVE InTime(w)' /\ Seen(w)'
  <2>0. UNCHANGED <<clock, booted, done, failures, slow, check, lastRunAt>>
        /\ upSince' = [upSince EXCEPT ![x] = clock]
    BY <1>3 DEF Toggle
  <2>1. CASE w = x
    <3>1. Last(w)' = clock
      BY <1>0, <2>0, <2>1 DEF Last, WaitInv, Times
    <3>. QED
      BY <1>0, <2>0, <3>1, FreshIsSettled, WaitFacts
  <2>2. CASE w # x
    <3>1. w \in active /\ upSince'[w] = upSince[w]
      BY <1>0, <1>3, <2>2 DEF Toggle, WaitInv, Times
    <3>. QED
      BY <1>a, <2>0, <3>1, SameWait DEF Seen, ToSee, check
  <2>. QED
    BY <2>1, <2>2
<1>4. ASSUME NEW k \in Checks, StartCheck(k) PROVE InTime(w)' /\ Seen(w)'
  <2>1. ToSee(k, w)'
    BY <1>4 DEF StartCheck, ToSee, WaitInv, Times
  <2>2. w \in active /\ Last(w)' = Last(w)
    BY <1>0, <1>4, WaitFrame DEF StartCheck
  <2>. QED
    BY <1>4, <1>a, <2>1, <2>2 DEF StartCheck, InTime, Seen
<1>5. ASSUME NEW k \in Checks, ListWorkflows(k) PROVE InTime(w)' /\ Seen(w)'
  <2>0. w \in active /\ UNCHANGED <<clock, booted, done, slow, lastRunAt, upSince, current>>
    BY <1>5 DEF ListWorkflows
  <2>1. CASE failures' = failures + 1
    BY <2>0, <2>1, FailureSettles
  <2>2. CASE /\ pc' = [pc EXCEPT ![k] = "scan"] /\ todo' = [todo EXCEPT ![k] = active]
             /\ failures' = failures
    <3>1. ToSee(k, w)'
      BY <2>0, <2>2 DEF ToSee, WaitInv, Times
    <3>. QED
      BY <2>0, <2>2, <3>1, SameWait
  <2>. QED
    BY <1>5, <2>1, <2>2 DEF ListWorkflows
<1>6. ASSUME NEW k \in Checks, Triggered(k) PROVE InTime(w)' /\ Seen(w)'
  <2>0. /\ w \in active /\ UNCHANGED <<clock, booted, done, slow, upSince, todo>>
        /\ pc[k] = "trigger" /\ pc' = [pc EXCEPT ![k] = "scan"]
        /\ current' = [current EXCEPT ![k] = None]
    BY <1>6 DEF Triggered
  <2>1. CASE failures' = failures + 1 /\ lastRunAt' = lastRunAt
    BY <2>0, <2>1, FailureSettles
  <2>2. CASE failures' = failures /\ lastRunAt' = [lastRunAt EXCEPT ![current[k]] = now[k]]
    <3>1. CASE w = current[k]
      <4>1. /\ now[k] \in 0..clock /\ clock <= now[k] + slow /\ now[k] # None
            /\ lastRunAt'[w] = now[k] /\ upSince'[w] = upSince[w] /\ upSince[w] \in 0..clock
        BY <1>0, <2>0, <2>2, <3>1, SchedulerAssumption DEF WaitInv, Times, NowIsRecent
      <4>. DEFINE t == IF now[k] < upSince[w] THEN upSince[w] ELSE now[k]
      <4>2. Last(w)' = t
        BY <4>1 DEF Last
      <4>3. t \in 0..clock /\ now[k] <= t
        BY <4>1
      <4>. HIDE DEF t
      <4>4. clock \in Nat /\ slow \in Nat /\ t <= clock /\ clock <= t + slow /\ t \in Nat
        BY <1>0, <4>1, <4>3, WaitFacts
      <4>. QED
        BY <1>0, <2>0, <2>2, <4>2, <4>4, FreshIsSettled
    <3>2. CASE w # current[k]
      <4>1. lastRunAt'[w] = lastRunAt[w]
        BY <1>0, <2>2, <3>2 DEF WaitInv, Times
      <4>2. \A j \in Checks : ToSee(j, w) => ToSee(j, w)'
        BY <2>0, <3>2 DEF ToSee, WaitInv, Times
      <4>. QED
        BY <1>a, <2>0, <2>2, <4>1, <4>2, SameWait DEF Seen
    <3>. QED
      BY <3>1, <3>2
  <2>. QED
    BY <1>6, <2>1, <2>2 DEF Triggered
<1>7. ASSUME NEW k \in Checks, EndCheck(k) PROVE InTime(w)' /\ Seen(w)'
  <2>0. w \in active /\ UNCHANGED <<clock, booted, done, failures, slow, lastRunAt, upSince>>
    BY <1>7 DEF EndCheck, history
  <2>1. \A j \in Checks : ToSee(j, w) => ToSee(j, w)'
    BY <1>7 DEF EndCheck, ToSee, WaitInv, Times
  <2>. QED
    BY <1>a, <2>0, <2>1, SameWait DEF Seen
<1>8. ASSUME NEW k \in Checks, NEW x \in Workflows, Visit(k, x) PROVE InTime(w)' /\ Seen(w)'
  <2>0. /\ w \in active /\ UNCHANGED <<clock, booted, done, failures, slow, lastRunAt, upSince, now>>
        /\ pc[k] = "scan" /\ todo' = [todo EXCEPT ![k] = todo[k] \ {x}]
    BY <1>8 DEF Visit, history
  <2>1. CASE w = x /\ ~Due(k, x)
    <3>1. /\ lastRunAt[w] # None /\ now[k] - lastRunAt[w] < EffectiveInterval(w)
          /\ now[k] \in 0..clock /\ clock <= now[k] + slow
      BY <1>0, <2>0, <2>1, WaitFacts DEF Due, WaitInv, Times, NowIsRecent
    <3>2. Settled(w)
      BY <1>0, <3>1, WaitFacts DEF Settled
    <3>. QED
      BY <2>0, <3>2, SameWait
  <2>2. CASE ~(w = x /\ ~Due(k, x))
    <3>1. \A j \in Checks : ToSee(j, w) => ToSee(j, w)'
      BY <1>8, <2>0, <2>2 DEF Visit, ToSee, WaitInv, Times
    <3>. QED
      BY <1>a, <2>0, <3>1, SameWait DEF Seen
  <2>. QED
    BY <2>1, <2>2
<1>9. CASE UNCHANGED vars
  BY <1>a, <1>9, SameWait DEF vars, check, history, Seen, ToSee
<1>. QED
  BY <1>1, <1>2, <1>3, <1>4, <1>5, <1>6, <1>7, <1>8, <1>9 DEF Next

LEMMA WaitInit == Init => WaitInv
<1>. SUFFICES ASSUME Init PROVE WaitInv
  OBVIOUS
<1>. USE SchedulerAssumption DEF Init, Idle
<1>1. Times /\ Timers /\ NowIsRecent
  BY DEF Times, Timers, NowIsRecent, Uptime
<1>2. ASSUME NEW w \in Timed PROVE InTime(w) /\ Settled(w)
  <2>1. Last(w) = 0 /\ EffectiveInterval(w) \in Nat
    BY DEF Last, Timed
  <2>. QED
    BY <2>1 DEF InTime, Settled, DueAt, Fired
<1>. QED
  BY <1>1, <1>2 DEF WaitInv, NotLongAfterDue, InTime, SeenInTime

\* An active workflow waits for its interval and one period, and for no more than one
\* period more for each call that threw and the time checks were at work: for any
\* workflows, intervals and periods, overlapping checks and restarts included
\* (checkAndTrigger and its timers).
THEOREM WaitsAreBounded ==
    Spec => []NotLongAfterDue
<1>1. WaitInv /\ [Next]_vars => WaitInv'
  BY TimesKept, TimersKept, NowIsRecentKept, WaitStep DEF WaitInv
<1>2. WaitInv => NotLongAfterDue
  BY DEF WaitInv
<1>. QED
  BY <1>1, <1>2, WaitInit, PTL DEF Spec

\* A check that ends in a living process has come to every workflow it listed: a
\* trigger that throws ends nothing but itself.
THEOREM ChecksSeeAll ==
    Spec => EachWorkflowIsSeen
<1>1. WaitInv /\ [Next]_vars =>
          [\A k \in Checks : pc[k] \in {"scan", "trigger"} /\ pc'[k] = "off" /\ restarts' = restarts
             => todo[k] = {}]_vars
  <2>. SUFFICES ASSUME WaitInv, Next, NEW k \in Checks, pc[k] \in {"scan", "trigger"},
                       pc'[k] = "off", restarts' = restarts
                PROVE  todo[k] = {}
    BY DEF vars
  <2>. USE DEF WaitInv, Times
  <2>1. ~Tick /\ ~Restart /\ \A w \in Workflows : ~Toggle(w)
    BY DEF Tick, Restart, Toggle, check
  <2>2. \A j \in Checks : ~StartCheck(j) /\ ~ListWorkflows(j) /\ ~Triggered(j)
    BY DEF StartCheck, ListWorkflows, Triggered
  <2>3. \A j \in Checks, w \in Workflows : ~Visit(j, w)
    BY DEF Visit
  <2>4. PICK j \in Checks : EndCheck(j)
    BY <2>1, <2>2, <2>3 DEF Next
  <2>. QED
    BY <2>4 DEF EndCheck
<1>2. WaitInv /\ [Next]_vars => WaitInv'
  BY TimesKept, TimersKept, NowIsRecentKept, WaitStep DEF WaitInv
<1>. QED
  BY <1>1, <1>2, WaitInit, PTL DEF Spec, EachWorkflowIsSeen
==============================================================================
