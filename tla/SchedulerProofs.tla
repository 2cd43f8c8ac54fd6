-------------------------- MODULE SchedulerProofs --------------------------
(***************************************************************************)
(* SchedulerInv is an invariant of Scheduler for any finite sets of CPUs   *)
(* and tasks.  One lemma per group of actions of like effect.  LoadInv,    *)
(* proved on top of it, ties the load counters to sums over the queues.    *)
(***************************************************************************)
EXTENDS Scheduler, FiniteSetTheorems, WellFoundedInduction, TLAPS

----------------------------------------------------------------------------
\* Helpers.

\* scheduler_request marks its target and keeps every request delivered, as
\* long as the calling CPU holds the kernel lock.
LEMMA RequestLemma ==
  ASSUME TypeOK, RequestDelivered, NEW by \in CPUs, klock = by, NEW d \in CPUs,
         Request(by, d), klock' = klock
  PROVE  /\ need' \in [CPUs -> BOOLEAN] /\ ipi' \in [CPUs -> BOOLEAN]
         /\ need'[d] /\ \A e \in CPUs : e # d => need'[e] = need[e]
         /\ RequestDelivered'
BY DEF TypeOK, RequestDelivered, Request

\* Finishing a task only takes it off its queue; a deferred one is armed.
LEMMA FinishLemma ==
  ASSUME TypeOK, QueueConsistent, NoLostWakeup, NEW t \in Tasks, Finish(t)
  PROVE  /\ st' \in [Tasks -> States] /\ cpu' = cpu /\ rq' \in [CPUs -> SUBSET Tasks]
         /\ pend' \in [Tasks -> BOOLEAN] /\ armed' \in [Tasks -> BOOLEAN]
         /\ QueueConsistent' /\ NoLostWakeup'
         /\ st'[t] \in {"WAITING", "DIED"} /\ pend'[t] = armed'[t]
         /\ \A c \in CPUs : rq'[c] = rq[c] \ {t}
         /\ \A u \in Tasks \ {t} : st'[u] = st[u] /\ pend'[u] = pend[u] /\ armed'[u] = armed[u]
<1>1. PICK b \in BOOLEAN :
        /\ pend' = [pend EXCEPT ![t] = b] /\ armed' = [armed EXCEPT ![t] = b]
        /\ st' = [st EXCEPT ![t] = IF b THEN "WAITING" ELSE "DIED"]
        /\ Relink(t, cpu[t], pinned[t], FALSE)
  BY DEF Finish
<1>2. cpu' = cpu /\ rq' = [d \in CPUs |-> rq[d] \ {t}]
  BY <1>1 DEF Relink, TypeOK
<1>3. QueueConsistent'
  BY <1>1, <1>2 DEF QueueConsistent, TypeOK
<1>4. NoLostWakeup'
  BY <1>1, <1>2 DEF NoLostWakeup, TypeOK
<1> QED BY <1>1, <1>2, <1>3, <1>4 DEF TypeOK, States

----------------------------------------------------------------------------
\* The initial state.

\* The initial states satisfy the invariant.
LEMMA InitInv == Init => SchedulerInv
<1> SUFFICES ASSUME Init PROVE SchedulerInv OBVIOUS
<1> USE SchedulerConstants
<1>1. PICK k \in Leaders :
    /\ st = [t \in Tasks |-> IF t = k THEN "RUNNING" ELSE "ALLOCATING"]
    /\ cpu = [t \in Tasks |-> 0]
    /\ pinned = [t \in Tasks |-> t = k]
    /\ weight \in [Tasks -> Weights]
    /\ rq = [c \in CPUs |-> IF c = 0 THEN {k} ELSE {}]
    /\ onCpu = [t \in Tasks |-> t = k]
    /\ ready = [t \in Tasks |-> FALSE]
    /\ urgent = [t \in Tasks |-> FALSE]
    /\ pend = [t \in Tasks |-> FALSE]
    /\ armed = [t \in Tasks |-> FALSE]
    /\ resume = [t \in Tasks |-> "body"]
    /\ cur = [c \in CPUs |-> IF c = 0 THEN k ELSE Idle]
    /\ need = [c \in CPUs |-> FALSE]
    /\ ipi = [c \in CPUs |-> FALSE]
    /\ klock = 0 /\ mode = "body" /\ nest = FALSE
  BY DEF Init
<1>2. TypeOK BY <1>1 DEF TypeOK, States, Modes
<1>3. LockShape /\ QueueConsistent /\ OneCpuPerTask /\ RunsAtHome
  BY <1>1 DEF LockShape, QueueConsistent, OneCpuPerTask, RunsAtHome
<1>4. RequestDelivered /\ ReleaseClean /\ KillDelivered /\ NoIdleWithWork
  BY <1>1 DEF RequestDelivered, ReleaseClean, KillDelivered, NoIdleWithWork
<1>5. ArmedShape /\ NoLostWakeup
  BY <1>1 DEF ArmedShape, NoLostWakeup
<1> QED BY <1>2, <1>3, <1>4, <1>5 DEF SchedulerInv

----------------------------------------------------------------------------
\* Wake-ups: task_run, from an event or a signal.

\* task_run: the woken task is placed, or keeps the wake-up in its ready flag.
LEMMA WakeStep ==
  ASSUME SchedulerInv, NEW c \in CPUs, NEW t \in Tasks, Fire(c, t) \/ Signal(c, t)
  PROVE  SchedulerInv'
<1> USE SchedulerConstants DEF SchedulerInv, LockShape, InBody, InIrq
<1>0. /\ klock = c /\ klock' = c /\ mode' = mode /\ nest' = nest /\ cur' = cur
      /\ TaskRun(c, t) /\ UNCHANGED <<onCpu, pend>>
      /\ mode \in {"body", "armed", "irq", "pick"}
      /\ armed' \in [Tasks -> BOOLEAN] /\ \A u \in Tasks : u # t => armed'[u] = armed[u]
  <2>1. TaskRun(c, t) BY DEF Fire, Signal
  <2>2. klock = c /\ mode \in {"body", "armed", "irq", "pick"} BY DEF Fire, Signal
  <2>3. klock' = klock /\ mode' = mode /\ nest' = nest /\ cur' = cur /\ UNCHANGED <<onCpu, pend>>
    BY ONLY <2>1 DEF TaskRun, lockVars
  <2>4. armed \in [Tasks -> BOOLEAN] BY DEF TypeOK
  <2>5. armed' = armed \/ armed' = [armed EXCEPT ![t] = FALSE] BY DEF Fire, Signal
  <2>6. armed' \in [Tasks -> BOOLEAN] /\ \A u \in Tasks : u # t => armed'[u] = armed[u]
    BY ONLY <2>4, <2>5
  <2> QED BY ONLY <2>1, <2>2, <2>3, <2>6
<1>1. CASE st[t] = "RUNNING"
  <2>1. /\ Request(c, cpu[t]) /\ UNCHANGED <<st, cpu, rq>>
        /\ ready' = [ready EXCEPT ![t] = TRUE]
    BY <1>0, <1>1 DEF TaskRun, queueVars
  <2>2. TypeOK' BY <2>1, <1>0 DEF TypeOK, TaskRun, Request, lockVars
  <2>3. QueueConsistent' /\ OneCpuPerTask' /\ RunsAtHome'
    BY <2>1, <1>0 DEF TypeOK, QueueConsistent, OneCpuPerTask, RunsAtHome
  <2>4. RequestDelivered' /\ need' \in [CPUs -> BOOLEAN] /\ \A e \in CPUs : need[e] => need'[e]
    <3>1. cpu[t] \in CPUs BY DEF TypeOK
    <3> QED BY <2>1, <1>0, <3>1, RequestLemma
  <2>5. KillDelivered' /\ NoIdleWithWork' /\ ReleaseClean'
    BY <2>1, <2>4, <1>0 DEF TypeOK, KillDelivered, NoIdleWithWork, ReleaseClean
  <2>6. ArmedShape' /\ NoLostWakeup'
    BY <2>1, <1>0, <1>1 DEF TypeOK, ArmedShape, NoLostWakeup
  <2> QED BY <2>2, <2>3, <2>4, <2>5, <2>6, <1>0
<1>2. CASE st[t] = "WAITING"
  <2>0. PICK d \in CPUs : Relink(t, d, pinned[t], TRUE) /\ Request(c, d)
    <3>1. \E e \in WakePlaces(t) : Relink(t, e, pinned[t], TRUE) /\ Request(c, e)
      BY ONLY <1>0, <1>2 DEF TaskRun
    <3>2. WakePlaces(t) \subseteq CPUs BY DEF WakePlaces, LeastLoaded, TypeOK
    <3> QED BY ONLY <3>1, <3>2
  <2>1. /\ st' = [st EXCEPT ![t] = "RUNNING"] /\ cpu' = [cpu EXCEPT ![t] = d]
        /\ rq' = [e \in CPUs |-> IF e = d THEN rq[e] \cup {t} ELSE rq[e] \ {t}]
        /\ ready' = [ready EXCEPT ![t] = FALSE]
    BY <1>0, <1>2, <2>0 DEF TaskRun, Relink
  <2>2. TypeOK' BY <2>0, <2>1, <1>0 DEF TypeOK, States, TaskRun, Request, lockVars
  <2>3. ~onCpu[t] /\ \A e \in CPUs : cur[e] = t => klock = e /\ mode = "pick"
    BY <1>0, <1>2 DEF RunsAtHome, OneCpuPerTask, TypeOK
  <2>4. QueueConsistent' BY <2>1, <1>0 DEF TypeOK, QueueConsistent
  <2>5. OneCpuPerTask' BY <2>1, <1>0 DEF TypeOK, OneCpuPerTask
  <2>6. RunsAtHome' BY <2>1, <2>3, <1>0 DEF TypeOK, RunsAtHome
  <2>7. RequestDelivered' /\ need'[d] /\ \A e \in CPUs : e # d => need'[e] = need[e]
    BY <2>0, <1>0, RequestLemma
  <2>8. KillDelivered' /\ ReleaseClean'
    BY <2>1, <2>3, <2>7, <1>0 DEF TypeOK, KillDelivered, ReleaseClean
  <2>9. NoIdleWithWork' BY <2>1, <2>7, <1>0 DEF TypeOK, NoIdleWithWork
  <2>10. ArmedShape' /\ NoLostWakeup'
    BY <2>1, <2>3, <1>0, <1>2 DEF TypeOK, ArmedShape, NoLostWakeup, RunsAtHome
  <2> QED BY <2>2, <2>4, <2>5, <2>6, <2>7, <2>8, <2>9, <2>10, <1>0
<1> QED BY <1>0, <1>1, <1>2 DEF TaskRun

\* task_publish: a new task is queued and its CPU asked to look.
LEMMA PublishStep ==
  ASSUME SchedulerInv, NEW c \in CPUs, NEW t \in Tasks, Publish(c, t)
  PROVE  SchedulerInv'
<1> USE SchedulerConstants DEF SchedulerInv, LockShape, InBody
<1>0. /\ klock = c /\ klock' = c /\ mode' = mode /\ nest' = nest /\ cur' = cur
      /\ mode = "body" /\ st[t] = "ALLOCATING"
      /\ UNCHANGED <<onCpu, pinned, weight, ready, urgent, pend, armed, resume>>
      /\ st' = [st EXCEPT ![t] = "RUNNING"]
  BY DEF Publish, lockVars
<1>1. PICK d \in CPUs : Relink(t, d, pinned[t], TRUE) /\ Request(c, d)
  BY DEF Publish, LeastLoaded, TypeOK
<1>2. /\ cpu' = [cpu EXCEPT ![t] = d]
      /\ rq' = [e \in CPUs |-> IF e = d THEN rq[e] \cup {t} ELSE rq[e] \ {t}]
  BY <1>1 DEF Relink
<1>3. ~onCpu[t] /\ \A e \in CPUs : cur[e] # t
  BY <1>0 DEF RunsAtHome, OneCpuPerTask, TypeOK
<1>4. TypeOK' BY <1>0, <1>1, <1>2 DEF TypeOK, States, Request
<1>5. QueueConsistent' BY <1>0, <1>2 DEF TypeOK, QueueConsistent
<1>6. OneCpuPerTask' /\ RunsAtHome' BY <1>0, <1>2, <1>3 DEF TypeOK, OneCpuPerTask, RunsAtHome
<1>7. RequestDelivered' /\ need'[d] /\ \A e \in CPUs : e # d => need'[e] = need[e]
  BY <1>0, <1>1, RequestLemma
<1>8. KillDelivered' /\ ReleaseClean'
  BY <1>0, <1>2, <1>3, <1>7 DEF TypeOK, KillDelivered, ReleaseClean
<1>9. NoIdleWithWork' BY <1>0, <1>2, <1>7 DEF TypeOK, NoIdleWithWork
<1>10. ArmedShape' /\ NoLostWakeup' BY <1>0, <1>2 DEF TypeOK, ArmedShape, NoLostWakeup
<1> QED BY <1>0, <1>4, <1>5, <1>6, <1>7, <1>8, <1>9, <1>10

----------------------------------------------------------------------------
\* Steps that leave the tasks and the queues alone.

\* Steps that touch neither the queues nor any request.
LEMMA QuietStep ==
  ASSUME SchedulerInv, NEW c \in CPUs,
         \/ Arm(c) \/ Disarm(c) \/ Yield(c) \/ Enter(c) \/ Interrupt(c)
         \/ LeaveNested(c) \/ LeaveLock(c) \/ Release(c)
  PROVE  SchedulerInv'
<1> USE SchedulerConstants DEF SchedulerInv, LockShape, InBody, taskVars, queueVars, lockVars
<1>0. /\ UNCHANGED <<st, cpu, rq, onCpu, pinned, weight, ready, urgent, pend, cur, need, ipi>>
      /\ resume' \in [Tasks -> {"body", "release"}] /\ armed' \in [Tasks -> BOOLEAN]
  <2>1. CASE Arm(c) BY <2>1 DEF Arm, TypeOK, Modes
  <2>2. CASE Disarm(c) BY <2>2 DEF Disarm, TypeOK, Modes
  <2>3. CASE Yield(c) BY <2>3 DEF Yield, TypeOK, Modes
  <2>4. CASE Enter(c) BY <2>4 DEF Enter, TypeOK, Modes
  <2>5. CASE Interrupt(c) BY <2>5 DEF Interrupt, TypeOK, Modes
  <2>6. CASE LeaveNested(c) BY <2>6 DEF LeaveNested, TypeOK, Modes
  <2>7. CASE LeaveLock(c) BY <2>7 DEF LeaveLock, TypeOK, Modes
  <2>8. CASE Release(c) BY <2>8 DEF Release, TypeOK, Modes
  <2> QED BY <2>1, <2>2, <2>3, <2>4, <2>5, <2>6, <2>7, <2>8
<1>1. /\ klock' \in CPUs \cup {NoCpu} /\ mode' \in Modes /\ nest' \in BOOLEAN
      /\ LockShape' /\ mode' \notin {"pick"}
      /\ mode' \in {"next", "release"} => klock' = c
      /\ klock' \in CPUs => klock' = c
  <2>1. CASE Arm(c) BY <2>1 DEF Arm, TypeOK, Modes
  <2>2. CASE Disarm(c) BY <2>2 DEF Disarm, TypeOK, Modes
  <2>3. CASE Yield(c) BY <2>3 DEF Yield, TypeOK, Modes
  <2>4. CASE Enter(c) BY <2>4 DEF Enter, TypeOK, Modes
  <2>5. CASE Interrupt(c)
    <3>1. CASE klock = NoCpu
      BY <2>5, <3>1 DEF Interrupt, TypeOK, Modes
    <3>2. CASE klock = c
      <4>1. nest' = TRUE /\ klock' = klock /\ mode' = mode /\ mode \in {"body", "armed"} /\ cur' = cur
        BY <2>5, <3>2 DEF Interrupt
      <4> QED BY <4>1, <3>2 DEF TypeOK
    <3> QED BY <2>5, <3>1, <3>2 DEF Interrupt
  <2>6. CASE LeaveNested(c) BY <2>6 DEF LeaveNested, TypeOK, Modes
  <2>7. CASE LeaveLock(c) BY <2>7 DEF LeaveLock, TypeOK, Modes
  <2>8. CASE Release(c) BY <2>8 DEF Release, TypeOK, Modes
  <2> QED BY <2>1, <2>2, <2>3, <2>4, <2>5, <2>6, <2>7, <2>8
<1>2. TypeOK' BY <1>0, <1>1 DEF TypeOK
<1>3. mode \notin {"next", "pick"} /\ (klock \in CPUs => klock = c)
  BY DEF Arm, Disarm, Yield, Enter, Interrupt, LeaveNested, LeaveLock, Release, TypeOK
<1>4. QueueConsistent' /\ OneCpuPerTask'
  BY <1>0, <1>1, <1>3 DEF QueueConsistent, OneCpuPerTask, TypeOK
<1>5. RunsAtHome' BY <1>0, <1>1, <1>3 DEF RunsAtHome
<1>6. klock' = NoCpu => ~need[c]
  BY DEF Arm, Disarm, Yield, Enter, Interrupt, LeaveNested, LeaveLock, Release,
         PreemptNeeded, ReleaseClean
<1>7. RequestDelivered' /\ KillDelivered' /\ NoIdleWithWork'
  BY <1>0, <1>1, <1>3, <1>6 DEF RequestDelivered, KillDelivered, NoIdleWithWork, TypeOK
<1>8. mode' = "release" => mode = "release" /\ klock' = klock
  BY DEF Arm, Disarm, Yield, Enter, Interrupt, LeaveNested, LeaveLock, Release
<1>9. ReleaseClean' BY <1>0, <1>8 DEF ReleaseClean
<1>10. ArmedShape'
  BY <1>0 DEF ArmedShape, Arm, Disarm, Yield, Enter, Interrupt, LeaveNested,
             LeaveLock, Release, TypeOK
<1>11. NoLostWakeup'
  <2>1. CASE Disarm(c)
    <3>1. st[cur[c]] = "RUNNING" BY <2>1 DEF Disarm, RunsAtHome
    <3> QED BY <1>0, <2>1, <3>1 DEF Disarm, NoLostWakeup, TypeOK
  <2>2. CASE ~Disarm(c)
    BY <1>0, <2>2 DEF Arm, Yield, Enter, Interrupt, LeaveNested, LeaveLock,
                      Release, NoLostWakeup, TypeOK
  <2> QED BY <2>1, <2>2
<1> QED BY <1>1, <1>2, <1>4, <1>5, <1>7, <1>9, <1>10, <1>11

\* The reschedule interrupt turns the interrupt into a request of its CPU.
LEMMA RescheduleStep ==
  ASSUME SchedulerInv, NEW c \in CPUs, Reschedule(c)
  PROVE  SchedulerInv'
<1> USE SchedulerConstants DEF SchedulerInv, LockShape, taskVars, queueVars
<1>0. /\ UNCHANGED <<st, cpu, rq, onCpu, pinned, weight, ready, urgent, pend, armed, cur, nest>>
      /\ need' = [need EXCEPT ![c] = TRUE] /\ ipi' = [ipi EXCEPT ![c] = FALSE]
      /\ klock' = c /\ mode' \in {"next", "body", "armed"}
      /\ mode' # "next" => klock = c /\ mode' = mode
      /\ mode' = "next" => klock = NoCpu
  BY DEF Reschedule
<1>1. TypeOK' BY <1>0 DEF Reschedule, TypeOK, Modes
<1>2. LockShape' BY <1>0 DEF TypeOK
<1>3. QueueConsistent' /\ RunsAtHome' BY <1>0 DEF QueueConsistent, RunsAtHome, TypeOK
<1>31. OneCpuPerTask'
  <2>1. mode # "pick" /\ mode' # "pick" BY <1>0 DEF TypeOK
  <2> QED BY <1>0, <2>1 DEF OneCpuPerTask
<1>4. RequestDelivered' /\ ReleaseClean' BY <1>0 DEF RequestDelivered, ReleaseClean, TypeOK
<1>5. KillDelivered' BY <1>0 DEF KillDelivered, TypeOK
<1>6. NoIdleWithWork' BY <1>0 DEF NoIdleWithWork, TypeOK
<1>7. ArmedShape' /\ NoLostWakeup' BY <1>0 DEF ArmedShape, NoLostWakeup
<1> QED BY <1>1, <1>2, <1>3, <1>31, <1>4, <1>5, <1>6, <1>7

\* task_set_weight changes a load and nothing the invariant reads.
LEMMA SetWeightStep ==
  ASSUME SchedulerInv, NEW c \in CPUs, NEW t \in Tasks, NEW w \in Weights, SetWeight(c, t, w)
  PROVE  SchedulerInv'
<1> USE SchedulerConstants DEF SchedulerInv, LockShape, lockVars
<1>0. /\ UNCHANGED <<st, cpu, rq, onCpu, pinned, ready, urgent, pend, armed, resume,
                     cur, need, klock, mode, nest>>
      /\ weight' \in [Tasks -> Nat] /\ ipi' \in [CPUs -> BOOLEAN]
      /\ \A e \in CPUs : ipi[e] => ipi'[e]
  BY DEF SetWeight, TypeOK
<1>1. TypeOK' BY <1>0 DEF TypeOK
<1>2. QueueConsistent' /\ RunsAtHome' BY <1>0 DEF QueueConsistent, RunsAtHome
<1>21. OneCpuPerTask' BY <1>0 DEF OneCpuPerTask
<1>3. RequestDelivered' /\ ReleaseClean' /\ KillDelivered' /\ NoIdleWithWork'
  BY <1>0 DEF RequestDelivered, ReleaseClean, KillDelivered, NoIdleWithWork
<1>4. ArmedShape' /\ NoLostWakeup' BY <1>0 DEF ArmedShape, NoLostWakeup
<1> QED BY <1>0, <1>1, <1>2, <1>21, <1>3, <1>4

----------------------------------------------------------------------------
\* Blocking, and the end of a task.

\* task_fall_blocked_reason: a task that blocks is registered with its event.
LEMMA BlockStep ==
  ASSUME SchedulerInv, NEW c \in CPUs, Block(c)
  PROVE  SchedulerInv'
<1> USE SchedulerConstants DEF SchedulerInv, LockShape, WakeHeld, queueVars
<1> DEFINE t == cur[c]
<1>0. /\ klock = c /\ mode = "armed" /\ ~nest /\ t \in Tasks
      /\ UNCHANGED <<onCpu, pinned, weight, urgent, pend, armed, cur, need, ipi, klock, nest>>
      /\ ready' = [ready EXCEPT ![t] = FALSE]
  BY DEF Block, TypeOK
<1>1. CASE ready[t]
  <2>1. mode' = "body" /\ UNCHANGED <<st, cpu, rq, resume>> BY <1>1 DEF Block
  <2>2. TypeOK' BY <1>0, <2>1 DEF TypeOK, Modes
  <2>3. LockShape' /\ QueueConsistent' /\ OneCpuPerTask' /\ RunsAtHome'
    BY <1>0, <2>1 DEF QueueConsistent, OneCpuPerTask, RunsAtHome
  <2>4. RequestDelivered' /\ ReleaseClean' /\ KillDelivered' /\ NoIdleWithWork'
    BY <1>0, <2>1 DEF RequestDelivered, ReleaseClean, KillDelivered, NoIdleWithWork
  <2>5. ArmedShape' /\ NoLostWakeup' BY <1>0, <2>1 DEF ArmedShape, NoLostWakeup
  <2> QED BY <2>2, <2>3, <2>4, <2>5
<1>2. CASE ~ready[t]
  <2>1. /\ mode' = "next" /\ st' = [st EXCEPT ![t] = "WAITING"] /\ cpu' = cpu
        /\ rq' = [d \in CPUs |-> rq[d] \ {t}]
        /\ resume' = [resume EXCEPT ![t] = "body"]
    BY <1>2, <1>0 DEF Block, Relink, TypeOK
  <2>2. TypeOK' BY <1>0, <2>1 DEF TypeOK, Modes, States
  <2>3. LockShape' BY <1>0, <2>1
  <2>4. QueueConsistent' BY <1>0, <2>1 DEF QueueConsistent, TypeOK
  <2>5. OneCpuPerTask' BY <1>0, <2>1 DEF OneCpuPerTask
  <2>6. RunsAtHome' BY <1>0, <2>1 DEF RunsAtHome, OneCpuPerTask, TypeOK
  <2>7. RequestDelivered' /\ ReleaseClean' /\ KillDelivered' /\ NoIdleWithWork'
    BY <1>0, <2>1 DEF RequestDelivered, ReleaseClean, KillDelivered, NoIdleWithWork, TypeOK
  <2>8. ArmedShape' /\ NoLostWakeup'
    BY <1>0, <1>2, <2>1 DEF ArmedShape, NoLostWakeup, TypeOK
  <2> QED BY <2>2, <2>3, <2>4, <2>5, <2>6, <2>7, <2>8
<1> QED BY <1>1, <1>2

\* task_kill: a task elsewhere is finished, a running one is interrupted.
LEMMA KillStep ==
  ASSUME SchedulerInv, NEW c \in CPUs, NEW t \in Tasks, Kill(c, t)
  PROVE  SchedulerInv'
<1> USE SchedulerConstants DEF SchedulerInv, LockShape, lockVars, queueVars
<1>0. /\ klock = c /\ mode = "body" /\ t # cur[c] /\ st[t] \in {"RUNNING", "WAITING"}
      /\ UNCHANGED <<onCpu, pinned, weight, ready, urgent, resume, cur, klock, mode, nest>>
  BY DEF Kill, InBody
<1>1. CASE onCpu[t]
  <2>1. /\ pend' = [pend EXCEPT ![t] = TRUE] /\ Request(c, cpu[t])
        /\ UNCHANGED <<st, cpu, rq, armed>> /\ cpu[t] \in CPUs
    BY <1>1 DEF Kill, TypeOK
  <2>2. /\ need' \in [CPUs -> BOOLEAN] /\ ipi' \in [CPUs -> BOOLEAN] /\ need'[cpu[t]]
        /\ \A e \in CPUs : e # cpu[t] => need'[e] = need[e]
        /\ RequestDelivered'
    BY <2>1, <1>0, RequestLemma
  <2>3. TypeOK' BY <1>0, <2>1, <2>2 DEF TypeOK
  <2>4. QueueConsistent' /\ RunsAtHome' BY <1>0, <2>1 DEF QueueConsistent, RunsAtHome
  <2>5. OneCpuPerTask' BY <1>0, <2>1 DEF OneCpuPerTask
  <2>6. KillDelivered' /\ ReleaseClean'
    BY <1>0, <2>1, <2>2 DEF KillDelivered, ReleaseClean, TypeOK
  <2>7. NoIdleWithWork' BY <1>0, <2>1, <2>2 DEF NoIdleWithWork, TypeOK
  <2>8. ArmedShape' /\ NoLostWakeup' BY <1>0, <2>1 DEF ArmedShape, NoLostWakeup
  <2> QED BY <1>0, <2>2, <2>3, <2>4, <2>5, <2>6, <2>7, <2>8
<1>2. CASE ~onCpu[t]
  <2>1. Finish(t) /\ UNCHANGED <<need, ipi>> BY <1>2 DEF Kill
  <2>2. /\ st' \in [Tasks -> States] /\ cpu' = cpu /\ rq' \in [CPUs -> SUBSET Tasks]
        /\ pend' \in [Tasks -> BOOLEAN] /\ armed' \in [Tasks -> BOOLEAN]
        /\ QueueConsistent' /\ NoLostWakeup'
        /\ \A d \in CPUs : rq'[d] = rq[d] \ {t}
        /\ \A u \in Tasks \ {t} : st'[u] = st[u] /\ pend'[u] = pend[u] /\ armed'[u] = armed[u]
    BY <2>1, FinishLemma
  <2>3. TypeOK' BY <1>0, <2>1, <2>2 DEF TypeOK
  <2>4. \A e \in CPUs : cur[e] # t BY <1>0, <1>2 DEF OneCpuPerTask
  <2>5. RunsAtHome' BY <1>0, <2>2, <2>4 DEF RunsAtHome, TypeOK
  <2>6. OneCpuPerTask' BY <1>0 DEF OneCpuPerTask
  <2>7. RequestDelivered' /\ ReleaseClean' BY <1>0, <2>1 DEF RequestDelivered, ReleaseClean
  <2>8. KillDelivered' BY <1>0, <1>2, <2>1, <2>2 DEF KillDelivered
  <2>9. NoIdleWithWork' BY <1>0, <2>1, <2>2 DEF NoIdleWithWork, TypeOK
  <2>10. ArmedShape' BY <1>0 DEF ArmedShape
  <2> QED BY <1>0, <2>2, <2>3, <2>5, <2>6, <2>7, <2>8, <2>9, <2>10
<1> QED BY <1>1, <1>2

\* A task that ends itself goes on to task_next.
LEMMA ExitStep ==
  ASSUME SchedulerInv, NEW c \in CPUs, Exit(c)
  PROVE  SchedulerInv'
<1> USE SchedulerConstants DEF SchedulerInv, LockShape
<1> DEFINE t == cur[c]
<1>0. /\ klock = c /\ mode = "body" /\ mode' = "next" /\ Finish(t) /\ ~nest /\ t \in Tasks
      /\ UNCHANGED <<onCpu, pinned, weight, ready, urgent, cur, need, ipi, klock, nest>>
      /\ resume' = [resume EXCEPT ![t] = "body"]
  BY DEF Exit, TypeOK
<1>2. /\ st' \in [Tasks -> States] /\ cpu' = cpu /\ rq' \in [CPUs -> SUBSET Tasks]
      /\ pend' \in [Tasks -> BOOLEAN] /\ armed' \in [Tasks -> BOOLEAN]
      /\ QueueConsistent' /\ NoLostWakeup'
      /\ \A d \in CPUs : rq'[d] = rq[d] \ {t}
      /\ \A u \in Tasks \ {t} : st'[u] = st[u] /\ pend'[u] = pend[u] /\ armed'[u] = armed[u]
  BY <1>0, FinishLemma
<1>3. TypeOK' BY <1>0, <1>2 DEF TypeOK, Modes
<1>4. \A e \in CPUs : e # c => cur[e] # t BY <1>0 DEF OneCpuPerTask
<1>5. RunsAtHome' BY <1>0, <1>2, <1>4 DEF RunsAtHome, TypeOK
<1>6. OneCpuPerTask' BY <1>0 DEF OneCpuPerTask
<1>7. RequestDelivered' /\ ReleaseClean' BY <1>0 DEF RequestDelivered, ReleaseClean
<1>8. cpu[t] = c BY <1>0 DEF RunsAtHome
<1>9. KillDelivered' BY <1>0, <1>2, <1>8 DEF KillDelivered
<1>10. NoIdleWithWork' BY <1>0, <1>2 DEF NoIdleWithWork, TypeOK
<1>11. ArmedShape' /\ LockShape' BY <1>0 DEF ArmedShape
<1> QED BY <1>2, <1>3, <1>5, <1>6, <1>7, <1>9, <1>10, <1>11

\* scheduler_pick_next finishes the killed tasks it meets.
LEMMA PickFinishStep ==
  ASSUME SchedulerInv, NEW c \in CPUs, NEW t \in Tasks, PickFinish(c, t)
  PROVE  SchedulerInv'
<1> USE SchedulerConstants DEF SchedulerInv, LockShape, lockVars
<1>0. /\ klock = c /\ mode = "pick" /\ Finish(t) /\ ~onCpu[t] /\ t # cur[c]
      /\ UNCHANGED <<onCpu, pinned, weight, ready, urgent, resume, cur, need, ipi,
                     klock, mode, nest>>
  BY DEF PickFinish
<1>2. /\ st' \in [Tasks -> States] /\ cpu' = cpu /\ rq' \in [CPUs -> SUBSET Tasks]
      /\ pend' \in [Tasks -> BOOLEAN] /\ armed' \in [Tasks -> BOOLEAN]
      /\ QueueConsistent' /\ NoLostWakeup'
      /\ \A d \in CPUs : rq'[d] = rq[d] \ {t}
      /\ \A u \in Tasks \ {t} : st'[u] = st[u] /\ pend'[u] = pend[u] /\ armed'[u] = armed[u]
  BY <1>0, FinishLemma
<1>3. TypeOK' BY <1>0, <1>2 DEF TypeOK
<1>4. \A e \in CPUs : cur[e] # t BY <1>0 DEF OneCpuPerTask
<1>5. RunsAtHome' BY <1>0, <1>2, <1>4 DEF RunsAtHome, TypeOK
<1>6. OneCpuPerTask' BY <1>0 DEF OneCpuPerTask
<1>7. RequestDelivered' /\ ReleaseClean' BY <1>0 DEF RequestDelivered, ReleaseClean
<1>9. KillDelivered' BY <1>0, <1>2 DEF KillDelivered
<1>10. NoIdleWithWork' BY <1>0, <1>2 DEF NoIdleWithWork, TypeOK
<1>11. ArmedShape' /\ LockShape' BY <1>0 DEF ArmedShape
<1> QED BY <1>2, <1>3, <1>5, <1>6, <1>7, <1>9, <1>10, <1>11

----------------------------------------------------------------------------
\* task_next.

\* task_next takes the current task off its CPU.
LEMMA NextBeginStep ==
  ASSUME SchedulerInv, NEW c \in CPUs, NextBegin(c)
  PROVE  SchedulerInv'
<1> USE SchedulerConstants DEF SchedulerInv, LockShape, queueVars
<1> DEFINE t == cur[c]
<1>0. /\ klock = c /\ mode = "next" /\ mode' = "pick" /\ ~nest
      /\ onCpu' = [u \in Tasks |-> onCpu[u] /\ u # t]
      /\ UNCHANGED <<pinned, weight, ready, urgent, resume, cur, need, ipi, klock, nest>>
  BY DEF NextBegin, TakenOff
<1>1. /\ st' \in [Tasks -> States] /\ cpu' = cpu /\ rq' \in [CPUs -> SUBSET Tasks]
      /\ pend' \in [Tasks -> BOOLEAN] /\ armed' \in [Tasks -> BOOLEAN]
      /\ QueueConsistent' /\ NoLostWakeup'
      /\ \A d \in CPUs : \A u \in rq'[d] : u \in rq[d] /\ pend'[u] = pend[u]
      /\ \A u \in Tasks \ {t} : st'[u] = st[u] /\ pend'[u] = pend[u]
  <2>1. CASE t # Idle /\ pend[t]
    <3>1. t \in Tasks /\ Finish(t) BY <2>1 DEF NextBegin, TypeOK
    <3>2. /\ st' \in [Tasks -> States] /\ cpu' = cpu /\ rq' \in [CPUs -> SUBSET Tasks]
          /\ pend' \in [Tasks -> BOOLEAN] /\ armed' \in [Tasks -> BOOLEAN]
          /\ QueueConsistent' /\ NoLostWakeup'
          /\ \A d \in CPUs : rq'[d] = rq[d] \ {t}
          /\ \A u \in Tasks \ {t} : st'[u] = st[u] /\ pend'[u] = pend[u] /\ armed'[u] = armed[u]
      BY <3>1, FinishLemma
    <3> QED BY <3>2 DEF TypeOK
  <2>2. CASE ~(t # Idle /\ pend[t])
    <3>1. UNCHANGED <<st, cpu, rq, pend, armed>> BY <2>2 DEF NextBegin
    <3> QED BY <3>1 DEF TypeOK, QueueConsistent, NoLostWakeup
  <2> QED BY <2>1, <2>2
<1>3. TypeOK' BY <1>0, <1>1 DEF TypeOK, Modes
<1>4. \A e \in CPUs : e # c => cur[e] # t \/ t = Idle BY <1>0 DEF OneCpuPerTask
<1>5. RunsAtHome' BY <1>0, <1>1, <1>4 DEF RunsAtHome, TypeOK
<1>6. OneCpuPerTask' BY <1>0, <1>4 DEF OneCpuPerTask, TypeOK
<1>7. RequestDelivered' /\ ReleaseClean' BY <1>0 DEF RequestDelivered, ReleaseClean
<1>8. KillDelivered'
  <2> SUFFICES ASSUME NEW u \in Tasks, pend'[u], onCpu'[u] PROVE need[cpu[u]]
    BY <1>0, <1>1 DEF KillDelivered
  <2>1. u # t /\ onCpu[u] /\ pend[u] BY <1>0, <1>1 DEF TypeOK
  <2>2. PICK e \in CPUs : cur[e] = u BY <2>1 DEF OneCpuPerTask
  <2>3. e # c /\ u # Idle BY <2>1, <2>2 DEF TypeOK
  <2>4. cpu[u] = e BY <1>0, <2>2, <2>3 DEF RunsAtHome
  <2> QED BY <1>0, <2>1, <2>3, <2>4 DEF KillDelivered
<1>9. NoIdleWithWork'
  <2> SUFFICES ASSUME NEW e \in CPUs, e # c, cur[e] = Idle, NEW u \in rq'[e], ~pend'[u]
               PROVE  need[e]
    BY <1>0 DEF NoIdleWithWork
  <2>1. u \in rq[e] /\ ~pend[u] BY <1>1 DEF TypeOK
  <2> QED BY <1>0, <2>1 DEF NoIdleWithWork
<1>10. ArmedShape' /\ LockShape' BY <1>0 DEF ArmedShape
<1> QED BY <1>1, <1>3, <1>5, <1>6, <1>7, <1>8, <1>9, <1>10

\* The switch takes a runnable task, or idles on a queue without one.
LEMMA SwitchStep ==
  ASSUME SchedulerInv, NEW c \in CPUs, Switch(c)
  PROVE  SchedulerInv'
<1> USE SchedulerConstants DEF SchedulerInv, LockShape, queueVars
<1>0. /\ klock = c /\ mode = "pick" /\ ~nest
      /\ need' = [need EXCEPT ![c] = FALSE]
      /\ UNCHANGED <<st, cpu, rq, pinned, weight, pend, armed, resume, ipi, klock, nest>>
  BY DEF Switch
<1>1. \A e \in CPUs : e # c /\ cur[e] # Idle => onCpu[cur[e]] /\ cpu[cur[e]] = e
  <2>1. \A e \in CPUs : cur[e] # Idle => cur[e] \in Tasks BY DEF TypeOK
  <2>2. OneCpuPerTask /\ RunsAtHome OBVIOUS
  <2> QED BY ONLY <1>0, <2>1, <2>2 DEF RunsAtHome, OneCpuPerTask
<1>2. \A u \in Tasks : onCpu[u] => \E e \in CPUs : e # c /\ cur[e] = u
  BY <1>0 DEF OneCpuPerTask
<1>3. \A u \in Tasks : cpu[u] = c => ~onCpu[u]
  BY <1>1, <1>2
<1>4. QueueConsistent' /\ NoLostWakeup' BY <1>0 DEF QueueConsistent, NoLostWakeup
<1>5. RequestDelivered' BY <1>0 DEF RequestDelivered, TypeOK
<1>6. CASE \E t \in Preferred(c) :
          /\ cur' = [cur EXCEPT ![c] = t]
          /\ onCpu' = [onCpu EXCEPT ![t] = TRUE]
          /\ urgent' = [urgent EXCEPT ![t] = FALSE]
          /\ ready' = [ready EXCEPT ![t] = FALSE]
          /\ mode' = resume[t]
  <2>1. PICK t \in Tasks : /\ t \in rq[c] /\ ~pend[t]
          /\ cur' = [cur EXCEPT ![c] = t]
          /\ onCpu' = [onCpu EXCEPT ![t] = TRUE]
          /\ urgent' = [urgent EXCEPT ![t] = FALSE]
          /\ ready' = [ready EXCEPT ![t] = FALSE]
          /\ mode' = resume[t] /\ mode' \in {"body", "release"}
    BY <1>6 DEF Preferred, Eligible, TypeOK
  <2>2. st[t] = "RUNNING" /\ cpu[t] = c /\ ~onCpu[t] BY <2>1, <1>3 DEF QueueConsistent
  <2>3. TypeOK' BY <1>0, <2>1 DEF TypeOK, Modes
  <2>4. OneCpuPerTask' BY <1>0, <1>1, <1>2, <2>1, <2>2 DEF OneCpuPerTask, TypeOK
  <2>5. RunsAtHome' BY <1>0, <2>1, <2>2 DEF RunsAtHome, TypeOK
  <2>6. KillDelivered'
    BY <1>0, <1>3, <2>1, <2>2 DEF KillDelivered, TypeOK
  <2>7. NoIdleWithWork' BY <1>0, <2>1 DEF NoIdleWithWork, TypeOK
  <2>8. LockShape' /\ ReleaseClean' /\ ArmedShape'
    BY <1>0, <2>1 DEF ReleaseClean, ArmedShape, TypeOK
  <2> QED BY <1>4, <1>5, <2>3, <2>4, <2>5, <2>6, <2>7, <2>8
<1>7. CASE /\ Eligible(c) = {}
           /\ cur' = [cur EXCEPT ![c] = Idle] /\ mode' = "release"
           /\ UNCHANGED <<onCpu, urgent, ready>>
  <2>3. TypeOK' BY <1>0, <1>7 DEF TypeOK, Modes
  <2>4. OneCpuPerTask' BY <1>0, <1>1, <1>2, <1>7 DEF OneCpuPerTask, TypeOK
  <2>5. RunsAtHome' BY <1>0, <1>7 DEF RunsAtHome, TypeOK
  <2>6. KillDelivered' BY <1>0, <1>3, <1>7 DEF KillDelivered, TypeOK
  <2>7. \A u \in rq[c] : pend[u]
    BY <1>3, <1>7 DEF Eligible, QueueConsistent, TypeOK
  <2>8. NoIdleWithWork' BY <1>0, <1>7, <2>7 DEF NoIdleWithWork, TypeOK
  <2>9. LockShape' /\ ReleaseClean' /\ ArmedShape'
    BY <1>0, <1>7 DEF ReleaseClean, ArmedShape, TypeOK
  <2> QED BY <1>4, <1>5, <2>3, <2>4, <2>5, <2>6, <2>8, <2>9
<1> QED BY <1>6, <1>7 DEF Switch

----------------------------------------------------------------------------
\* Load balancing and pinning.

\* A pull moves a queued task that is on no CPU to a queue that is asked to
\* look; `more' are further CPUs that get a request of their own.
LEMMA MoveLemma ==
  ASSUME SchedulerInv, NEW c \in CPUs, klock = c, mode \in {"pick", "irq", "body", "armed"},
         NEW target \in CPUs, NEW t \in Pullable(target),
         Relink(t, target, pinned[t], TRUE),
         need' \in [CPUs -> BOOLEAN], ipi' \in [CPUs -> BOOLEAN],
         need'[target], \A e \in CPUs : need[e] => need'[e], RequestDelivered',
         UNCHANGED <<st, onCpu, pinned, weight, ready, urgent, pend, armed, resume,
                     cur, klock, mode, nest>>
  PROVE  SchedulerInv'
<1> USE SchedulerConstants DEF SchedulerInv, LockShape
<1>1. PICK s \in CPUs : t \in rq[s] /\ ~onCpu[t] /\ ~pend[t] /\ t \in Tasks
  BY DEF Pullable, Candidates, Donors
<1>2. st[t] = "RUNNING" /\ cpu[t] = s BY <1>1 DEF QueueConsistent
<1>3. /\ cpu' = [cpu EXCEPT ![t] = target]
      /\ rq' = [e \in CPUs |-> IF e = target THEN rq[e] \cup {t} ELSE rq[e] \ {t}]
  BY DEF Relink
<1>4. TypeOK' BY <1>1, <1>3 DEF TypeOK
<1>5. QueueConsistent' BY <1>1, <1>2, <1>3 DEF QueueConsistent, TypeOK
<1>6. OneCpuPerTask' BY DEF OneCpuPerTask
<1>7. \A e \in CPUs : cur[e] = t => klock = e /\ mode = "pick"
  BY <1>1 DEF OneCpuPerTask, TypeOK
<1>8. RunsAtHome' BY <1>1, <1>3, <1>7 DEF RunsAtHome, TypeOK
<1>9. KillDelivered' BY <1>1, <1>3 DEF KillDelivered, TypeOK
<1>10. NoIdleWithWork' BY <1>1, <1>3 DEF NoIdleWithWork, TypeOK
<1>11. ReleaseClean' /\ ArmedShape' /\ NoLostWakeup' /\ LockShape'
  BY DEF ReleaseClean, ArmedShape, NoLostWakeup
<1> QED BY <1>4, <1>5, <1>6, <1>8, <1>9, <1>10, <1>11

\* An idle CPU pulls work before it idles.
LEMMA PickPullStep ==
  ASSUME SchedulerInv, NEW c \in CPUs, PickPull(c)
  PROVE  SchedulerInv'
<1>1. /\ klock = c /\ mode = "pick"
      /\ UNCHANGED <<st, onCpu, pinned, weight, ready, urgent, pend, armed, resume,
                     cur, klock, mode, nest>>
  BY DEF PickPull, lockVars
<1>2. PICK t \in Pullable(c) : Relink(t, c, pinned[t], TRUE) /\ Request(c, c)
  BY DEF PickPull, PullInto
<1>3. /\ need' \in [CPUs -> BOOLEAN] /\ ipi' \in [CPUs -> BOOLEAN]
      /\ need'[c] /\ (\A e \in CPUs : e # c => need'[e] = need[e]) /\ RequestDelivered'
  BY <1>1, <1>2, RequestLemma DEF SchedulerInv
<1> QED BY <1>1, <1>2, <1>3, MoveLemma

\* The timer tick balances the queues.
LEMMA TickStep ==
  ASSUME SchedulerInv, NEW c \in CPUs, Tick(c)
  PROVE  SchedulerInv'
<1> USE SchedulerConstants
<1>1. /\ klock = c /\ mode \in {"irq", "body", "armed"}
      /\ UNCHANGED <<st, onCpu, pinned, weight, ready, urgent, pend, armed, resume,
                     cur, klock, mode, nest>>
  BY DEF Tick, InIrq, lockVars, SchedulerInv, LockShape
<1>2. CASE need' = [need EXCEPT ![c] = TRUE] /\ UNCHANGED <<cpu, queueVars, ipi>>
  <2> USE DEF SchedulerInv, LockShape, queueVars
  <2>1. TypeOK' BY <1>1, <1>2 DEF TypeOK
  <2>2. QueueConsistent' /\ RunsAtHome' BY <1>1, <1>2 DEF QueueConsistent, RunsAtHome
  <2>3. OneCpuPerTask' BY <1>1 DEF OneCpuPerTask
  <2>4. RequestDelivered' /\ ReleaseClean' BY <1>1, <1>2 DEF RequestDelivered, ReleaseClean, TypeOK
  <2>5. KillDelivered' /\ NoIdleWithWork' BY <1>1, <1>2 DEF KillDelivered, NoIdleWithWork, TypeOK
  <2>6. ArmedShape' /\ NoLostWakeup' /\ LockShape' BY <1>1 DEF ArmedShape, NoLostWakeup
  <2> QED BY <2>1, <2>2, <2>3, <2>4, <2>5, <2>6
<1>3. ASSUME NEW target \in Least, NEW t \in Pullable(target),
             Relink(t, target, pinned[t], TRUE),
             need' = [need EXCEPT ![c] = TRUE, ![target] = TRUE],
             ipi' = [ipi EXCEPT ![target] = @ \/ (~need[target] /\ target # c)]
      PROVE  SchedulerInv'
  <2>1. target \in CPUs BY DEF Least
  <2>2. /\ need' \in [CPUs -> BOOLEAN] /\ ipi' \in [CPUs -> BOOLEAN]
        /\ need'[target] /\ \A e \in CPUs : need[e] => need'[e]
    BY <1>3, <2>1 DEF SchedulerInv, TypeOK
  <2>3. RequestDelivered'
    <3> SUFFICES ASSUME NEW e \in CPUs, need'[e], e # c PROVE ipi'[e]
      BY <1>1 DEF RequestDelivered
    <3>1. need[e] => ipi[e] BY <1>1 DEF SchedulerInv, RequestDelivered
    <3>2. CASE e = target BY <1>3, <2>1, <3>1, <3>2 DEF SchedulerInv, TypeOK
    <3>3. CASE e # target BY <1>3, <2>1, <3>1, <3>3 DEF SchedulerInv, TypeOK
    <3> QED BY <3>2, <3>3
  <2> QED BY <1>1, <1>3, <2>1, <2>2, <2>3, MoveLemma
<1> QED BY <1>2, <1>3 DEF Tick

\* task_pin_current moves an address space to CPU 0.
LEMMA PinStep ==
  ASSUME SchedulerInv, NEW c \in CPUs, Pin(c)
  PROVE  SchedulerInv'
<1> USE SchedulerConstants DEF SchedulerInv, LockShape
<1> DEFINE t == cur[c]
           M == Members(t)
<1>0. /\ klock = c /\ mode = "body" /\ ~nest /\ t \in Tasks /\ ~pend[t]
      /\ \A u \in M \ {t} : ~onCpu[u]
      /\ cpu' = [u \in Tasks |-> IF u \in M THEN 0 ELSE cpu[u]]
      /\ rq' = [d \in CPUs |-> (rq[d] \ M)
                   \cup (IF d = 0 THEN {u \in M : st[u] = "RUNNING"} ELSE {})]
      /\ pinned' = [u \in Tasks |-> pinned[u] \/ u \in M]
      /\ UNCHANGED <<st, onCpu, weight, ready, urgent, pend, armed, cur, klock, nest>>
      /\ M \subseteq Tasks /\ 0 \in CPUs
  BY DEF Pin, InBody, TypeOK, Members
<1>1. /\ need' \in [CPUs -> BOOLEAN] /\ ipi' \in [CPUs -> BOOLEAN] /\ RequestDelivered'
      /\ \A e \in CPUs : need[e] => need'[e]
      /\ (\E u \in M : cpu[u] # 0) => need'[0]
  <2>1. CASE Request(c, 0) BY <1>0, <2>1, RequestLemma
  <2>2. CASE UNCHANGED <<need, ipi>> /\ ~ \E u \in M : cpu[u] # 0
    BY <1>0, <2>2 DEF TypeOK, RequestDelivered
  <2> QED BY <2>1, <2>2 DEF Pin
<1>2. /\ resume' \in [Tasks -> {"body", "release"}]
      /\ (c = 0 /\ mode' = "body") \/ mode' = "next"
  BY <1>0 DEF Pin, GoHome, TypeOK
<1>3. TypeOK' BY <1>0, <1>1, <1>2 DEF TypeOK, Modes
<1>4. QueueConsistent' BY <1>0 DEF QueueConsistent, TypeOK
<1>5. OneCpuPerTask' BY <1>0, <1>2 DEF OneCpuPerTask
<1>6. \A e \in CPUs : e # c /\ cur[e] # Idle => onCpu[cur[e]] /\ cur[e] \notin M
  BY <1>0 DEF OneCpuPerTask, TypeOK
<1>7. RunsAtHome' BY <1>0, <1>2, <1>6 DEF RunsAtHome, TypeOK
<1>8. KillDelivered'
  <2> SUFFICES ASSUME NEW u \in Tasks, pend[u], onCpu[u] PROVE need'[cpu'[u]]
    BY <1>0 DEF KillDelivered
  <2>1. u \notin M BY <1>0
  <2> QED BY <1>0, <1>1, <2>1 DEF KillDelivered, TypeOK
<1>9. NoIdleWithWork'
  <2> SUFFICES ASSUME NEW e \in CPUs, cur[e] = Idle, NEW u \in rq'[e], ~pend[u]
               PROVE  need'[e]
    BY <1>0 DEF NoIdleWithWork
  <2>1. CASE u \in rq[e] BY <1>0, <1>1, <2>1 DEF NoIdleWithWork, TypeOK
  <2>2. CASE u \notin rq[e]
    <3>1. e = 0 /\ u \in M /\ st[u] = "RUNNING" BY <1>0, <2>2
    <3>2. cpu[u] # 0 BY <3>1, <2>2, <1>0 DEF QueueConsistent
    <3> QED BY <3>1, <3>2, <1>1
  <2> QED BY <2>1, <2>2
<1>10. LockShape' /\ ReleaseClean' /\ ArmedShape' /\ NoLostWakeup'
  BY <1>0, <1>2 DEF ReleaseClean, ArmedShape, NoLostWakeup
<1> QED BY <1>1, <1>3, <1>4, <1>5, <1>7, <1>8, <1>9, <1>10

----------------------------------------------------------------------------
\* The theorems.

\* A step that changes nothing.
LEMMA StutterStep == ASSUME SchedulerInv, UNCHANGED vars PROVE SchedulerInv'
<1> USE DEF SchedulerInv, vars
<1>1. TypeOK' /\ LockShape' /\ QueueConsistent' /\ RunsAtHome'
  BY DEF TypeOK, LockShape, QueueConsistent, RunsAtHome
<1>2. OneCpuPerTask' BY DEF OneCpuPerTask
<1>3. RequestDelivered' /\ ReleaseClean' /\ KillDelivered' /\ NoIdleWithWork'
  BY DEF RequestDelivered, ReleaseClean, KillDelivered, NoIdleWithWork
<1>4. ArmedShape' /\ NoLostWakeup' BY DEF ArmedShape, NoLostWakeup
<1> QED BY <1>1, <1>2, <1>3, <1>4

\* SchedulerInv holds in every reachable state of Scheduler, whatever the
\* number of processors and tasks (mtask.c under the kernel lock).
THEOREM SchedulerCorrect == Spec => []SchedulerInv
<1>1. Init => SchedulerInv BY InitInv
<1>2. SchedulerInv /\ [Next]_vars => SchedulerInv'
  <2> SUFFICES ASSUME SchedulerInv, [Next]_vars PROVE SchedulerInv' OBVIOUS
  <2>1. CASE UNCHANGED vars BY <2>1, StutterStep
  <2>2. CASE Next
    <3>1. PICK c \in CPUs :
            \/ Enter(c) \/ Interrupt(c) \/ Reschedule(c)
            \/ LeaveNested(c) \/ LeaveLock(c) \/ Release(c)
            \/ Arm(c) \/ Block(c) \/ Disarm(c) \/ Yield(c) \/ Exit(c) \/ Pin(c)
            \/ Tick(c) \/ NextBegin(c) \/ PickPull(c) \/ Switch(c)
            \/ \E t \in Tasks :
                 \/ Fire(c, t) \/ Signal(c, t) \/ Publish(c, t) \/ Kill(c, t)
                 \/ PickFinish(c, t)
                 \/ \E w \in Weights : SetWeight(c, t, w)
      BY <2>2 DEF Next
    <3>2. CASE \/ Arm(c) \/ Disarm(c) \/ Yield(c) \/ Enter(c) \/ Interrupt(c)
               \/ LeaveNested(c) \/ LeaveLock(c) \/ Release(c)
      BY <3>2, QuietStep
    <3>3. CASE Reschedule(c) \/ Block(c) \/ Exit(c) \/ Pin(c)
      BY <3>3, RescheduleStep, BlockStep, ExitStep, PinStep
    <3>4. CASE Tick(c) \/ NextBegin(c) \/ PickPull(c) \/ Switch(c)
      BY <3>4, TickStep, NextBeginStep, PickPullStep, SwitchStep
    <3>5. CASE \E t \in Tasks : Fire(c, t) \/ Signal(c, t) \/ Publish(c, t) \/ Kill(c, t)
      BY <3>5, WakeStep, PublishStep, KillStep
    <3>6. CASE \E t \in Tasks : PickFinish(c, t) \/ \E w \in Weights : SetWeight(c, t, w)
      BY <3>6, PickFinishStep, SetWeightStep
    <3> QED BY <3>1, <3>2, <3>3, <3>4, <3>5, <3>6
  <2> QED BY <2>1, <2>2
<1> QED BY <1>1, <1>2, PTL DEF Spec

\* Type correctness of the scheduler's state.
THEOREM SchedulerTypes == Spec => []TypeOK
BY SchedulerCorrect, PTL DEF SchedulerInv

\* Run-queue membership is exactly being RUNNING on that queue's CPU, through
\* every wake-up, block, pull, pin and kill.
THEOREM QueuesConsistent == Spec => []QueueConsistent
BY SchedulerCorrect, PTL DEF SchedulerInv

\* No task is ever current on two processors (one kernel stack, one CPU).
THEOREM StacksExclusive == Spec => []OneCpuPerTask
BY SchedulerCorrect, PTL DEF SchedulerInv

\* A reschedule request is never stranded by scheduler_request's test of
\* need_resched nor by kernel_lock_leave's single check.
THEOREM RequestsDelivered == Spec => []RequestDelivered
BY SchedulerCorrect, PTL DEF SchedulerInv

\* The kill of a running task always reaches the CPU it runs on.
THEOREM KillsDelivered == Spec => []KillDelivered
BY SchedulerCorrect, PTL DEF SchedulerInv

\* No processor sleeps on a queue with a live task and no request.
THEOREM NoIdling == Spec => []NoIdleWithWork
BY SchedulerCorrect, PTL DEF SchedulerInv

\* The ready flag closes the window between registering and blocking.
THEOREM WakeupsKept == Spec => []NoLostWakeup
BY SchedulerCorrect, PTL DEF SchedulerInv

----------------------------------------------------------------------------
\* Pinned tasks.

\* Only into_mtask and task_pin_current set the PINNED flag, both on CPU 0.
PinnedHome == \A t \in Tasks : pinned[t] => cpu[t] = 0

\* Every step but task_pin_current leaves the flags alone and changes the cpu
\* field of one task at most, never to another CPU when the task is pinned.
KeepsPinned ==
  /\ pinned' = pinned
  /\ \/ cpu' = cpu
     \/ \E t \in Tasks, d \in CPUs : /\ cpu' = [cpu EXCEPT ![t] = d]
                                     /\ pinned[t] => d = cpu[t]

\* The scheduler steps that change a cpu field through scheduler_remove and
\* scheduler_insert, and those that change none, all respect PINNED.
LEMMA KeepsPinnedStep ==
  ASSUME TypeOK, NEW c \in CPUs,
         \/ Enter(c) \/ Interrupt(c) \/ Reschedule(c)
         \/ LeaveNested(c) \/ LeaveLock(c) \/ Release(c)
         \/ Arm(c) \/ Block(c) \/ Disarm(c) \/ Yield(c) \/ Exit(c)
         \/ Tick(c) \/ NextBegin(c) \/ PickPull(c) \/ Switch(c)
         \/ \E t \in Tasks :
              \/ Fire(c, t) \/ Signal(c, t) \/ Publish(c, t) \/ Kill(c, t)
              \/ PickFinish(c, t)
              \/ \E w \in Weights : SetWeight(c, t, w)
  PROVE  KeepsPinned
<1> USE SchedulerConstants DEF KeepsPinned
<1>1. CASE \/ Enter(c) \/ Interrupt(c) \/ Reschedule(c) \/ LeaveNested(c)
           \/ LeaveLock(c) \/ Release(c) \/ Arm(c) \/ Disarm(c) \/ Yield(c) \/ Switch(c)
  BY <1>1 DEF Enter, Interrupt, Reschedule, LeaveNested, LeaveLock, Release, Arm,
              Disarm, Yield, Switch, taskVars
<1>2. CASE Block(c) \/ Exit(c) \/ NextBegin(c)
  <2>1. pinned' = pinned BY <1>2 DEF Block, Exit, NextBegin
  <2>2. cpu' = cpu \/ cpu' = [cpu EXCEPT ![cur[c]] = cpu[cur[c]]]
    BY <1>2 DEF Block, Exit, NextBegin, Finish, Relink
  <2> QED BY <2>1, <2>2 DEF TypeOK
<1>3. ASSUME NEW t \in Tasks, Fire(c, t) \/ Signal(c, t) \/ Publish(c, t)
      PROVE  KeepsPinned
  <2>1. pinned' = pinned BY <1>3 DEF Fire, Signal, Publish, TaskRun
  <2>2. \/ cpu' = cpu
        \/ \E d \in CPUs : cpu' = [cpu EXCEPT ![t] = d] /\ (pinned[t] => d = cpu[t])
    BY <1>3 DEF Fire, Signal, Publish, TaskRun, Relink, WakePlaces, LeastLoaded, TypeOK
  <2> QED BY <2>1, <2>2
<1>4. ASSUME NEW t \in Tasks,
             Kill(c, t) \/ PickFinish(c, t) \/ \E w \in Weights : SetWeight(c, t, w)
      PROVE  KeepsPinned
  <2>1. pinned' = pinned BY <1>4 DEF Kill, PickFinish, SetWeight
  <2>2. cpu' = cpu \/ cpu' = [cpu EXCEPT ![t] = cpu[t]]
    BY <1>4 DEF Kill, PickFinish, SetWeight, Finish, Relink
  <2> QED BY <2>1, <2>2 DEF TypeOK
<1>5. CASE Tick(c) \/ PickPull(c)
  <2>1. pinned' = pinned BY <1>5 DEF Tick, PickPull
  <2>2. \/ cpu' = cpu
        \/ \E d \in CPUs : \E t \in Pullable(d) : cpu' = [cpu EXCEPT ![t] = d]
    BY <1>5 DEF Tick, PickPull, PullInto, Relink, Least
  <2>3. \A d \in CPUs : \A t \in Pullable(d) : t \in Tasks /\ ~pinned[t]
    BY DEF Pullable, Candidates, TypeOK
  <2> QED BY <2>1, <2>2, <2>3
<1> QED BY <1>1, <1>2, <1>3, <1>4, <1>5

\* A task that task_pin_current (or into_mtask) pinned never leaves its CPU:
\* no wake-up, balance, pull, kill or second pin moves it.
THEOREM PinnedKept == Spec => PinnedStays
<1> USE SchedulerConstants
<1>1. Init => PinnedHome BY DEF Init, PinnedHome
<1>2. ASSUME TypeOK, PinnedHome, [Next]_vars
      PROVE  /\ PinnedHome'
             /\ \A t \in Tasks : pinned[t] => pinned'[t] /\ cpu'[t] = cpu[t]
  <2>1. CASE UNCHANGED vars BY <1>2, <2>1 DEF vars, PinnedHome
  <2>2. CASE KeepsPinned BY <1>2, <2>2 DEF KeepsPinned, PinnedHome, TypeOK
  <2>3. ASSUME NEW c \in CPUs, Pin(c)
        PROVE  /\ PinnedHome'
               /\ \A t \in Tasks : pinned[t] => pinned'[t] /\ cpu'[t] = cpu[t]
    <3>1. /\ pinned' = [u \in Tasks |-> pinned[u] \/ u \in Members(cur[c])]
          /\ cpu' = [u \in Tasks |-> IF u \in Members(cur[c]) THEN 0 ELSE cpu[u]]
      BY <2>3 DEF Pin
    <3> QED BY <1>2, <3>1 DEF PinnedHome, TypeOK
  <2> QED BY <1>2, <2>1, <2>2, <2>3, KeepsPinnedStep DEF Next
<1>3. Spec => []PinnedHome
  <2>1. TypeOK /\ PinnedHome /\ [Next]_vars => PinnedHome' BY <1>2
  <2> QED BY <1>1, <2>1, SchedulerTypes, PTL DEF Spec
<1>4. TypeOK /\ PinnedHome /\ [Next]_vars
        => [\A t \in Tasks : pinned[t] => pinned'[t] /\ cpu'[t] = cpu[t]]_vars
  BY <1>2
<1> QED BY <1>3, <1>4, SchedulerTypes, PTL DEF Spec, PinnedStays

----------------------------------------------------------------------------
\* Sums of weights.  MapThenSumSet adds the elements of a set in an order that it
\* chooses; Total is the same sum for a function w, and does not depend on it.
\* The library's induction over sets takes an operator, so each induction here
\* looks at a smallest set for which the claim is false.

Chosen(s) == CHOOSE x \in s : TRUE
Sums(w, S, g) ==
  g = [s \in SUBSET S |-> IF s = {} THEN 0 ELSE w[Chosen(s)] + g[s \ {Chosen(s)}]]
Total(w, S) == (CHOOSE g : Sums(w, S, g))[S]

\* A nonempty collection of sets of tasks has a member none of whose proper
\* subsets belongs to it.
LEMMA Smallest ==
  ASSUME NEW bad \in SUBSET SUBSET Tasks, bad # {}
  PROVE  \E A \in bad : \A B \in SUBSET A : B # A => B \notin bad
<1>. DEFINE R == StrictSubsetOrdering(Tasks)
<1>0. IsFiniteSet(Tasks)
  BY TasksFinite
<1>1. IsWellFoundedOn(R, SUBSET Tasks)
  <2>1. FiniteSubsetsOf(Tasks) = SUBSET Tasks
    BY ONLY <1>0, FS_FiniteSubsetsOfFinite, Zenon
  <2>2. IsWellFoundedOn(StrictSubsetOrdering(Tasks), FiniteSubsetsOf(Tasks))
    BY ONLY FS_StrictSubsetOrderingWellFounded, Zenon
  <2>. QED BY <2>1, <2>2
<1>2. \A A, B \in SUBSET Tasks : B \in SUBSET A /\ B # A => <<B, A>> \in R
  BY DEF StrictSubsetOrdering
<1>. HIDE DEF R
<1>3. \E A \in bad : \A B \in bad : ~(<<B, A>> \in R)
  BY <1>1, WFMin
<1>. QED BY <1>2, <1>3

\* The element taken next is one of the set.
LEMMA ChosenIn == ASSUME NEW s, s # {} PROVE Chosen(s) \in s
BY DEF Chosen

\* The sums are determined by the equation.
LEMMA SumsAgree ==
  ASSUME NEW w, NEW A \in SUBSET Tasks, NEW B \in SUBSET Tasks, NEW g, NEW h,
         Sums(w, A, g), Sums(w, B, h), NEW s, s \subseteq A, s \subseteq B
  PROVE  g[s] = h[s]
<1>. DEFINE bad == {r \in SUBSET Tasks : r \subseteq A /\ r \subseteq B /\ g[r] # h[r]}
<1>. SUFFICES ASSUME bad # {} PROVE FALSE
  OBVIOUS
<1>1. PICK r \in bad : \A q \in SUBSET r : q # r => q \notin bad
  BY Smallest
<1>2. r \in SUBSET A /\ r \in SUBSET B /\ g[r] # h[r]
  OBVIOUS
<1>3. /\ g[r] = IF r = {} THEN 0 ELSE w[Chosen(r)] + g[r \ {Chosen(r)}]
      /\ h[r] = IF r = {} THEN 0 ELSE w[Chosen(r)] + h[r \ {Chosen(r)}]
  BY <1>2 DEF Sums
<1>4. r # {} /\ Chosen(r) \in r
  BY <1>2, <1>3, ChosenIn
<1>5. g[r \ {Chosen(r)}] = h[r \ {Chosen(r)}]
  <2>1. r \ {Chosen(r)} \in SUBSET r /\ r \ {Chosen(r)} # r
    BY <1>4
  <2>. QED BY <1>1, <1>2, <2>1
<1>. QED BY <1>2, <1>3, <1>4, <1>5

\* The sums of every set of tasks exist.
LEMMA SumsExist ==
  ASSUME NEW w, NEW S \in SUBSET Tasks
  PROVE  \E g : Sums(w, S, g)
<1>. DEFINE bad == {A \in SUBSET Tasks : ~\E g : Sums(w, A, g)}
<1>. SUFFICES ASSUME bad # {} PROVE FALSE
  OBVIOUS
<1>1. PICK A \in bad : \A B \in SUBSET A : B # A => B \notin bad
  BY Smallest
<1>2. A \in SUBSET Tasks /\ ~\E g : Sums(w, A, g)
  OBVIOUS
<1>3. \A B \in SUBSET A : B # A => \E g : Sums(w, B, g)
  BY <1>1, <1>2
<1>. DEFINE of(B) == CHOOSE g : Sums(w, B, g)
            h == [s \in SUBSET A |-> IF s = {} THEN 0
                                     ELSE w[Chosen(s)] + of(s \ {Chosen(s)})[s \ {Chosen(s)}]]
<1>4. \A B \in SUBSET A : B # A => Sums(w, B, of(B))
  BY <1>3
<1>5. \A s \in SUBSET A : h[s] = IF s = {} THEN 0
                                 ELSE w[Chosen(s)] + of(s \ {Chosen(s)})[s \ {Chosen(s)}]
  OBVIOUS
<1>. HIDE DEF of
<1>6. ASSUME NEW B \in SUBSET A, B # A PROVE h[B] = of(B)[B]
  <2>. DEFINE C == B \ {Chosen(B)}
  <2>1. of(B)[B] = IF B = {} THEN 0 ELSE w[Chosen(B)] + of(B)[C]
    BY <1>4, <1>6 DEF Sums
  <2>2. h[B] = IF B = {} THEN 0 ELSE w[Chosen(B)] + of(C)[C]
    BY <1>5, <1>6
  <2>3. C \in SUBSET A /\ C # A /\ C \subseteq B /\ B \in SUBSET Tasks /\ C \in SUBSET Tasks
    BY ONLY <1>2, <1>6
  <2>. HIDE DEF C, h
  <2>4. Sums(w, B, of(B)) /\ Sums(w, C, of(C))
    BY <1>4, <1>6, <2>3
  <2>5. of(B)[C] = of(C)[C]
    <3>1. PICK g, k : g = of(B) /\ k = of(C)
      OBVIOUS
    <3>2. Sums(w, B, g) /\ Sums(w, C, k) /\ C \subseteq C
      BY <2>4, <3>1
    <3>3. g[C] = k[C]
      BY ONLY <2>3, <3>2, SumsAgree
    <3>. QED BY <3>1, <3>3
  <2>. QED BY <2>1, <2>2, <2>5
<1>7. h = [s \in SUBSET A |-> IF s = {} THEN 0 ELSE w[Chosen(s)] + h[s \ {Chosen(s)}]]
  <2>1. \A s \in SUBSET A : s # {} => /\ s \ {Chosen(s)} \in SUBSET A
                                      /\ s \ {Chosen(s)} # A
    BY ChosenIn
  <2>2. \A s \in SUBSET A : s # {} =>
          h[s \ {Chosen(s)}] = of(s \ {Chosen(s)})[s \ {Chosen(s)}]
    BY <1>6, <2>1
  <2>. QED BY <2>2
<1>. QED BY <1>2, <1>7 DEF Sums

\* Total adds the weights of a set up in the order of the choices.
LEMMA TotalSums ==
  ASSUME NEW w, NEW S \in SUBSET Tasks
  PROVE  \E g : Sums(w, S, g) /\ Total(w, S) = g[S]
<1>1. Sums(w, S, CHOOSE g : Sums(w, S, g))
  BY SumsExist
<1>. QED BY <1>1 DEF Total

\* The sums of a set contain the totals of its subsets.
LEMMA TotalIs ==
  ASSUME NEW w, NEW S \in SUBSET Tasks, NEW A \in SUBSET S, NEW g, Sums(w, S, g)
  PROVE  Total(w, A) = g[A]
<1>1. A \in SUBSET Tasks
  OBVIOUS
<1>2. PICK k : Sums(w, A, k) /\ Total(w, A) = k[A]
  BY <1>1, TotalSums
<1>3. A \subseteq A /\ A \subseteq S
  OBVIOUS
<1>. QED BY <1>1, <1>2, <1>3, SumsAgree

\* Nothing weighs nothing.
LEMMA TotalEmpty == ASSUME NEW w PROVE Total(w, {}) = 0
<1>1. {} \in SUBSET Tasks
  OBVIOUS
<1>2. PICK g : Sums(w, {}, g) /\ Total(w, {}) = g[{}]
  BY <1>1, TotalSums
<1>. QED BY <1>2 DEF Sums

\* A total is the chosen element's weight and the total of the others.
LEMMA TotalChosen ==
  ASSUME NEW w, NEW S \in SUBSET Tasks, S # {}
  PROVE  Total(w, S) = w[Chosen(S)] + Total(w, S \ {Chosen(S)})
<1>. DEFINE A == S \ {Chosen(S)}
<1>1. PICK g : Sums(w, S, g) /\ Total(w, S) = g[S]
  BY TotalSums
<1>2. g[S] = w[Chosen(S)] + g[A]
  BY <1>1 DEF Sums
<1>3. A \in SUBSET S
  OBVIOUS
<1>. HIDE DEF A
<1>4. Total(w, A) = g[A]
  BY <1>1, <1>3, TotalIs
<1>. QED BY <1>1, <1>2, <1>4 DEF A

\* Weights that are natural numbers have a total that is one.
LEMMA TotalNat ==
  ASSUME NEW w \in [Tasks -> Nat], NEW S \in SUBSET Tasks
  PROVE  Total(w, S) \in Nat
<1>. DEFINE bad == {A \in SUBSET Tasks : Total(w, A) \notin Nat}
<1>. SUFFICES ASSUME bad # {} PROVE FALSE
  OBVIOUS
<1>1. PICK A \in bad : \A B \in SUBSET A : B # A => B \notin bad
  BY Smallest
<1>2. A \in SUBSET Tasks /\ Total(w, A) \notin Nat
  OBVIOUS
<1>3. A # {}
  BY <1>2, TotalEmpty
<1>4. PICK x : x = Chosen(A) /\ x \in A
  BY <1>3, ChosenIn
<1>5. Total(w, A) = w[x] + Total(w, A \ {x})
  BY <1>2, <1>3, <1>4, TotalChosen
<1>6. A \ {x} \in SUBSET A /\ A \ {x} # A
  BY <1>4
<1>7. Total(w, A \ {x}) \in Nat
  BY <1>1, <1>2, <1>6
<1>8. w[x] \in Nat
  BY <1>2, <1>4
<1>. QED BY <1>2, <1>5, <1>7, <1>8

\* The order does not matter: any element can be taken off first.
LEMMA TotalRemove ==
  ASSUME NEW w \in [Tasks -> Nat], NEW S \in SUBSET Tasks, NEW t \in S
  PROVE  Total(w, S) = w[t] + Total(w, S \ {t})
<1>. DEFINE bad == {A \in SUBSET Tasks :
                      \E x \in A : Total(w, A) # w[x] + Total(w, A \ {x})}
<1>. SUFFICES ASSUME bad # {} PROVE FALSE
  OBVIOUS
<1>1. PICK A \in bad : \A B \in SUBSET A : B # A => B \notin bad
  BY Smallest
<1>2. PICK x \in A : Total(w, A) # w[x] + Total(w, A \ {x})
  OBVIOUS
<1>3. A \in SUBSET Tasks /\ A # {}
  BY <1>2
<1>4. PICK y : y = Chosen(A) /\ y \in A
  BY <1>3, ChosenIn
<1>5. Total(w, A) = w[y] + Total(w, A \ {y})
  BY <1>3, <1>4, TotalChosen
<1>6. x # y
  BY <1>2, <1>5
<1>7. PICK B, C, D : B = A \ {y} /\ C = A \ {x} /\ D = A \ {x, y}
  OBVIOUS
<1>8. /\ B \in SUBSET A /\ B # A /\ x \in B /\ B \ {x} = D
      /\ C \in SUBSET A /\ C # A /\ y \in C /\ C \ {y} = D
      /\ B \in SUBSET Tasks /\ C \in SUBSET Tasks /\ D \in SUBSET Tasks
  BY ONLY <1>3, <1>2, <1>4, <1>6, <1>7
<1>9. Total(w, B) = w[x] + Total(w, D) /\ Total(w, C) = w[y] + Total(w, D)
  <2>1. B \notin bad /\ C \notin bad
    BY <1>1, <1>8
  <2>2. \A z \in B : Total(w, B) = w[z] + Total(w, B \ {z})
    BY <1>8, <2>1
  <2>3. \A z \in C : Total(w, C) = w[z] + Total(w, C \ {z})
    BY <1>8, <2>1
  <2>. QED BY ONLY <1>8, <2>2, <2>3
<1>10. w[x] \in Nat /\ w[y] \in Nat /\ Total(w, D) \in Nat
  <2>1. Total(w, D) \in Nat
    BY <1>8, TotalNat
  <2>. QED BY <1>2, <1>3, <1>4, <2>1
<1>11. Total(w, A) = w[y] + Total(w, B) /\ Total(w, A) # w[x] + Total(w, C)
  BY ONLY <1>2, <1>5, <1>7
<1>. QED BY ONLY <1>9, <1>10, <1>11

\* A new element adds its weight.
LEMMA TotalAdd ==
  ASSUME NEW w \in [Tasks -> Nat], NEW S \in SUBSET Tasks, NEW t \in Tasks, t \notin S
  PROVE  Total(w, S \cup {t}) = w[t] + Total(w, S)
<1>1. PICK U : U = S \cup {t}
  OBVIOUS
<1>2. U \in SUBSET Tasks /\ t \in U /\ U \ {t} = S
  BY <1>1
<1>. QED BY ONLY <1>1, <1>2, TotalRemove, w \in [Tasks -> Nat]

\* A set and the rest.
LEMMA TotalSplit ==
  ASSUME NEW w \in [Tasks -> Nat], NEW S \in SUBSET Tasks, NEW M \in SUBSET S
  PROVE  Total(w, S) = Total(w, M) + Total(w, S \ M)
<1>. DEFINE bad == {A \in SUBSET Tasks : /\ A \in SUBSET S
                                         /\ Total(w, S) # Total(w, A) + Total(w, S \ A)}
<1>. SUFFICES ASSUME bad # {} PROVE FALSE
  OBVIOUS
<1>1. PICK A \in bad : \A B \in SUBSET A : B # A => B \notin bad
  BY Smallest
<1>2. A \in SUBSET S /\ A \in SUBSET Tasks /\ Total(w, S) # Total(w, A) + Total(w, S \ A)
  OBVIOUS
<1>3. A # {}
  <2>1. S \ {} = S /\ Total(w, S) \in Nat /\ Total(w, {}) = 0
    BY TotalNat, TotalEmpty
  <2>. QED BY <1>2, <2>1
<1>4. PICK x : x \in A
  BY <1>3
<1>5. PICK B, R, Q : B = A \ {x} /\ R = S \ B /\ Q = S \ A
  OBVIOUS
<1>6. /\ B \in SUBSET A /\ B # A /\ B \in SUBSET Tasks /\ B \in SUBSET S
      /\ R \in SUBSET Tasks /\ x \in R /\ R \ {x} = Q /\ Q \in SUBSET Tasks
  BY ONLY <1>2, <1>4, <1>5, S \in SUBSET Tasks
<1>7. Total(w, S) = Total(w, B) + Total(w, R)
  <2>1. B \notin bad
    BY <1>1, <1>6
  <2>. QED BY <2>1, <1>5, <1>6
<1>8. Total(w, R) = w[x] + Total(w, Q)
  BY ONLY <1>6, TotalRemove, w \in [Tasks -> Nat]
<1>9. Total(w, A) = w[x] + Total(w, B)
  BY ONLY <1>2, <1>4, <1>5, TotalRemove, w \in [Tasks -> Nat]
<1>10. w[x] \in Nat /\ Total(w, Q) \in Nat /\ Total(w, B) \in Nat
  <2>1. Total(w, Q) \in Nat /\ Total(w, B) \in Nat
    BY ONLY <1>6, TotalNat, w \in [Tasks -> Nat]
  <2>. QED BY <1>6, <2>1
<1>11. Total(w, S) # Total(w, A) + Total(w, Q)
  BY ONLY <1>2, <1>5
<1>. QED BY ONLY <1>7, <1>8, <1>9, <1>10, <1>11

\* Only the weights of the elements count.
LEMMA TotalChange ==
  ASSUME NEW w, NEW v, NEW S \in SUBSET Tasks, \A t \in S : w[t] = v[t]
  PROVE  Total(w, S) = Total(v, S)
<1>1. PICK g : Sums(w, S, g) /\ Total(w, S) = g[S]
  BY TotalSums
<1>2. \A s \in SUBSET S : s # {} => w[Chosen(s)] = v[Chosen(s)]
  BY ChosenIn
<1>3. Sums(v, S, g)
  BY <1>1, <1>2 DEF Sums
<1>4. S \in SUBSET S
  OBVIOUS
<1>. QED BY <1>1, <1>3, <1>4, TotalIs

----------------------------------------------------------------------------
\* The counters of a queue.

WeightOf == [t \in Tasks |-> W(t)]
Unpinned(Q, p) == {t \in Q : ~p[t]}

\* The counters hold what the queues add up to.
LoadInv ==
  /\ load \in [CPUs -> Int] /\ movable \in [CPUs -> Int]
  /\ \A c \in CPUs : /\ load[c] = Total(WeightOf, rq[c])
                     /\ movable[c] = Cardinality(Unpinned(rq[c], pinned))

\* The weights task_set_weight leaves, with 0 counted as 1.
LEMMA WeightOfType == ASSUME TypeOK PROVE WeightOf \in [Tasks -> Nat]
BY DEF WeightOf, W, TypeOK

\* The library's sum is the total.
LEMMA SumIsTotal ==
  ASSUME NEW S \in SUBSET Tasks
  PROVE  MapThenSumSet(W, S) = Total(WeightOf, S)
<1>. DEFINE F(g) == [s \in SUBSET S |-> IF s = {} THEN 0 ELSE W(Chosen(s)) + g[s \ {Chosen(s)}]]
            it == CHOOSE g : g = F(g)
<1>1. MapThenSumSet(W, S) = it[S]
  BY Zenon DEF MapThenSumSet, MapThenFoldSet, Chosen
<1>2. \A s \in SUBSET S : s # {} => Chosen(s) \in Tasks
  BY DEF Chosen
<1>3. ASSUME NEW g PROVE Sums(WeightOf, S, g) <=> g = F(g)
  BY <1>2 DEF Sums, WeightOf
<1>4. it = F(it)
  <2>1. \E g : g = F(g)
    BY <1>3, SumsExist
  <2>. QED BY <2>1
<1>5. PICK g : g = it
  OBVIOUS
<1>6. Sums(WeightOf, S, g)
  BY <1>3, <1>4, <1>5
<1>7. Total(WeightOf, S) = g[S]
  <2>1. S \in SUBSET S
    OBVIOUS
  <2>. QED BY ONLY <1>6, <2>1, TotalIs, S \in SUBSET Tasks
<1>. QED BY <1>1, <1>5, <1>7

\* A task leaves a queue, or is put back.
LEMMA TotalRelinked ==
  ASSUME NEW w \in [Tasks -> Nat], NEW Q \in SUBSET Tasks, NEW t \in Tasks
  PROVE  /\ Total(w, Q \ {t}) = Total(w, Q) - (IF t \in Q THEN w[t] ELSE 0)
         /\ Total(w, Q \cup {t}) = Total(w, Q) - (IF t \in Q THEN w[t] ELSE 0) + w[t]
<1>1. PICK R : R = Q \ {t}
  OBVIOUS
<1>2. R \in SUBSET Tasks /\ t \notin R /\ Q \cup {t} = R \cup {t}
  BY <1>1
<1>3. Total(w, R \cup {t}) = w[t] + Total(w, R)
  BY <1>2, TotalAdd
<1>4. w[t] \in Nat /\ Total(w, R) \in Nat
  BY <1>2, TotalNat
<1>5. CASE t \in Q
  <2>1. Total(w, Q) = w[t] + Total(w, R)
    BY <1>1, <1>5, TotalRemove
  <2>2. Total(w, R) = Total(w, Q) - w[t] /\ Total(w, R \cup {t}) = Total(w, Q) - w[t] + w[t]
    BY ONLY <1>3, <1>4, <2>1
  <2>3. (IF t \in Q THEN w[t] ELSE 0) = w[t]
    BY <1>5
  <2>. QED BY <1>1, <1>2, <2>2, <2>3, Zenon
<1>6. CASE t \notin Q
  <2>1. R = Q
    BY <1>1, <1>6
  <2>2. Total(w, R) = Total(w, Q) - 0 /\ Total(w, R \cup {t}) = Total(w, Q) - 0 + w[t]
    BY ONLY <1>3, <1>4, <2>1
  <2>3. (IF t \in Q THEN w[t] ELSE 0) = 0
    BY <1>6
  <2>. QED BY <1>1, <1>2, <2>2, <2>3, Zenon
<1>. QED BY <1>5, <1>6

\* The same for the number of elements.
LEMMA SizeRelinked ==
  ASSUME NEW Q, IsFiniteSet(Q), NEW t
  PROVE  /\ Cardinality(Q \ {t}) = Cardinality(Q) - One(t \in Q)
         /\ Cardinality(Q \cup {t}) = Cardinality(Q) - One(t \in Q) + 1
<1>1. Cardinality(Q) \in Nat
  BY FS_CardinalityType
<1>2. Cardinality(Q \cup {t}) = IF t \in Q THEN Cardinality(Q) ELSE Cardinality(Q) + 1
  BY FS_AddElement
<1>3. Cardinality(Q \ {t}) = IF t \in Q THEN Cardinality(Q) - 1 ELSE Cardinality(Q)
  BY FS_RemoveElement
<1>. QED BY <1>1, <1>2, <1>3 DEF One

\* scheduler_remove charges the queue of the task's cpu field, which is the one
\* that holds it, and scheduler_insert the queue it goes to.
LEMMA RelinkLoad ==
  ASSUME TypeOK, QueueConsistent, LoadInv, NEW t \in Tasks, NEW d \in CPUs,
         NEW link \in BOOLEAN, Relink(t, d, pinned[t], link),
         pinned' = pinned, weight' = weight
  PROVE  LoadInv'
<1>. USE SchedulerConstants
<1>1. PICK w : w = WeightOf
  OBVIOUS
<1>2. w \in [Tasks -> Nat] /\ WeightOf' = w /\ w[t] = W(t) /\ W(t) \in Nat
  BY <1>1, WeightOfType DEF WeightOf, W
<1>3. ASSUME NEW e \in CPUs
      PROVE  /\ load'[e] = Total(w, rq'[e])
             /\ movable'[e] = Cardinality(Unpinned(rq'[e], pinned))
             /\ load'[e] \in Int /\ movable'[e] \in Int
  <2>1. PICK Q, N : Q = rq[e] /\ N = Unpinned(rq[e], pinned)
    OBVIOUS
  <2>2. /\ Q \in SUBSET Tasks /\ N \in SUBSET Tasks /\ IsFiniteSet(N)
        /\ t \in N <=> t \in Q /\ ~pinned[t]
    <3>1. Q \in SUBSET Tasks
      BY <2>1 DEF TypeOK
    <3>2. N \in SUBSET Tasks /\ (t \in N <=> t \in Q /\ ~pinned[t])
      BY <2>1, <3>1 DEF Unpinned
    <3>. QED BY <3>1, <3>2, TasksFinite, FS_Subset
  <2>3. t \in Q <=> Linked(t) /\ e = cpu[t]
    BY <2>1 DEF QueueConsistent, Linked
  <2>4. PICK out, less : out = (IF t \in Q THEN w[t] ELSE 0) /\ less = One(t \in N)
    OBVIOUS
  <2>5. out \in Nat /\ less \in Nat
    BY <1>2, <2>4 DEF One
  <2>6. /\ rq'[e] = IF link /\ e = d THEN Q \cup {t} ELSE Q \ {t}
        /\ load'[e] = load[e] - out + (IF link /\ e = d THEN w[t] ELSE 0)
        /\ movable'[e] = movable[e] - less + One(link /\ e = d /\ ~pinned[t])
    <3>1. rq'[e] = IF link /\ e = d THEN Q \cup {t} ELSE Q \ {t}
      BY <2>1 DEF Relink
    <3>2. out = IF Linked(t) /\ e = cpu[t] THEN W(t) ELSE 0
      BY <1>2, <2>3, <2>4
    <3>3. load'[e] = load[e] - out + (IF link /\ e = d THEN w[t] ELSE 0)
      BY <1>2, <3>2 DEF Relink
    <3>4. less = One(Linked(t) /\ e = cpu[t] /\ ~pinned[t])
      BY <2>2, <2>3, <2>4 DEF One
    <3>5. movable'[e] = movable[e] - less + One(link /\ e = d /\ ~pinned[t])
      BY <3>4 DEF Relink
    <3>. QED BY <3>1, <3>3, <3>5
  <2>7. load[e] = Total(w, Q) /\ movable[e] = Cardinality(N) /\ load[e] \in Int /\ movable[e] \in Int
    BY <1>1, <2>1 DEF LoadInv
  <2>8. /\ Total(w, Q \ {t}) = load[e] - out
        /\ Total(w, Q \cup {t}) = load[e] - out + w[t]
        /\ Cardinality(N \ {t}) = movable[e] - less
        /\ Cardinality(N \cup {t}) = movable[e] - less + 1
    <3>1. /\ Total(w, Q \ {t}) = Total(w, Q) - (IF t \in Q THEN w[t] ELSE 0)
          /\ Total(w, Q \cup {t}) = Total(w, Q) - (IF t \in Q THEN w[t] ELSE 0) + w[t]
      BY ONLY <1>2, <2>2, TotalRelinked, t \in Tasks, Zenon
    <3>2. /\ Cardinality(N \ {t}) = Cardinality(N) - One(t \in N)
          /\ Cardinality(N \cup {t}) = Cardinality(N) - One(t \in N) + 1
      BY ONLY <2>2, SizeRelinked, Zenon
    <3>. QED BY ONLY <2>4, <2>7, <3>1, <3>2, Zenon
  <2>9. /\ load[e] - out \in Int /\ load[e] - out + w[t] \in Int
        /\ movable[e] - less \in Int /\ movable[e] - less + 1 \in Int
    BY ONLY <1>2, <2>5, <2>7
  <2>10. CASE link /\ e = d
    <3>1. rq'[e] = Q \cup {t} /\ load'[e] = load[e] - out + w[t]
      BY <2>6, <2>10
    <3>2. CASE pinned[t]
      <4>1. Unpinned(rq'[e], pinned) = N \ {t}
        BY <2>1, <3>1, <3>2 DEF Unpinned
      <4>2. movable'[e] = movable[e] - less
        BY <2>5, <2>6, <2>7, <3>2 DEF One
      <4>. QED BY ONLY <2>8, <2>9, <3>1, <4>1, <4>2, Zenon
    <3>3. CASE ~pinned[t]
      <4>1. Unpinned(rq'[e], pinned) = N \cup {t}
        BY <2>1, <3>1, <3>3 DEF Unpinned
      <4>2. movable'[e] = movable[e] - less + 1
        BY <2>5, <2>6, <2>7, <2>10, <3>3 DEF One
      <4>. QED BY ONLY <2>8, <2>9, <3>1, <4>1, <4>2, Zenon
    <3>. QED BY <3>2, <3>3
  <2>11. CASE ~(link /\ e = d)
    <3>1. rq'[e] = Q \ {t} /\ load'[e] = load[e] - out
      BY <2>5, <2>6, <2>7, <2>11
    <3>2. Unpinned(rq'[e], pinned) = N \ {t}
      BY <2>1, <3>1 DEF Unpinned
    <3>3. movable'[e] = movable[e] - less
      BY <2>5, <2>6, <2>7, <2>11 DEF One
    <3>. QED BY ONLY <2>8, <2>9, <3>1, <3>2, <3>3, Zenon
  <2>. QED BY <2>10, <2>11
<1>4. load' = [e \in CPUs |-> load'[e]] /\ movable' = [e \in CPUs |-> movable'[e]]
  BY DEF Relink
<1>. QED BY <1>2, <1>3, <1>4 DEF LoadInv

\* task_set_weight corrects the load of the queue that holds the task.
LEMMA SetWeightLoad ==
  ASSUME TypeOK, QueueConsistent, LoadInv, NEW c \in CPUs, NEW t \in Tasks,
         NEW x \in Weights, SetWeight(c, t, x)
  PROVE  LoadInv'
<1>. USE SchedulerConstants
<1>0. PICK w, v, y : w = WeightOf /\ v = WeightOf' /\ y = IF x = 0 THEN 1 ELSE x
  OBVIOUS
<1>1. weight' = [weight EXCEPT ![t] = x]
  BY DEF SetWeight
<1>2. /\ w \in [Tasks -> Nat] /\ v \in [Tasks -> Nat] /\ y \in Nat
      /\ w[t] = W(t) /\ v[t] = y /\ \A u \in Tasks : u # t => w[u] = v[u]
  <2>1. x \in Nat /\ y \in Nat
    BY <1>0
  <2>2. w = [u \in Tasks |-> W(u)] /\ w \in [Tasks -> Nat]
    BY <1>0, WeightOfType DEF WeightOf
  <2>3. v = [u \in Tasks |-> IF weight'[u] = 0 THEN 1 ELSE weight'[u]]
    BY <1>0 DEF WeightOf, W
  <2>4. weight \in [Tasks -> Nat]
    BY DEF TypeOK
  <2>5. v = [u \in Tasks |-> IF u = t THEN y ELSE w[u]]
    BY ONLY <1>0, <1>1, <2>2, <2>3, <2>4 DEF W
  <2>. QED BY ONLY <2>1, <2>2, <2>5, t \in Tasks
<1>3. ASSUME NEW e \in CPUs PROVE load'[e] = Total(v, rq[e]) /\ load'[e] \in Int
  <2>1. PICK Q, R : Q = rq[e] /\ R = rq[e] \ {t}
    OBVIOUS
  <2>2. Q \in SUBSET Tasks /\ R \in SUBSET Tasks /\ R = Q \ {t} /\ t \notin R
    BY <2>1 DEF TypeOK
  <2>3. load[e] = Total(w, Q) /\ load[e] \in Int
    BY <1>0, <2>1 DEF LoadInv
  <2>4. t \in Q <=> Linked(t) /\ e = cpu[t]
    BY <2>1 DEF QueueConsistent, Linked
  <2>5. load'[e] = IF t \in Q THEN load[e] - w[t] + y ELSE load[e]
    <3>1. load'[e] = IF Linked(t) /\ e = cpu[t] THEN load[e] - W(t) + y ELSE load[e]
      BY <1>0 DEF SetWeight
    <3>. QED BY <1>2, <2>4, <3>1, Zenon
  <2>6. CASE t \in Q
    <3>1. Total(w, Q) = w[t] + Total(w, R) /\ Total(v, Q) = v[t] + Total(v, R)
      BY ONLY <1>2, <2>2, <2>6, TotalRemove
    <3>2. Total(w, R) = Total(v, R)
      <4>1. \A u \in R : w[u] = v[u]
        BY <1>2, <2>2
      <4>. QED BY ONLY <2>2, <4>1, TotalChange
    <3>3. Total(w, R) \in Nat /\ w[t] \in Nat /\ v[t] = y /\ y \in Nat
      BY <1>2, <2>2, TotalNat
    <3>4. load'[e] = load[e] - w[t] + y
      BY <2>5, <2>6
    <3>5. load'[e] = Total(v, Q) /\ load'[e] \in Int
      BY ONLY <2>3, <3>1, <3>2, <3>3, <3>4
    <3>. QED BY <2>1, <3>5, Zenon
  <2>7. CASE t \notin Q
    <3>1. \A u \in Q : w[u] = v[u]
      BY <1>2, <2>2, <2>7
    <3>2. Total(w, Q) = Total(v, Q)
      BY ONLY <2>2, <3>1, TotalChange
    <3>3. load'[e] = load[e]
      BY <2>5, <2>7
    <3>. QED BY ONLY <2>1, <2>3, <3>2, <3>3, Zenon
  <2>. QED BY <2>6, <2>7
<1>4. rq' = rq /\ pinned' = pinned /\ movable' = movable
      /\ load' = [e \in CPUs |-> load'[e]]
  BY DEF SetWeight
<1>. QED BY <1>0, <1>3, <1>4 DEF LoadInv

\* task_pin_current takes the members of the address space off every queue and
\* links the runnable ones on CPU 0.
LEMMA PinLoad ==
  ASSUME TypeOK, QueueConsistent, LoadInv, NEW c \in CPUs, Pin(c)
  PROVE  LoadInv'
<1>. USE SchedulerConstants
<1>0. PICK w, M, run : /\ w = WeightOf /\ M = Members(cur[c])
                       /\ run = {u \in M : st[u] = "RUNNING"}
  OBVIOUS
<1>1. w \in [Tasks -> Nat] /\ M \in SUBSET Tasks /\ run \in SUBSET M /\ run \in SUBSET Tasks
  BY <1>0, WeightOfType DEF Members
<1>2. WeightOf' = w
  <2>1. weight' = weight
    BY DEF Pin
  <2>. QED BY <1>0, <2>1 DEF WeightOf, W
<1>3. ASSUME NEW e \in CPUs
      PROVE  /\ load'[e] = Total(w, rq'[e]) /\ load'[e] \in Int
             /\ movable'[e] = Cardinality(Unpinned(rq'[e], pinned')) /\ movable'[e] \in Int
  <2>1. PICK Q, A, B : Q = rq[e] /\ A = rq[e] \cap M /\ B = rq[e] \ M
    OBVIOUS
  <2>2. /\ Q \in SUBSET Tasks /\ A \in SUBSET Q /\ A \in SUBSET Tasks
        /\ B \in SUBSET Tasks /\ B = Q \ A
    BY <2>1 DEF TypeOK
  <2>3. load[e] = Total(w, Q) /\ load[e] \in Int
        /\ movable[e] = Cardinality(Unpinned(Q, pinned)) /\ movable[e] \in Int
    BY <1>0, <2>1 DEF LoadInv
  <2>4. {u \in M : Linked(u) /\ cpu[u] = e} = A
    <3>1. \A u \in M : Linked(u) /\ cpu[u] = e <=> u \in rq[e]
      BY <1>1 DEF QueueConsistent, Linked
    <3>. QED BY <2>1, <3>1
  <2>5. /\ rq'[e] = B \cup (IF e = 0 THEN run ELSE {})
        /\ load'[e] = load[e] - MapThenSumSet(W, A) + (IF e = 0 THEN MapThenSumSet(W, run) ELSE 0)
        /\ movable'[e] = movable[e] - Cardinality({u \in A : ~pinned[u]})
    <3>1. rq'[e] = B \cup (IF e = 0 THEN run ELSE {})
      BY <1>0, <2>1 DEF Pin
    <3>2. load'[e] = load[e] - MapThenSumSet(W, {u \in M : Linked(u) /\ cpu[u] = e})
                       + (IF e = 0 THEN MapThenSumSet(W, run) ELSE 0)
      BY <1>0 DEF Pin
    <3>3. movable'[e] = movable[e]
            - Cardinality({u \in {x \in M : Linked(x) /\ cpu[x] = e} : ~pinned[u]})
      BY <1>0 DEF Pin
    <3>. QED BY <2>4, <3>1, <3>2, <3>3, Zenon
  <2>6. MapThenSumSet(W, A) = Total(w, A) /\ MapThenSumSet(W, run) = Total(w, run)
    BY <1>0, <1>1, <2>2, SumIsTotal
  <2>7. Total(w, Q) = Total(w, A) + Total(w, B)
    BY ONLY <1>1, <2>2, TotalSplit
  <2>8. Total(w, A) \in Nat /\ Total(w, B) \in Nat /\ Total(w, run) \in Nat
    BY <1>1, <2>2, TotalNat
  <2>9. load'[e] = Total(w, rq'[e]) /\ load'[e] \in Int
    <3>1. CASE e = 0
      <4>1. PICK S : S = B \cup run
        OBVIOUS
      <4>2. S \in SUBSET Tasks /\ run \in SUBSET S /\ S \ run = B
        BY ONLY <1>1, <2>1, <2>2, <4>1
      <4>3. Total(w, S) = Total(w, run) + Total(w, B)
        BY ONLY <1>1, <4>2, TotalSplit
      <4>4. rq'[e] = S
        BY <2>5, <3>1, <4>1
      <4>5. load'[e] = load[e] - Total(w, A) + Total(w, run)
        BY <2>5, <2>6, <3>1
      <4>6. load'[e] = Total(w, S) /\ load'[e] \in Int
        BY ONLY <2>3, <2>7, <2>8, <4>3, <4>5
      <4>. QED BY <4>4, <4>6, Zenon
    <3>2. CASE e # 0
      <4>1. rq'[e] = B
        BY <2>5, <3>2
      <4>2. load'[e] = load[e] - Total(w, A) + 0
        BY <2>5, <2>6, <3>2
      <4>3. load'[e] = Total(w, B) /\ load'[e] \in Int
        BY ONLY <2>3, <2>7, <2>8, <4>2
      <4>. QED BY <4>1, <4>3, Zenon
    <3>. QED BY <3>1, <3>2
  <2>10. movable'[e] = Cardinality(Unpinned(rq'[e], pinned')) /\ movable'[e] \in Int
    <3>1. PICK N, F : N = Unpinned(Q, pinned) /\ F = {u \in A : ~pinned[u]}
      OBVIOUS
    <3>2. Unpinned(rq'[e], pinned') = N \ F
      <4>1. pinned' = [u \in Tasks |-> pinned[u] \/ u \in M]
        BY <1>0 DEF Pin
      <4>2. \A u \in Tasks : u \in rq'[e] /\ ~pinned'[u] <=> u \in B /\ ~pinned[u]
        <5>1. \A u \in rq'[e] : u \in B \/ u \in M
          BY <1>1, <2>5
        <5>2. B \subseteq rq'[e] /\ \A u \in B : u \notin M
          BY <2>1, <2>5
        <5>. QED BY <4>1, <5>1, <5>2 DEF TypeOK
      <4>3. rq'[e] \subseteq Tasks
        BY <1>1, <2>2, <2>5
      <4>4. Unpinned(rq'[e], pinned') = {u \in B : ~pinned[u]}
        BY <2>2, <4>2, <4>3 DEF Unpinned
      <4>5. N \ F = {u \in B : ~pinned[u]}
        BY <2>2, <3>1 DEF Unpinned
      <4>. QED BY <4>4, <4>5
    <3>3. IsFiniteSet(N) /\ N \cap F = F
      <4>1. N \in SUBSET Tasks /\ N \cap F = F
        BY <2>2, <3>1 DEF Unpinned
      <4>. QED BY <4>1, TasksFinite, FS_Subset
    <3>4. Cardinality(N \ F) = Cardinality(N) - Cardinality(F) /\ IsFiniteSet(F)
      BY <3>3, FS_Difference, FS_Subset
    <3>5. Cardinality(N) \in Nat /\ Cardinality(F) \in Nat
      BY <3>3, <3>4, FS_CardinalityType
    <3>6. movable'[e] = Cardinality(N) - Cardinality(F)
      BY <2>3, <2>5, <3>1, Zenon
    <3>7. Cardinality(N) - Cardinality(F) \in Int
      BY <3>5
    <3>. QED BY ONLY <3>2, <3>4, <3>6, <3>7, Zenon
  <2>. QED BY <2>9, <2>10
<1>4. load' = [e \in CPUs |-> load'[e]] /\ movable' = [e \in CPUs |-> movable'[e]]
  BY DEF Pin
<1>. QED BY <1>2, <1>3, <1>4 DEF LoadInv

\* into_mtask links kinit, which is pinned, and nothing else.
LEMMA InitLoad == ASSUME Init PROVE LoadInv
<1>. USE SchedulerConstants
<1>1. PICK kinit \in Leaders :
        /\ rq = [c \in CPUs |-> IF c = 0 THEN {kinit} ELSE {}]
        /\ load = [c \in CPUs |-> IF c = 0 THEN W(kinit) ELSE 0]
        /\ movable = [c \in CPUs |-> 0]
        /\ pinned = [t \in Tasks |-> t = kinit]
        /\ weight \in [Tasks -> Weights]
  BY DEF Init
<1>2. PICK w : w = WeightOf
  OBVIOUS
<1>3. kinit \in Tasks /\ w \in [Tasks -> Nat] /\ w[kinit] = W(kinit) /\ W(kinit) \in Nat
  BY <1>1, <1>2 DEF WeightOf, W
<1>4. Total(w, {kinit}) = W(kinit) /\ Total(w, {}) = 0
  <2>1. {kinit} \in SUBSET Tasks /\ kinit \in {kinit} /\ {kinit} \ {kinit} = {}
    BY <1>3
  <2>2. Total(w, {kinit}) = w[kinit] + Total(w, {})
    BY <1>3, <2>1, TotalRemove
  <2>. QED BY <1>3, <2>2, TotalEmpty
<1>5. ASSUME NEW c \in CPUs PROVE Unpinned(rq[c], pinned) = {} /\ load[c] = Total(w, rq[c])
  <2>1. CASE c = 0 BY <1>1, <1>3, <1>4, <2>1 DEF Unpinned
  <2>2. CASE c # 0 BY <1>1, <1>3, <1>4, <2>2 DEF Unpinned
  <2>. QED BY <2>1, <2>2
<1>6. load \in [CPUs -> Int] /\ movable \in [CPUs -> Int] /\ \A c \in CPUs : movable[c] = 0
  BY <1>1, <1>3
<1>. QED BY <1>2, <1>5, <1>6, FS_EmptySet DEF LoadInv

\* Steps that touch neither the queues nor what the counters count.
LEMMA LoadKept ==
  ASSUME LoadInv, UNCHANGED <<rq, load, movable, pinned, weight>>
  PROVE  LoadInv'
<1>1. WeightOf' = WeightOf
  BY DEF WeightOf, W
<1>. QED BY <1>1 DEF LoadInv

\* Every step keeps the counters and the queues in agreement.
LEMMA LoadStep ==
  ASSUME SchedulerInv, LoadInv, [Next]_vars
  PROVE  LoadInv'
<1>. USE SchedulerConstants
<1>1. TypeOK /\ LockShape /\ QueueConsistent
  BY DEF SchedulerInv
<1>2. ASSUME NEW t \in Tasks, NEW d \in CPUs, NEW link \in BOOLEAN,
             Relink(t, d, pinned[t], link), UNCHANGED <<pinned, weight>>
      PROVE  LoadInv'
  BY <1>1, <1>2, RelinkLoad
<1>3. CASE UNCHANGED vars
  BY <1>3, LoadKept DEF vars
<1>4. ASSUME NEW c \in CPUs,
             \/ Enter(c) \/ Interrupt(c) \/ Reschedule(c) \/ LeaveNested(c)
             \/ LeaveLock(c) \/ Release(c) \/ Arm(c) \/ Disarm(c) \/ Yield(c) \/ Switch(c)
      PROVE  LoadInv'
  <2>1. UNCHANGED <<rq, load, movable, pinned, weight>>
    BY <1>4 DEF Enter, Interrupt, Reschedule, LeaveNested, LeaveLock, Release, Arm,
                Disarm, Yield, Switch, queueVars, taskVars
  <2>. QED BY <2>1, LoadKept
<1>5. ASSUME NEW c \in CPUs, Block(c) \/ Exit(c) \/ NextBegin(c)
      PROVE  LoadInv'
  <2>0. UNCHANGED <<pinned, weight>>
    BY <1>5 DEF Block, Exit, NextBegin
  <2>1. \/ UNCHANGED queueVars
        \/ cur[c] \in Tasks /\ Relink(cur[c], cpu[cur[c]], pinned[cur[c]], FALSE)
    <3>1. CASE Block(c)
      <4>1. cur[c] \in Tasks
        BY <1>1, <3>1 DEF Block, LockShape, TypeOK
      <4>. QED BY <3>1, <4>1 DEF Block, queueVars
    <3>2. CASE Exit(c)
      <4>1. cur[c] \in Tasks
        BY <1>1, <3>2 DEF Exit, LockShape, TypeOK
      <4>. QED BY <3>2, <4>1 DEF Exit, Finish
    <3>3. CASE NextBegin(c)
      <4>1. CASE cur[c] # Idle /\ pend[cur[c]]
        BY <1>1, <3>3, <4>1 DEF NextBegin, Finish, TypeOK
      <4>2. CASE ~(cur[c] # Idle /\ pend[cur[c]])
        BY <3>3, <4>2 DEF NextBegin, queueVars
      <4>. QED BY <4>1, <4>2
    <3>. QED BY <1>5, <3>1, <3>2, <3>3
  <2>2. CASE UNCHANGED queueVars
    BY <2>0, <2>2, LoadKept DEF queueVars
  <2>3. CASE cur[c] \in Tasks /\ Relink(cur[c], cpu[cur[c]], pinned[cur[c]], FALSE)
    <3>1. cpu[cur[c]] \in CPUs
      BY <1>1, <2>3 DEF TypeOK
    <3>. QED BY <1>2, <2>0, <2>3, <3>1
  <2>. QED BY <2>1, <2>2, <2>3
<1>6. ASSUME NEW c \in CPUs, Tick(c) \/ PickPull(c)
      PROVE  LoadInv'
  <2>0. UNCHANGED <<pinned, weight>>
    BY <1>6 DEF Tick, PickPull
  <2>1. \/ UNCHANGED queueVars
        \/ \E d \in CPUs : \E t \in Pullable(d) : Relink(t, d, pinned[t], TRUE)
    BY <1>6 DEF Tick, PickPull, PullInto, Least, queueVars
  <2>2. CASE UNCHANGED queueVars
    BY <2>0, <2>2, LoadKept DEF queueVars
  <2>3. ASSUME NEW d \in CPUs, NEW t \in Pullable(d), Relink(t, d, pinned[t], TRUE)
        PROVE  LoadInv'
    <3>1. t \in Tasks
      BY DEF Pullable
    <3>. QED BY <1>2, <2>0, <2>3, <3>1
  <2>. QED BY <2>1, <2>2, <2>3
<1>7. ASSUME NEW c \in CPUs, NEW t \in Tasks,
             \/ Fire(c, t) \/ Signal(c, t) \/ Publish(c, t) \/ Kill(c, t) \/ PickFinish(c, t)
      PROVE  LoadInv'
  <2>0. UNCHANGED <<pinned, weight>>
    BY <1>7 DEF Fire, Signal, TaskRun, Publish, Kill, PickFinish
  <2>1. CASE UNCHANGED queueVars
    BY <2>0, <2>1, LoadKept DEF queueVars
  <2>2. ASSUME NEW d \in CPUs, NEW link \in BOOLEAN, Relink(t, d, pinned[t], link)
        PROVE  LoadInv'
    BY <1>2, <2>0, <2>2
  <2>3. cpu[t] \in CPUs
    BY <1>1 DEF TypeOK
  <2>4. CASE Fire(c, t) \/ Signal(c, t)
    <3>1. \/ UNCHANGED queueVars
          \/ \E d \in WakePlaces(t) : Relink(t, d, pinned[t], TRUE)
      BY <2>4 DEF Fire, Signal, TaskRun, queueVars
    <3>2. WakePlaces(t) \subseteq CPUs
      BY <2>3 DEF WakePlaces, LeastLoaded
    <3>. QED BY <2>1, <2>2, <3>1, <3>2
  <2>5. CASE Publish(c, t)
    <3>1. \E d \in IF pinned[t] THEN {cpu[t]} ELSE LeastLoaded(t) : Relink(t, d, pinned[t], TRUE)
      BY <2>5 DEF Publish
    <3>. QED BY <2>2, <2>3, <3>1 DEF LeastLoaded
  <2>6. CASE Kill(c, t) \/ PickFinish(c, t)
    <3>1. \/ UNCHANGED queueVars
          \/ Relink(t, cpu[t], pinned[t], FALSE)
      BY <2>6 DEF Kill, PickFinish, Finish, queueVars
    <3>. QED BY <2>1, <2>2, <2>3, <3>1
  <2>. QED BY <1>7, <2>4, <2>5, <2>6
<1>8. ASSUME NEW c \in CPUs, NEW t \in Tasks, NEW w \in Weights, SetWeight(c, t, w)
      PROVE  LoadInv'
  BY <1>1, <1>8, SetWeightLoad
<1>9. ASSUME NEW c \in CPUs, Pin(c) PROVE LoadInv'
  BY <1>1, <1>9, PinLoad
<1>. QED BY <1>3, <1>4, <1>5, <1>6, <1>7, <1>8, <1>9 DEF Next

\* The counters agree with the queues in every reachable state.
LEMMA LoadCorrect == Spec => []LoadInv
<1>1. Init => LoadInv
  BY InitLoad
<1>2. SchedulerInv /\ LoadInv /\ [Next]_vars => LoadInv'
  BY LoadStep
<1>. QED BY <1>1, <1>2, SchedulerCorrect, PTL DEF Spec

\* scheduler_cpus[c].load and .movable are the weight and the number of movable
\* tasks of the queue after any sequence of wake, block, weight, pin, pull and
\* kill: what scheduler_insert, scheduler_remove and task_set_weight add and
\* subtract one task at a time never drifts from the queue.
THEOREM LoadsExact == Spec => []LoadConsistent
<1>1. ASSUME TypeOK, LoadInv PROVE LoadConsistent
  <2>. SUFFICES ASSUME NEW c \in CPUs
                PROVE  /\ load[c] = MapThenSumSet(W, rq[c])
                       /\ movable[c] = Cardinality({t \in rq[c] : ~pinned[t]})
    BY DEF LoadConsistent
  <2>1. PICK Q : Q = rq[c]
    OBVIOUS
  <2>2. Q \in SUBSET Tasks
    BY <1>1, <2>1 DEF TypeOK
  <2>3. MapThenSumSet(W, Q) = Total(WeightOf, Q)
    BY <2>2, SumIsTotal
  <2>4. load[c] = Total(WeightOf, rq[c]) /\ movable[c] = Cardinality(Unpinned(rq[c], pinned))
    BY <1>1 DEF LoadInv
  <2>. QED BY <2>1, <2>3, <2>4 DEF Unpinned
<1>2. TypeOK /\ LoadInv => LoadConsistent
  BY <1>1
<1>. QED BY <1>2, SchedulerTypes, LoadCorrect, PTL

----------------------------------------------------------------------------
\* Load balancing.

\* scheduler_pull's limit on the weight of the task it takes brings the loads of
\* the two queues strictly closer together.
LEMMA PullImproves ==
  ASSUME TypeOK, QueueConsistent, LoadInv, NEW d \in CPUs, NEW t \in Pullable(d),
         Relink(t, d, pinned[t], TRUE)
  PROVE  /\ ~onCpu[t] /\ t \in Tasks
         /\ Gap(load', cpu[t], d) < Gap(load, cpu[t], d)
<1>1. PICK s \in Donors(d) : t \in Candidates(s, d) BY DEF Pullable
<1>2. s \in CPUs /\ s # d /\ t \in Tasks BY <1>1 DEF Donors, Pullable
<1>3. ~onCpu[t] /\ t \in rq[s] /\ W(t) < load[s] - load[d] BY <1>1 DEF Candidates
<1>4. cpu[t] = s /\ Linked(t) BY <1>2, <1>3 DEF QueueConsistent, Linked
<1>5. W(t) \in Nat /\ W(t) > 0 BY <1>2 DEF W, TypeOK
<1>6. load'[s] = load[s] - W(t) + 0 /\ load'[d] = load[d] - 0 + W(t)
  BY <1>2, <1>4 DEF Relink
<1>7. load[s] \in Int /\ load[d] \in Int BY <1>2 DEF LoadInv
<1> QED BY <1>2, <1>3, <1>4, <1>5, <1>6, <1>7 DEF Gap

\* Unless it is being pinned, a runnable task changes queue only while it is off
\* every CPU and only towards balance, so two queues never pull one task back
\* and forth.
THEOREM MovesConverge == Spec => MovesImproveBalance
<1> USE SchedulerConstants
<1> DEFINE Improves ==
      \A t \in Tasks :
        LET from == cpu[t]  to == cpu'[t] IN
        st[t] = "RUNNING" /\ from # to /\ ~pinned'[t]
          => ~onCpu[t] /\ Gap(load', from, to) < Gap(load, from, to)
<1>1. ASSUME TypeOK, QueueConsistent, LoadInv, Next PROVE Improves
  <2>1. CASE cpu' = cpu BY <2>1
  <2>2. ASSUME NEW t \in Tasks, NEW d \in CPUs, cpu' = [cpu EXCEPT ![t] = d], st[t] # "RUNNING"
        PROVE  Improves
    BY <1>1, <2>2 DEF TypeOK
  <2>3. ASSUME NEW d \in CPUs, NEW t \in Pullable(d), Relink(t, d, pinned[t], TRUE)
        PROVE  Improves
    <3>1. cpu' = [cpu EXCEPT ![t] = d] BY <2>3 DEF Relink
    <3>2. /\ ~onCpu[t] /\ t \in Tasks
          /\ Gap(load', cpu[t], d) < Gap(load, cpu[t], d)
      BY <1>1, <2>3, PullImproves
    <3> SUFFICES ASSUME NEW u \in Tasks, cpu[u] # cpu'[u]
                 PROVE  ~onCpu[u] /\ Gap(load', cpu[u], cpu'[u]) < Gap(load, cpu[u], cpu'[u])
      OBVIOUS
    <3>3. u = t BY <3>1 DEF TypeOK
    <3>4. cpu'[t] = d BY <1>1, <3>1, <3>2 DEF TypeOK
    <3> QED BY <3>2, <3>3, <3>4
  <2>4. PICK c \in CPUs :
          \/ Enter(c) \/ Interrupt(c) \/ Reschedule(c)
          \/ LeaveNested(c) \/ LeaveLock(c) \/ Release(c)
          \/ Arm(c) \/ Block(c) \/ Disarm(c) \/ Yield(c) \/ Exit(c) \/ Pin(c)
          \/ Tick(c) \/ NextBegin(c) \/ PickPull(c) \/ Switch(c)
          \/ \E t \in Tasks :
               \/ Fire(c, t) \/ Signal(c, t) \/ Publish(c, t) \/ Kill(c, t)
               \/ PickFinish(c, t)
               \/ \E w \in Weights : SetWeight(c, t, w)
    BY <1>1 DEF Next
  <2>5. CASE \/ Enter(c) \/ Interrupt(c) \/ Reschedule(c) \/ LeaveNested(c)
             \/ LeaveLock(c) \/ Release(c) \/ Arm(c) \/ Disarm(c) \/ Yield(c) \/ Switch(c)
    <3>1. cpu' = cpu
      BY <2>5 DEF Enter, Interrupt, Reschedule, LeaveNested, LeaveLock, Release, Arm,
                  Disarm, Yield, Switch, taskVars
    <3> QED BY <2>1, <3>1
  <2>6. CASE Block(c) \/ Exit(c) \/ NextBegin(c)
    <3>1. cpu' = cpu \/ cpu' = [cpu EXCEPT ![cur[c]] = cpu[cur[c]]]
      BY <2>6 DEF Block, Exit, NextBegin, Finish, Relink
    <3> QED BY <1>1, <2>1, <3>1 DEF TypeOK
  <2>7. CASE Tick(c) \/ PickPull(c)
    <3>1. \/ cpu' = cpu
          \/ \E d \in CPUs : \E t \in Pullable(d) : Relink(t, d, pinned[t], TRUE)
      BY <2>7 DEF Tick, PickPull, PullInto, Least
    <3> QED BY <2>1, <2>3, <3>1
  <2>8. ASSUME NEW t \in Tasks, Fire(c, t) \/ Signal(c, t) \/ Publish(c, t) PROVE Improves
    <3>1. \/ cpu' = cpu
          \/ st[t] # "RUNNING" /\ \E d \in CPUs : cpu' = [cpu EXCEPT ![t] = d]
      BY <1>1, <2>8 DEF Fire, Signal, Publish, TaskRun, Relink, WakePlaces, LeastLoaded, TypeOK
    <3> QED BY <2>1, <2>2, <3>1
  <2>9. ASSUME NEW t \in Tasks,
               Kill(c, t) \/ PickFinish(c, t) \/ \E w \in Weights : SetWeight(c, t, w)
        PROVE  Improves
    <3>1. cpu' = cpu \/ cpu' = [cpu EXCEPT ![t] = cpu[t]]
      BY <2>9 DEF Kill, PickFinish, SetWeight, Finish, Relink
    <3> QED BY <1>1, <2>1, <3>1 DEF TypeOK
  <2>10. CASE Pin(c)
    <3>1. /\ pinned' = [u \in Tasks |-> pinned[u] \/ u \in Members(cur[c])]
          /\ cpu' = [u \in Tasks |-> IF u \in Members(cur[c]) THEN 0 ELSE cpu[u]]
      BY <2>10 DEF Pin
    <3> SUFFICES ASSUME NEW t \in Tasks, cpu[t] # cpu'[t], ~pinned'[t] PROVE FALSE
      OBVIOUS
    <3> QED BY <3>1
  <2> QED BY <2>4, <2>5, <2>6, <2>7, <2>8, <2>9, <2>10
<1>2. TypeOK /\ QueueConsistent /\ LoadInv /\ [Next]_vars => [Improves]_vars BY <1>1
<1> HIDE DEF Improves
<1>3. Spec => [][Improves]_vars
  BY <1>2, LoadCorrect, SchedulerTypes, QueuesConsistent, PTL DEF Spec
<1> QED BY <1>3 DEF Improves, MovesImproveBalance

=============================================================================
