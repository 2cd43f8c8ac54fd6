----------------------------- MODULE Scheduler -----------------------------
(***************************************************************************)
(* The multi-CPU scheduler of kernel/dos/task/mtask.c: run queues, load    *)
(* accounting, placement, wake-up, blocking, preemption, load balancing    *)
(* and the remote termination of a running task.                           *)
(*                                                                         *)
(* Every change of scheduler state happens under the big kernel lock       *)
(* (kernel_lock_enter/leave).  A task switch does not release the lock:    *)
(* the lock stays with the CPU and the resumed task goes on in its own     *)
(* kernel code.  So one CPU at a time, `klock', is inside the kernel, and  *)
(* `mode' says where it is:                                                *)
(*   "body"     kernel code of the current task (a system call), depth 1   *)
(*   "armed"    the task registered as a waiter and is about to block      *)
(*   "irq"      a device or timer interrupt that interrupted user code     *)
(*   "next"     task_next was called, "pick" its scan of the run queue     *)
(*   "release"  kernel_lock_leave after its preemption check               *)
(* `nest' is true during an interrupt taken on top of "body" or "armed"    *)
(* (lock depth 2, where task_next only records need_resched).              *)
(*                                                                         *)
(* Virtual run time is abstracted: among eligible tasks of equal urgency   *)
(* any may be picked.  The idle task of a CPU is the value Idle.           *)
(***************************************************************************)
EXTENDS Integers, FiniteSets, FiniteSetsExt

CONSTANTS Tasks,      \* the non-idle tasks
          CPUs,       \* the online processors; 0 is the boot processor
          Leaders,    \* tasks that are thread-group leaders
          Spaces,     \* address spaces
          Space,      \* the address space of each task
          Weights,    \* the scheduling weights task_set_weight may set
          Pinnable,   \* whether task_pin_current is called
          Nesting,    \* whether interrupts arrive inside system calls
          Idle, NoCpu

ASSUME SchedulerConstants ==
  /\ CPUs \subseteq Nat /\ 0 \in CPUs /\ IsFiniteSet(CPUs)
  /\ Leaders \subseteq Tasks
  /\ Space \in [Tasks -> Spaces]
  /\ Weights \subseteq Nat /\ Weights # {}
  /\ Pinnable \in BOOLEAN /\ Nesting \in BOOLEAN
  /\ Idle \notin Tasks /\ NoCpu \notin CPUs

\* The task registry stops growing when its 32-bit slot count would overflow.
ASSUME TasksFinite == IsFiniteSet(Tasks)

VARIABLES
  st,        \* task->state
  cpu,       \* task->cpu: the queue a runnable task belongs to
  rq,        \* scheduler_cpus[c].runnable: the tasks linked on c's list
  load,      \* scheduler_cpus[c].load
  movable,   \* scheduler_cpus[c].movable
  onCpu,     \* task->on_cpu
  pinned,    \* task->sched_flags & TASK_SCHED_PINNED
  weight,    \* task->weight
  ready,     \* task->ready: a wake-up that found the task running
  urgent,    \* task->urgent
  pend,      \* task->terminate_pending
  armed,     \* the task is registered with an event that has not happened
  resume,    \* where a task continues when task_next returns to it
  cur,       \* scheduler_cpus[c].current
  need,      \* scheduler_cpus[c].need_resched
  ipi,       \* a reschedule interrupt (vector 0xf0) is pending at c
  klock,     \* kernel_owner
  mode, nest

taskVars == <<st, cpu, onCpu, pinned, weight, ready, urgent, pend, armed>>
queueVars == <<rq, load, movable>>
lockVars == <<klock, mode, nest>>
vars == <<st, cpu, rq, load, movable, onCpu, pinned, weight, ready, urgent,
          pend, armed, resume, cur, need, ipi, klock, mode, nest>>

States == {"ALLOCATING", "RUNNING", "WAITING", "DIED"}
Modes == {"none", "body", "armed", "irq", "next", "pick", "release"}

TypeOK ==
  /\ st \in [Tasks -> States]
  /\ cpu \in [Tasks -> CPUs]
  /\ rq \in [CPUs -> SUBSET Tasks]
  /\ onCpu \in [Tasks -> BOOLEAN]
  /\ pinned \in [Tasks -> BOOLEAN]
  /\ weight \in [Tasks -> Nat]
  /\ ready \in [Tasks -> BOOLEAN]
  /\ urgent \in [Tasks -> BOOLEAN]
  /\ pend \in [Tasks -> BOOLEAN]
  /\ armed \in [Tasks -> BOOLEAN]
  /\ resume \in [Tasks -> {"body", "release"}]
  /\ cur \in [CPUs -> Tasks \cup {Idle}]
  /\ need \in [CPUs -> BOOLEAN]
  /\ ipi \in [CPUs -> BOOLEAN]
  /\ klock \in CPUs \cup {NoCpu}
  /\ mode \in Modes
  /\ nest \in BOOLEAN

----------------------------------------------------------------------------
\* Queue membership and the counters kept with it.

W(t) == IF weight[t] = 0 THEN 1 ELSE weight[t]
Linked(t) == \E c \in CPUs : t \in rq[c]
One(b) == IF b THEN 1 ELSE 0

Relink_NoRemove(t, c, p, link) ==
  /\ rq' = [d \in CPUs |-> IF link /\ d = c THEN rq[d] \cup {t} ELSE rq[d]]
  /\ load' = [d \in CPUs |-> load[d] + (IF link /\ d = c THEN W(t) ELSE 0)]
  /\ movable' = [d \in CPUs |-> movable[d] + One(link /\ d = c /\ ~p)]
  /\ cpu' = [cpu EXCEPT ![t] = c]

\* scheduler_remove, the new task->cpu = c and PINNED flag p, then
\* scheduler_insert, which links the task only when it is RUNNING (link).
\* The removal charges the counters of the task's current cpu field.
Relink(t, c, p, link) ==
  /\ rq' = [d \in CPUs |-> IF link /\ d = c THEN rq[d] \cup {t} ELSE rq[d] \ {t}]
  /\ load' = [d \in CPUs |-> load[d]
                 - (IF Linked(t) /\ d = cpu[t] THEN W(t) ELSE 0)
                 + (IF link /\ d = c THEN W(t) ELSE 0)]
  /\ movable' = [d \in CPUs |-> movable[d]
                 - One(Linked(t) /\ d = cpu[t] /\ ~pinned[t])
                 + One(link /\ d = c /\ ~p)]
  /\ cpu' = [cpu EXCEPT ![t] = c]

Request_Self(by, c) ==
  need' = [need EXCEPT ![by] = TRUE] /\ ipi' = ipi

\* scheduler_request, called on CPU `by': an interrupt is sent only when
\* need_resched was clear, and never to the calling CPU itself.
Request(by, c) ==
  /\ need' = [need EXCEPT ![c] = TRUE]
  /\ ipi' = [ipi EXCEPT ![c] = @ \/ (~need[c] /\ c # by)]

\* scheduler_load and scheduler_least_loaded_cpu: the task's own CPU unless
\* another one has strictly less load; then the lowest-numbered of the least.
LoadWithout(t, c) ==
  load[c] - (IF Linked(t) /\ cpu[t] = c THEN W(t) ELSE 0)
LeastLoaded(t) ==
  {c \in CPUs :
     /\ \A d \in CPUs : LoadWithout(t, c) <= LoadWithout(t, d)
     /\ \/ c = cpu[t]
        \/ /\ LoadWithout(t, c) < LoadWithout(t, cpu[t])
           /\ \A d \in CPUs : d < c => LoadWithout(t, c) < LoadWithout(t, d)}

----------------------------------------------------------------------------
\* into_mtask: kinit runs on CPU 0, pinned to it, inside its first kernel code;
\* the other processors are in their idle tasks.
Init ==
  \E kinit \in Leaders :
    /\ st = [t \in Tasks |-> IF t = kinit THEN "RUNNING" ELSE "ALLOCATING"]
    /\ cpu = [t \in Tasks |-> 0]
    /\ pinned = [t \in Tasks |-> t = kinit]
    /\ weight \in [Tasks -> Weights]
    /\ rq = [c \in CPUs |-> IF c = 0 THEN {kinit} ELSE {}]
    /\ load = [c \in CPUs |-> IF c = 0 THEN W(kinit) ELSE 0]
    /\ movable = [c \in CPUs |-> 0]
    /\ onCpu = [t \in Tasks |-> t = kinit]
    /\ ready = [t \in Tasks |-> FALSE]
    /\ urgent = [t \in Tasks |-> FALSE]
    /\ pend = [t \in Tasks |-> FALSE]
    /\ armed = [t \in Tasks |-> FALSE]
    /\ resume = [t \in Tasks |-> "body"]
    /\ cur = [c \in CPUs |-> IF c = 0 THEN kinit ELSE Idle]
    /\ need = [c \in CPUs |-> FALSE]
    /\ ipi = [c \in CPUs |-> FALSE]
    /\ klock = 0 /\ mode = "body" /\ nest = FALSE

----------------------------------------------------------------------------
\* What the code running on the lock's holder can do.

InBody(c) == klock = c /\ mode = "body" /\ ~nest /\ ~pend[cur[c]]
InIrq(c) == klock = c /\ (mode = "irq" \/ nest)

\* Where task_run places a waiting task: where it was when it is pinned or has
\* not left its CPU, else on the least loaded CPU.
WakePlaces_IgnorePin(t) == LeastLoaded(t)
WakePlaces(t) == IF pinned[t] \/ onCpu[t] THEN {cpu[t]} ELSE LeastLoaded(t)

\* task_run of t by CPU c.  A waiting task becomes runnable and is
\* placed; a task found running keeps the wake-up in `ready'.
TaskRun(c, t) ==
  /\ st[t] \in {"RUNNING", "WAITING"}
  /\ urgent' = [urgent EXCEPT ![t] = TRUE]
  /\ \/ /\ st[t] = "WAITING"
        /\ st' = [st EXCEPT ![t] = "RUNNING"]
        /\ ready' = [ready EXCEPT ![t] = FALSE]
        /\ \E d \in WakePlaces(t) :
             Relink(t, d, pinned[t], TRUE) /\ Request(c, d)
     \/ /\ st[t] = "RUNNING"
        /\ ready' = [ready EXCEPT ![t] = TRUE]
        /\ Request(c, cpu[t])
        /\ UNCHANGED <<st, cpu, queueVars>>
  /\ UNCHANGED <<onCpu, pinned, weight, pend, resume, cur, lockVars>>

\* The event a task registered for happens: its waker drops the registration
\* and calls task_run.  Events come from system calls, from interrupts and,
\* for a joiner or a deferred leader, from the teardown of a task in task_next.
Fire(c, t) ==
  /\ \/ InBody(c) /\ cur[c] # t
     \/ InIrq(c)
     \/ klock = c /\ mode = "pick"
  /\ armed[t]
  /\ armed' = [armed EXCEPT ![t] = FALSE]
  /\ TaskRun(c, t)

\* A wake-up that is not the event itself (a signal, a lock hand-over hint).
Signal(c, t) ==
  /\ (InBody(c) /\ cur[c] # t) \/ InIrq(c)
  /\ TaskRun(c, t)
  /\ UNCHANGED armed

\* task_publish: place_task while still ALLOCATING (only the cpu field and the
\* request take effect), then task_set_state(RUNNING) links the task.
Publish(c, t) ==
  /\ InBody(c) /\ st[t] = "ALLOCATING"
  /\ \E d \in IF pinned[t] THEN {cpu[t]} ELSE LeastLoaded(t) :
       Relink(t, d, pinned[t], TRUE) /\ Request(c, d)
  /\ st' = [st EXCEPT ![t] = "RUNNING"]
  /\ UNCHANGED <<onCpu, pinned, weight, ready, urgent, pend, armed, resume,
                 cur, lockVars>>

\* task_set_weight.  A remote running task is only interrupted: need_resched
\* of its CPU is set by the interrupt itself.
SetWeight_KeepLoad(c, t, w) ==
  /\ InBody(c) /\ st[t] \in {"RUNNING", "WAITING"} /\ weight[t] # w
  /\ weight' = [weight EXCEPT ![t] = w]
  /\ ipi' = [ipi EXCEPT ![cpu[t]] = @ \/ (onCpu[t] /\ cpu[t] # c)]
  /\ UNCHANGED <<st, cpu, queueVars, onCpu, pinned, ready, urgent, pend,
                 armed, resume, cur, need, lockVars>>
SetWeight(c, t, w) ==
  /\ InBody(c) /\ st[t] \in {"RUNNING", "WAITING"} /\ weight[t] # w
  /\ weight' = [weight EXCEPT ![t] = w]
  /\ load' = [d \in CPUs |-> IF Linked(t) /\ d = cpu[t]
                               THEN load[d] - W(t) + (IF w = 0 THEN 1 ELSE w)
                               ELSE load[d]]
  /\ ipi' = [ipi EXCEPT ![cpu[t]] = @ \/ (onCpu[t] /\ cpu[t] # c)]
  /\ UNCHANGED <<st, cpu, rq, movable, onCpu, pinned, ready, urgent, pend,
                 armed, resume, cur, need, lockVars>>

\* The body registers the current task with an event (again, after a wake-up).
Arm(c) ==
  /\ InBody(c)
  /\ armed' = [armed EXCEPT ![cur[c]] = TRUE]
  /\ mode' = "armed"
  /\ UNCHANGED <<st, cpu, queueVars, onCpu, pinned, weight, ready, urgent,
                 pend, resume, cur, need, ipi, klock, nest>>

WakeHeld_Never(t) == FALSE
WakeHeld(t) == ready[t]

\* task_fall_blocked_reason: a wake-up kept in `ready' is consumed, otherwise
\* the task leaves the queue and calls task_next.
Block(c) ==
  LET t == cur[c] IN
  /\ klock = c /\ mode = "armed" /\ ~nest
  /\ ready' = [ready EXCEPT ![t] = FALSE]
  /\ \/ /\ WakeHeld(t)
        /\ mode' = "body"
        /\ UNCHANGED <<st, cpu, queueVars, resume>>
     \/ /\ ~WakeHeld(t)
        /\ st' = [st EXCEPT ![t] = "WAITING"]
        /\ Relink(t, cpu[t], pinned[t], FALSE)
        /\ mode' = "next"
        /\ resume' = [resume EXCEPT ![t] = "body"]
  /\ UNCHANGED <<onCpu, pinned, weight, urgent, pend, armed, cur, need, ipi,
                 klock, nest>>

\* A body that found its event already done drops the registration.
Disarm(c) ==
  /\ InBody(c) /\ armed[cur[c]]
  /\ armed' = [armed EXCEPT ![cur[c]] = FALSE]
  /\ UNCHANGED <<st, cpu, queueVars, onCpu, pinned, weight, ready, urgent,
                 pend, resume, cur, need, ipi, lockVars>>

\* unlock, and the system calls that give up the CPU, call task_next.
Yield(c) ==
  /\ InBody(c) /\ ~armed[cur[c]]
  /\ mode' = "next"
  /\ resume' = [resume EXCEPT ![cur[c]] = "body"]
  /\ UNCHANGED <<taskVars, queueVars, cur, need, ipi, klock, nest>>

\* task_finish_pending and finish_task, as far as the scheduler sees them.  A
\* leader whose threads still run elsewhere is deferred: it stays pending and
\* waits for their exit (TaskLifecycle decides when); otherwise the task leaves
\* the queue for good.
Finish(t) ==
  \E defer \in IF t \in Leaders THEN BOOLEAN ELSE {FALSE} :
    /\ pend' = [pend EXCEPT ![t] = defer]
    /\ armed' = [armed EXCEPT ![t] = defer]
    /\ st' = [st EXCEPT ![t] = IF defer THEN "WAITING" ELSE "DIED"]
    /\ Relink(t, cpu[t], pinned[t], FALSE)

\* request_task_termination of another task: one that runs on another CPU is
\* marked and its CPU interrupted, any other is finished here and now.
Kill(c, t) ==
  /\ InBody(c) /\ t # cur[c] /\ st[t] \in {"RUNNING", "WAITING"}
  /\ \/ /\ onCpu[t]
        /\ pend' = [pend EXCEPT ![t] = TRUE]
        /\ Request(c, cpu[t])
        /\ UNCHANGED <<st, cpu, queueVars, armed>>
     \/ /\ ~onCpu[t]
        /\ Finish(t)
        /\ UNCHANGED <<need, ipi>>
  /\ UNCHANGED <<onCpu, pinned, weight, ready, urgent, resume, cur, lockVars>>

\* task_exit, also taken on kernel entry by a task found terminate_pending.
Exit(c) ==
  /\ klock = c /\ mode = "body" /\ ~nest
  /\ Finish(cur[c])
  /\ mode' = "next"
  /\ resume' = [resume EXCEPT ![cur[c]] = "body"]
  /\ UNCHANGED <<onCpu, pinned, weight, ready, urgent, cur, need, ipi, klock, nest>>

\* task_pin_current(0), the only call there is (VESA video modes, syscall.c:925 and
\* syscall.c:961): fails when another task of the address space is on a
\* CPU; otherwise every task of it is pinned and moved to CPU 0, and a caller
\* on another CPU switches away to be resumed there.
Members(t) == {u \in Tasks : Space[u] = Space[t] /\ st[u] \in {"RUNNING", "WAITING"}}

\* The caller leaves a CPU that is no longer its own.
GoHome(c) ==
  IF c # 0
    THEN mode' = "next" /\ resume' = [resume EXCEPT ![cur[c]] = "body"]
    ELSE UNCHANGED <<mode, resume>>

Pin(c) ==
  LET t == cur[c]
      M == Members(t)
      from(d) == {u \in M : Linked(u) /\ cpu[u] = d}
      moved == \E u \in M : cpu[u] # 0
  IN
  /\ Pinnable /\ InBody(c) /\ ~armed[t]
  /\ \A u \in M \ {t} : ~onCpu[u]
  /\ \E u \in M : ~pinned[u] \/ cpu[u] # 0
  /\ pinned' = [u \in Tasks |-> pinned[u] \/ u \in M]
  /\ cpu' = [u \in Tasks |-> IF u \in M THEN 0 ELSE cpu[u]]
  /\ rq' = [d \in CPUs |-> (rq[d] \ M)
               \cup (IF d = 0 THEN {u \in M : st[u] = "RUNNING"} ELSE {})]
  /\ load' = [d \in CPUs |-> load[d] - MapThenSumSet(W, from(d))
               + (IF d = 0 THEN MapThenSumSet(W, {u \in M : st[u] = "RUNNING"}) ELSE 0)]
  /\ movable' = [d \in CPUs |-> movable[d] - Cardinality({u \in from(d) : ~pinned[u]})]
  /\ IF moved \/ c # 0 THEN Request(c, 0) ELSE UNCHANGED <<need, ipi>>
  /\ GoHome(c)
  /\ UNCHANGED <<st, onCpu, weight, ready, urgent, pend, armed, cur, klock, nest>>

----------------------------------------------------------------------------
\* Entering and leaving the kernel.

\* x64_syscall_dispatch: the current task takes the kernel lock.
Enter(c) ==
  /\ klock = NoCpu /\ cur[c] # Idle
  /\ klock' = c /\ mode' = "body"
  /\ UNCHANGED <<taskVars, queueVars, resume, cur, need, ipi, nest>>

\* An interrupt other than the reschedule vector: it takes the lock over user
\* or idle code, or nests inside a system call that runs with interrupts on.
Interrupt(c) ==
  \/ /\ klock = NoCpu
     /\ klock' = c /\ mode' = "irq"
     /\ UNCHANGED <<taskVars, queueVars, resume, cur, need, ipi, nest>>
  \/ /\ Nesting
     /\ klock = c /\ mode \in {"body", "armed"} /\ ~nest /\ ~pend[cur[c]]
     /\ nest' = TRUE
     /\ UNCHANGED <<taskVars, queueVars, resume, cur, need, ipi, klock, mode>>

\* Vector 0xf0, scheduler_reschedule_interrupt: need_resched is set, and
\* task_next runs at depth 1 but returns at once when nested.
Reschedule(c) ==
  /\ ipi[c]
  /\ ipi' = [ipi EXCEPT ![c] = FALSE]
  /\ need' = [need EXCEPT ![c] = TRUE]
  /\ \/ /\ klock = NoCpu
        /\ klock' = c /\ mode' = "next"
        /\ resume' = [t \in Tasks |-> IF t = cur[c] THEN "release" ELSE resume[t]]
     \/ /\ klock = c /\ mode \in {"body", "armed"} /\ ~nest /\ ~pend[cur[c]]
        /\ UNCHANGED <<klock, mode, resume>>
  /\ UNCHANGED <<taskVars, queueVars, cur, nest>>

\* The end of a nested interrupt: kernel_lock_leave at depth 2.
LeaveNested(c) ==
  /\ klock = c /\ nest
  /\ nest' = FALSE
  /\ UNCHANGED <<taskVars, queueVars, resume, cur, need, ipi, klock, mode>>

\* scheduler_preempt_if_needed's test at lock depth 1.
PreemptNeeded_Never(c) == FALSE
PreemptNeeded(c) == need[c]

\* kernel_lock_leave at depth 1: scheduler_preempt_if_needed calls task_next
\* when need_resched is set, otherwise the lock is given up.
LeaveLock(c) ==
  /\ klock = c /\ ~nest
  /\ \/ mode = "irq"
     \/ InBody(c) /\ ~armed[cur[c]]
  /\ IF PreemptNeeded(c)
       THEN /\ mode' = "next"
            /\ resume' = [t \in Tasks |-> IF t = cur[c] THEN "release" ELSE resume[t]]
            /\ UNCHANGED klock
       ELSE klock' = NoCpu /\ mode' = "none" /\ UNCHANGED resume
  /\ UNCHANGED <<taskVars, queueVars, cur, need, ipi, nest>>

\* The rest of kernel_lock_leave, in the task task_next returned to: the lock
\* is given up without a second look at need_resched.
Release(c) ==
  /\ klock = c /\ mode = "release"
  /\ klock' = NoCpu /\ mode' = "none"
  /\ UNCHANGED <<taskVars, queueVars, resume, cur, need, ipi, nest>>

----------------------------------------------------------------------------
\* Load balancing.

\* The queues scheduler_pull looks into, and the tasks it may take from them:
\* queued, unpinned, not on a CPU, and light enough that the move strictly
\* reduces the difference of the loads.
Donors(target) ==
  {s \in CPUs \ {target} :
     /\ load[s] > load[target]
     /\ movable[s] # 0
     /\ ~ /\ movable[s] = 1
          /\ cur[s] # Idle
          /\ onCpu[cur[s]] /\ Linked(cur[s]) /\ ~pinned[cur[s]]}
Candidates_WholeGap(s, target) ==
  {t \in rq[s] : ~onCpu[t] /\ ~pend[t] /\ ~pinned[t] /\ W(t) <= load[s] - load[target]}
Candidates(s, target) ==
  {t \in rq[s] : ~onCpu[t] /\ ~pend[t] /\ ~pinned[t] /\ W(t) < load[s] - load[target]}
Gain(t, s, target) ==
  LET difference == load[s] - load[target] IN
  IF W(t) < difference - W(t) THEN W(t) ELSE difference - W(t)

\* A task of greatest gain (the first one met in queue order in the code).
Pullable(target) ==
  {t \in Tasks :
     \E s \in Donors(target) :
       /\ t \in Candidates(s, target)
       /\ \A r \in Donors(target) : \A u \in Candidates(r, target) :
            Gain(u, r, target) <= Gain(t, s, target)}

\* scheduler_pull on CPU c for queue `target'.
PullInto(c, target) ==
  IF Pullable(target) = {}
    THEN UNCHANGED <<cpu, queueVars, need, ipi>>
    ELSE \E t \in Pullable(target) :
           Relink(t, target, pinned[t], TRUE) /\ Request(c, target)

\* scheduler_balance's choice: the lowest-numbered CPU of least load.
Least ==
  {c \in CPUs : \A d \in CPUs : load[c] < load[d] \/ (load[c] = load[d] /\ c <= d)}

\* scheduler_tick in a timer interrupt; CPU 0 balances every tenth time.
Tick(c) ==
  /\ InIrq(c)
  /\ UNCHANGED <<st, onCpu, pinned, weight, ready, urgent, pend, armed, resume,
                 cur, lockVars>>
  /\ \/ /\ ~need[c]
        /\ need' = [need EXCEPT ![c] = TRUE]
        /\ UNCHANGED <<cpu, queueVars, ipi>>
     \/ /\ c = 0
        /\ \E target \in Least :
             \/ /\ Pullable(target) = {} /\ need' = [need EXCEPT ![c] = TRUE]
                /\ UNCHANGED <<cpu, queueVars, ipi>>
             \/ \E t \in Pullable(target) :
                  /\ Relink(t, target, pinned[t], TRUE)
                  /\ need' = [need EXCEPT ![c] = TRUE, ![target] = TRUE]
                  /\ ipi' = [ipi EXCEPT ![target] = @ \/ (~need[target] /\ target # c)]

----------------------------------------------------------------------------
\* task_next at lock depth 1.

\* It takes the current task off the CPU and finishes it if it was killed.
TakenOff_Kept(t) == onCpu
TakenOff(t) == [u \in Tasks |-> onCpu[u] /\ u # t]
NextBegin(c) ==
  LET t == cur[c] IN
  /\ klock = c /\ mode = "next"
  /\ mode' = "pick"
  /\ onCpu' = TakenOff(t)
  /\ IF t # Idle /\ pend[t]
       THEN Finish(t)
       ELSE UNCHANGED <<st, cpu, queueVars, pend, armed>>
  /\ UNCHANGED <<pinned, weight, ready, urgent, resume, cur, need, ipi, klock, nest>>

\* scheduler_pick_next finishes a killed task that it finds on the queue.
PickFinish(c, t) ==
  /\ klock = c /\ mode = "pick"
  /\ t \in rq[c] /\ pend[t] /\ ~onCpu[t] /\ t # cur[c]
  /\ Finish(t)
  /\ UNCHANGED <<onCpu, pinned, weight, ready, urgent, resume, cur, need, ipi, lockVars>>

\* scheduler_task_eligible over the queue, and the most urgent of the eligible.
Eligible_OthersOnly(c) ==
  {t \in rq[c] : st[t] = "RUNNING" /\ cpu[t] = c /\ ~pend[t] /\ ~onCpu[t] /\ t # cur[c]}
Eligible(c) ==
  {t \in rq[c] : st[t] = "RUNNING" /\ cpu[t] = c /\ ~pend[t] /\ (~onCpu[t] \/ t = cur[c])}
Preferred(c) == {t \in Eligible(c) : \A u \in Eligible(c) : urgent[u] => urgent[t]}
Unfinished(c) == {t \in rq[c] : pend[t] /\ ~onCpu[t] /\ t # cur[c]}

\* Nothing to run here: try another queue, then pick again.
PickPull(c) ==
  /\ klock = c /\ mode = "pick" /\ Unfinished(c) = {} /\ Eligible(c) = {}
  /\ Pullable(c) # {}
  /\ PullInto(c, c)
  /\ UNCHANGED <<st, onCpu, pinned, weight, ready, urgent, pend, armed, resume,
                 cur, lockVars>>

\* The switch to the picked task, or to the idle task.
Switch(c) ==
  /\ klock = c /\ mode = "pick" /\ Unfinished(c) = {}
  /\ need' = [need EXCEPT ![c] = FALSE]
  /\ \/ \E t \in Preferred(c) :
          /\ cur' = [cur EXCEPT ![c] = t]
          /\ onCpu' = [onCpu EXCEPT ![t] = TRUE]
          /\ urgent' = [urgent EXCEPT ![t] = FALSE]
          /\ ready' = [ready EXCEPT ![t] = FALSE]
          /\ mode' = resume[t]
     \/ /\ Eligible(c) = {} /\ Pullable(c) = {}
        /\ cur' = [cur EXCEPT ![c] = Idle]
        /\ mode' = "release"
        /\ UNCHANGED <<onCpu, urgent, ready>>
  /\ UNCHANGED <<st, cpu, queueVars, pinned, weight, pend, armed, resume, ipi,
                 klock, nest>>

----------------------------------------------------------------------------
Next ==
  \E c \in CPUs :
    \/ Enter(c) \/ Interrupt(c) \/ Reschedule(c)
    \/ LeaveNested(c) \/ LeaveLock(c) \/ Release(c)
    \/ Arm(c) \/ Block(c) \/ Disarm(c) \/ Yield(c) \/ Exit(c) \/ Pin(c)
    \/ Tick(c) \/ NextBegin(c) \/ PickPull(c) \/ Switch(c)
    \/ \E t \in Tasks :
         \/ Fire(c, t) \/ Signal(c, t) \/ Publish(c, t) \/ Kill(c, t)
         \/ PickFinish(c, t)
         \/ \E w \in Weights : SetWeight(c, t, w)

Spec == Init /\ [][Next]_vars

\* System calls and interrupt handlers terminate, task_next runs to its switch,
\* and a CPU that keeps trying for the kernel lock gets it in the end.
Fairness ==
  /\ WF_vars(\E c \in CPUs : NextBegin(c) \/ Release(c) \/ LeaveNested(c)
                               \/ (klock = c /\ mode = "body" /\ pend[cur[c]] /\ Exit(c)))
  /\ SF_vars(\E c \in CPUs : Block(c))
  /\ SF_vars(\E c \in CPUs : Disarm(c))
  /\ SF_vars(\E c \in CPUs : LeaveLock(c))
  /\ SF_vars(\E c \in CPUs : PickPull(c) \/ \E t \in Tasks : PickFinish(c, t))
  /\ SF_vars(\E c \in CPUs : Switch(c))
  /\ \A c \in CPUs : SF_vars(Reschedule(c))
FairSpec == Spec /\ Fairness

----------------------------------------------------------------------------
\* Properties.

\* A runnable task is linked on the list of its own CPU and on no other, and
\* nothing else is linked anywhere (mtask.c: "Runnable membership includes the
\* current task, but excludes idle tasks").
QueueConsistent ==
  \A t \in Tasks, c \in CPUs : t \in rq[c] <=> (st[t] = "RUNNING" /\ cpu[t] = c)

\* The counters placement and balancing trust are the sums over the queue,
\* after any sequence of wake, weight, pin, pull and kill.
LoadConsistent ==
  \A c \in CPUs :
    /\ load[c] = MapThenSumSet(W, rq[c])
    /\ movable[c] = Cardinality({t \in rq[c] : ~pinned[t]})

\* A task is the current task of at most one CPU, and on_cpu says exactly that,
\* except for the current task that task_next has just taken off its CPU; so no
\* two processors ever run on one kernel stack.
OneCpuPerTask ==
  /\ \A c, e \in CPUs : cur[c] = cur[e] /\ cur[c] # Idle => c = e
  /\ \A t \in Tasks :
       onCpu[t] <=> \E c \in CPUs : cur[c] = t /\ ~(klock = c /\ mode = "pick")

\* A task that executes outside task_next is runnable and its cpu field names
\* the processor it executes on: reschedule requests for it go to the right CPU.
RunsAtHome ==
  \A c \in CPUs :
    cur[c] # Idle /\ ~(klock = c /\ mode \in {"next", "pick"})
      => st[cur[c]] = "RUNNING" /\ cpu[cur[c]] = c

\* need_resched is never left behind: a CPU with a request has the interrupt
\* still to come or holds the kernel lock, whose release looks at the flag
\* (scheduler_request sends nothing when the flag is already set).
RequestDelivered == \A c \in CPUs : need[c] => ipi[c] \/ klock = c

\* A task killed while it runs on another CPU is on its way out of it: its CPU
\* has the request, or is already in task_next.
KillDelivered ==
  \A t \in Tasks :
    pend[t] /\ onCpu[t] => \/ need[cpu[t]]
                           \/ klock = cpu[t] /\ mode = "next"

\* No CPU idles on a queue that holds a live task without a request to look at
\* it.  (A killed leader woken while its own CPU is in task_next is skipped by
\* that scan and waits for the next timer tick.)
NoIdleWithWork ==
  \A c \in CPUs :
    cur[c] = Idle /\ (\E t \in rq[c] : ~pend[t])
      => need[c] \/ (klock = c /\ mode = "pick")

\* A waiting task still has its event to come: a wake-up between registering
\* and blocking is kept in `ready' and consumed by task_fall_blocked_reason.
NoLostWakeup == \A t \in Tasks : st[t] = "WAITING" => armed[t]

Gap(l, c, e) == IF l[c] < l[e] THEN l[e] - l[c] ELSE l[c] - l[e]

\* A runnable task changes queue, other than by being pinned, only when it is
\* not on a CPU and the move brings the two loads strictly closer together
\* ("This also prevents ... immediately stealing the same lone task back").
MovesImproveBalance ==
  [][\A t \in Tasks :
       LET from == cpu[t]  to == cpu'[t] IN
       st[t] = "RUNNING" /\ from # to /\ ~pinned'[t]
         => ~onCpu[t] /\ Gap(load', from, to) < Gap(load, from, to)]_vars

\* A pinned task keeps its CPU for ever.
PinnedStays ==
  [][\A t \in Tasks : pinned[t] => pinned'[t] /\ cpu'[t] = cpu[t]]_vars

\* A request to reschedule is served.
RequestServed == \A c \in CPUs : need[c] ~> ~need[c]

----------------------------------------------------------------------------
\* What makes the safety properties inductive.

\* The lock is free exactly when no CPU is in the kernel; only kernel code of a
\* task is nested over; an idle task has no kernel code of its own.
LockShape ==
  /\ klock = NoCpu <=> mode = "none"
  /\ nest => mode \in {"body", "armed"}
  /\ mode \in {"body", "armed"} => cur[klock] # Idle

\* kernel_lock_leave needs no second look at need_resched: the switch cleared
\* it and nobody else has held the lock since.
ReleaseClean == mode = "release" => ~need[klock]

\* Between registering and blocking the event is still to come or was kept.
ArmedShape == mode = "armed" => armed[cur[klock]] \/ ready[cur[klock]]

SchedulerInv ==
  /\ TypeOK /\ LockShape /\ QueueConsistent /\ OneCpuPerTask /\ RunsAtHome
  /\ RequestDelivered /\ ReleaseClean /\ KillDelivered /\ NoIdleWithWork
  /\ ArmedShape /\ NoLostWakeup

=============================================================================
