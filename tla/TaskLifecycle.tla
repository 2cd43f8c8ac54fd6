--------------------------- MODULE TaskLifecycle ---------------------------
(***************************************************************************)
(* The task registry of kernel/dos/task/mtask.c: slots that are claimed,   *)
(* published, finished and reused under generations; thread groups and     *)
(* their leaders; exit, kill, join, detach and wait; reparenting; the      *)
(* group lock; and the stacks that are freed after the CPU left them.      *)
(*                                                                         *)
(* All of this runs under the kernel lock, so a system call is one action. *)
(* task_next is split, because it finishes other tasks while it still runs *)
(* on the stack of the current one.  The run queues are the subject of     *)
(* module Scheduler: here any CPU may find a runnable task on its queue.   *)
(* Resources other than the address space, and exit statuses, are left     *)
(* out.                                                                    *)
(***************************************************************************)
EXTENDS Integers, FiniteSets, FiniteSetsExt

CONSTANTS CPUs,
          Slots,      \* the tids of the registry; 0 is the idle task, the reaper
          MaxGen,     \* bound on how often a slot is claimed
          MaxDepth,   \* bound on the depth of the group lock; 0: it is not used
          Idle, NoCpu

ASSUME LifecycleConstants ==
  /\ Slots \subseteq Nat \ {0} /\ 1 \in Slots /\ IsFiniteSet(Slots)
  /\ MaxGen \in Nat \ {0} /\ MaxDepth \in Nat
  /\ CPUs # {} /\ Idle \notin Slots /\ NoCpu \notin CPUs

NONE == -1       \* TASK_ID_NONE
REAPER == 0      \* REAPER_TID

VARIABLES
  slot,       \* task_registry: the record of each tid
  freeHint,   \* task_registry.free_hint
  retired,    \* retired_tasks: stacks to free at the next task_next
  cur,        \* scheduler_cpus[c].current
  holder,     \* the CPU that is inside task_next or about to resume a call
  phase       \* where the holder is

vars == <<slot, freeHint, retired, cur, holder, phase>>

States == {"EMPTY", "ALLOCATING", "RUNNING", "WAITING", "DIED", "WILL_EMPTY", "READY"}
Calls == {"user", "wait", "join", "lock", "group"}

\* The fields of mtask that the life cycle uses.  mem: the address space is
\* held.  call: the system call a blocked task returns into.  lgen and pgen are
\* history: the generations of the leader and of the parent at creation.
Record == [state : States, gen : 0..MaxGen, kind : {"PROCESS", "THREAD"},
           tgid : Slots, ptid : Slots \cup {NONE, REAPER}, joinable : BOOLEAN,
           pend : BOOLEAN, mem : BOOLEAN, reason : {"none", "child", "lock"},
           wtid : Slots \cup {NONE}, wgen : 0..MaxGen, call : Calls,
           owner : Slots \cup {NONE}, depth : 0..MaxDepth,
           lgen : 0..MaxGen, pgen : 0..MaxGen]

TypeOK ==
  /\ slot \in [Slots -> Record]
  /\ freeHint \in Nat /\ retired \subseteq Slots
  /\ cur \in [CPUs -> Slots \cup {Idle}]
  /\ holder \in CPUs \cup {NoCpu}
  /\ phase \in {"free", "begin", "pick", "resume"}

-----------------------------------------------------------------------------
(* Slots *)

\* task_slot_reset
Empty(t, gen) ==
  [state |-> "EMPTY", gen |-> gen, kind |-> "PROCESS", tgid |-> t, ptid |-> NONE,
   joinable |-> FALSE, pend |-> FALSE, mem |-> FALSE, reason |-> "none",
   wtid |-> NONE, wgen |-> 0, call |-> "user", owner |-> NONE, depth |-> 0,
   lgen |-> 0, pgen |-> 0]

\* task_slot_in_use, and what get_task returns
InUse(r, t) == t \in Slots /\ r[t].state \in {"RUNNING", "WAITING", "DIED"}
Alive(r, t) == InUse(r, t) /\ r[t].state # "DIED"

\* task_slot_release, for a set of slots
Release(r, S) == [t \in Slots |-> IF t \in S THEN Empty(t, r[t].gen) ELSE r[t]]

\* free_hint after a step that released slots
Hint(r) == Min({freeHint} \cup {t \in Slots : slot[t].state # "EMPTY"
                                                /\ r[t].state = "EMPTY"})

\* task_slot_claim: the first free slot at or above free_hint
Free == {t \in Slots : t >= freeHint /\ slot[t].state = "EMPTY"}
Claimed == Min(Free)

\* task_run, for a set of tasks that wait
Run(r, S) ==
  [t \in Slots |-> IF t \in S THEN [r[t] EXCEPT !.state = "RUNNING", !.reason = "none"]
                              ELSE r[t]]

-----------------------------------------------------------------------------
(* Teardown.  me is current_task() of the CPU that runs it. *)

OnCpu(t) == \E c \in CPUs : cur[c] = t

\* Mutant: a finishing task keeps the group lock.
LockFreed_Never(r, S) == r

\* task_clear_external_refs: a group lock that a finishing task owns is freed
\* and every waiter of the group is run.
LockFreed(r, S) ==
  LET G == {g \in Slots : InUse(r, g) /\ r[g].owner \in S /\ r[r[g].owner].tgid = g}
  IN Run([g \in Slots |-> IF g \in G THEN [r[g] EXCEPT !.owner = NONE, !.depth = 0]
                                     ELSE r[g]],
         {w \in Slots : InUse(r, w) /\ r[w].tgid \in G /\ r[w].state = "WAITING"
                          /\ r[w].reason = "lock"})

\* Mutants: only waiters for any child are run; only those that name the task.
ChildWaiters_Any(r, t) ==
  {w \in Slots : InUse(r, w) /\ r[w].state = "WAITING" /\ r[w].reason = "child"
                   /\ r[w].wtid = NONE}
ChildWaiters_Named(r, t) ==
  {w \in Slots : InUse(r, w) /\ r[w].state = "WAITING" /\ r[w].reason = "child"
                   /\ r[w].wtid = t /\ r[w].wgen = r[t].gen}

\* wake_child_waiter: the tasks it runs
Parent(r, t) == IF r[t].kind = "THREAD" THEN r[t].tgid ELSE r[t].ptid
ChildWaiters(r, t) ==
  {w \in Slots : /\ Parent(r, t) \notin {NONE, REAPER}
                 /\ InUse(r, w) /\ r[w].tgid = Parent(r, t)
                 /\ r[w].state = "WAITING" /\ r[w].reason = "child"
                 /\ r[w].wtid = NONE \/ (r[w].wtid = t /\ r[w].wgen = r[t].gen)}

\* task_release_resources
Cleared(rec) ==
  [rec EXCEPT !.pend = FALSE, !.mem = FALSE, !.reason = "none", !.wtid = NONE,
              !.wgen = 0, !.call = "user", !.owner = NONE, !.depth = 0]

\* finish_task, for a set of tasks that are finished one after the other
Finish(r, S, me, waitable) ==
  LET r1 == LockFreed(r, S)
      r2 == [t \in Slots |-> IF t \in S THEN Cleared(r1[t]) ELSE r1[t]]
      r3 == Run(r2, UNION {ChildWaiters(r2, t) : t \in S})
  IN [t \in Slots |->
        IF t \notin S THEN r3[t]
        ELSE IF waitable THEN [r3[t] EXCEPT !.state = "DIED"]
        ELSE IF t = me THEN [r3[t] EXCEPT !.state = "WILL_EMPTY"]
        ELSE Empty(t, r[t].gen)]

\* terminate_thread_group: zombies are freed, threads on other CPUs are asked
\* to terminate, all others are finished.
GroupEnd(r, g, except, me) ==
  LET K == {t \in Slots \ {except} : InUse(r, t) /\ r[t].kind = "THREAD" /\ r[t].tgid = g}
      dead == {t \in K : r[t].state = "DIED"}
      remote == {t \in K \ dead : OnCpu(t) /\ t # me}
      r1 == [t \in Slots |->
               IF t \in K THEN [r[t] EXCEPT !.joinable = FALSE, !.pend = @ \/ t \in remote]
                          ELSE r[t]]
  IN Finish(Release(r1, dead), K \ (dead \cup remote), me, FALSE)

\* Mutant: the leader does not wait for its threads.
HasThreads_Never(r, t) == FALSE

\* task_group_has_threads
HasThreads(r, t) ==
  \E s \in Slots \ {t} : InUse(r, s) /\ r[s].kind = "THREAD" /\ r[s].tgid = r[t].tgid
                           /\ r[s].mem

\* Mutant: zombies are handed to the reaper, which never waits.
Reparent_Zombies(r, g) ==
  [t \in Slots |-> IF InUse(r, t) /\ r[t].kind = "PROCESS" /\ r[t].ptid = g
                   THEN [r[t] EXCEPT !.ptid = REAPER] ELSE r[t]]

\* reparent_children to the reaper: zombies among them are freed.
Reparent(r, g) ==
  LET C == {t \in Slots : InUse(r, t) /\ r[t].kind = "PROCESS" /\ r[t].ptid = g}
      T == {t \in Slots : InUse(r, t) /\ r[t].kind = "THREAD" /\ r[t].tgid \in C}
  IN Release([t \in Slots |-> IF t \in C \cup T THEN [r[t] EXCEPT !.ptid = REAPER]
                                                ELSE r[t]],
             {t \in C : r[t].state = "DIED"})

\* task_finish_pending: a leader waits for the threads that other CPUs still run.
Deferred(rec) ==
  [rec EXCEPT !.pend = TRUE, !.state = "WAITING", !.reason = "child", !.wtid = NONE,
              !.wgen = 0]
FinishPending(r, t, me) ==
  LET r1 == GroupEnd(r, r[t].tgid, t, me)
      r2 == Reparent(r1, r[t].tgid)
  IN IF r[t].kind = "THREAD" THEN Finish(r, {t}, me, r[t].joinable)
     ELSE IF HasThreads(r1, t) THEN [r1 EXCEPT ![t] = Deferred(@)]
     ELSE Finish(r2, {t}, me, r2[t].joinable \/ r2[t].ptid \notin {NONE, REAPER})

\* Mutant: a task is finished while another CPU runs it.
Terminate_Now(r, t, me) == FinishPending(r, t, me)

\* request_task_termination
Terminate(r, t, me) ==
  IF OnCpu(t) /\ t # me THEN [r EXCEPT ![t].pend = TRUE] ELSE FinishPending(r, t, me)

-----------------------------------------------------------------------------
(* System calls of the task that CPU c runs.  A call either returns or goes *)
(* to task_next.                                                            *)

Caller(c) == /\ holder = NoCpu /\ cur[c] # Idle
             /\ slot[cur[c]].state = "RUNNING" /\ ~slot[cur[c]].pend
Group(c) == slot[cur[c]].tgid

Become(r) == slot' = r /\ freeHint' = Hint(r)
Return == holder' = NoCpu /\ phase' = "free" /\ UNCHANGED <<retired, cur>>
EnterNext(c) == holder' = c /\ phase' = "begin" /\ UNCHANGED <<retired, cur>>

\* task_slot_claim followed by task_publish
Publish(r, rec) ==
  /\ slot' = [r EXCEPT ![Claimed] = rec]
  /\ freeHint' = Claimed + 1
CanClaim == Free # {} /\ slot[Claimed].gen < MaxGen
New == [Empty(Claimed, slot[Claimed].gen + 1) EXCEPT
          !.state = "RUNNING", !.mem = TRUE, !.lgen = slot[Claimed].gen + 1]

\* create_thread_task and user_thread_create
CreateThread(c, joinable) ==
  /\ Caller(c) /\ CanClaim
  /\ Publish(slot, [New EXCEPT !.kind = "THREAD", !.tgid = Group(c), !.joinable = joinable,
                      !.ptid = slot[cur[c]].ptid, !.pgen = slot[cur[c]].pgen,
                      !.lgen = slot[Group(c)].gen])
  /\ Return

\* task_fork; a child of the caller's process
Child(c) == [New EXCEPT !.ptid = Group(c), !.pgen = slot[Group(c)].gen]
Fork(c) == Caller(c) /\ CanClaim /\ Publish(slot, Child(c)) /\ Return

\* os_execute_no_ret
ExecuteNoRet(c) == /\ Caller(c) /\ CanClaim
                   /\ Publish(slot, [New EXCEPT !.ptid = REAPER])
                   /\ Return

\* task_abort_creation: only the generation has moved
CreateFails(c) ==
  /\ Caller(c) /\ CanClaim
  /\ slot' = [slot EXCEPT ![Claimed].gen = @ + 1]
  /\ freeHint' = Claimed
  /\ Return

\* task_can_join
CanJoin(self, t, call) ==
  /\ InUse(slot, t) /\ t # self
  /\ IF call = "join"
     THEN slot[t].kind = "THREAD" /\ slot[t].joinable /\ slot[t].tgid = slot[self].tgid
     ELSE slot[t].kind = "PROCESS" /\ slot[t].ptid = slot[self].tgid

Waiting(r, self, t, gen, call) ==
  [r EXCEPT ![self] = [@ EXCEPT !.state = "WAITING", !.reason = "child", !.wtid = t,
                                !.wgen = gen, !.call = call]]

\* One round of the loop of task_wait
WaitRound(c, t, gen, call) ==
  LET self == cur[c]
      back == [slot EXCEPT ![self] = [@ EXCEPT !.reason = "none", !.wtid = NONE,
                                               !.wgen = 0, !.call = "user"]]
      found == CanJoin(self, t, call) /\ slot[t].gen = gen
  IN \/ ~found /\ Become(back) /\ Return
     \/ found /\ slot[t].state = "DIED" /\ Become(Release(back, {t})) /\ Return
     \/ found /\ slot[t].state # "DIED" /\ Become(Waiting(slot, self, t, gen, call))
          /\ EnterNext(c)

\* waittid, and task_join_thread with a generation the caller knows
WaitChild(c, t, call) == /\ Caller(c) /\ CanJoin(cur[c], t, call)
                         /\ WaitRound(c, t, slot[t].gen, call)

\* os_execute: the new child is waited for
Execute(c) ==
  /\ Caller(c) /\ CanClaim
  /\ Publish(Waiting(slot, cur[c], Claimed, New.gen, "wait"), Child(c))
  /\ EnterNext(c)

\* task_detach_thread
Detach(c, t) ==
  /\ Caller(c) /\ InUse(slot, t) /\ slot[t].kind = "THREAD"
  /\ slot[t].tgid = Group(c) /\ slot[t].joinable
  /\ Become(IF slot[t].state = "DIED" THEN Release(slot, {t})
            ELSE [slot EXCEPT ![t].joinable = FALSE])
  /\ Return

\* task_kill, and the switch that follows when the task killed itself
KillStep(c, t) == /\ Become(Terminate(slot, t, cur[c]))
                  /\ IF t = cur[c] THEN EnterNext(c) ELSE Return

\* task_terminate_thread and the thread-kill system call
TerminateThread(c, t) ==
  /\ Caller(c) /\ Alive(slot, t) /\ slot[t].kind = "THREAD" /\ slot[t].tgid = Group(c)
  /\ KillStep(c, t)

\* user_signal_send with SIGKILL, which kills the leader of the target
KillProcess(c, t) ==
  /\ Caller(c) /\ Alive(slot, t) /\ slot[t].tgid = t
  /\ KillStep(c, t)

\* task_exit
Exit(c) == /\ Caller(c)
           /\ Become(FinishPending(slot, cur[c], cur[c]))
           /\ EnterNext(c)

\* task_exit_process
ExitProcess(c) ==
  LET self == cur[c]
      r1 == Reparent(GroupEnd(slot, Group(c), self, self), Group(c))
      r2 == IF InUse(slot, Group(c)) /\ Group(c) # self
            THEN Terminate(r1, Group(c), self) ELSE r1
  IN /\ Caller(c)
     /\ Become(FinishPending(r2, self, self))
     /\ EnterNext(c)

\* task_lock: one round of its loop
Leader(c) == IF InUse(slot, Group(c)) THEN Group(c) ELSE cur[c]
LockRound(c) ==
  LET self == cur[c]
      got == slot[Leader(c)].owner \in {NONE, self}
  IN \/ /\ got
        /\ Become([slot EXCEPT ![Leader(c)].owner = self, ![Leader(c)].depth = @ + 1,
                               ![self].call = "user"])
        /\ Return
     \/ /\ ~got
        /\ Become([slot EXCEPT ![self] = [@ EXCEPT !.state = "WAITING", !.reason = "lock",
                                                   !.call = "lock"]])
        /\ EnterNext(c)
TaskLock(c) == Caller(c) /\ slot[Leader(c)].depth < MaxDepth /\ LockRound(c)

\* task_unlock: every waiter of the group is run when the depth reaches zero.
Unlocked(g) ==
  Run([slot EXCEPT ![g].owner = NONE, ![g].depth = 0],
      {w \in Slots : InUse(slot, w) /\ slot[w].tgid = g /\ slot[w].state = "WAITING"
                       /\ slot[w].reason = "lock"})
TaskUnlock(c) ==
  /\ Caller(c) /\ slot[Leader(c)].owner = cur[c]
  /\ Become(IF slot[Leader(c)].depth = 1 THEN Unlocked(Leader(c))
            ELSE [slot EXCEPT ![Leader(c)].depth = @ - 1])
  /\ Return

\* task_wait_threads: one round of its loop
GroupRound(c) ==
  LET self == cur[c]
  IN \/ /\ HasThreads(slot, self)
        /\ Become(Waiting(slot, self, NONE, 0, "group"))
        /\ EnterNext(c)
     \/ /\ ~HasThreads(slot, self)
        /\ Become([slot EXCEPT ![self].call = "user"])
        /\ Return
WaitThreads(c) == Caller(c) /\ HasThreads(slot, cur[c]) /\ GroupRound(c)

-----------------------------------------------------------------------------
(* task_next *)

\* A tick or a reschedule interrupt; an interrupted task may have been asked
\* to terminate.
Preempt(c) == holder = NoCpu /\ EnterNext(c) /\ UNCHANGED <<slot, freeHint>>

\* The stacks retired by earlier switches are freed, then a pending
\* termination of the current task is carried out.
NextBegin(c) ==
  LET me == cur[c]
      r1 == Release(slot, retired)
      r2 == IF me # Idle /\ r1[me].pend THEN FinishPending(r1, me, me) ELSE r1
      r3 == [t \in Slots |-> IF t = me /\ r2[t].state = "WILL_EMPTY"
                             THEN [r2[t] EXCEPT !.state = "READY"] ELSE r2[t]]
  IN /\ holder = c /\ phase = "begin"
     /\ Become(r3)
     /\ retired' = {} /\ phase' = "pick"
     /\ UNCHANGED <<cur, holder>>

\* scheduler_pick_next finishes queued tasks that are to terminate.
Candidate(t) == slot[t].state = "RUNNING" /\ slot[t].pend /\ ~OnCpu(t)
FinishCandidate(c, t) ==
  /\ holder = c /\ phase = "pick"
  /\ Candidate(t)
  /\ Become(FinishPending(slot, t, cur[c]))
  /\ UNCHANGED <<retired, cur, holder, phase>>

\* Mutant: the task that is left is never retired.
Retire_Never(c) == {}

\* The switch: a task that is through is retired, and freed by a later
\* task_next; a task that blocked inside a call goes on with it.
Retire(c) == {t \in Slots : t = cur[c] /\ slot[t].state = "READY"}
Switch(c, n) ==
  /\ holder = c /\ phase = "pick"
  /\ n # Idle => /\ slot[n].state = "RUNNING" /\ ~slot[n].pend
                 /\ n = cur[c] \/ ~OnCpu(n)
  /\ cur' = [cur EXCEPT ![c] = n]
  /\ retired' = retired \cup Retire(c)
  /\ IF n # Idle /\ slot[n].call # "user"
     THEN holder' = c /\ phase' = "resume"
     ELSE holder' = NoCpu /\ phase' = "free"
  /\ UNCHANGED <<slot, freeHint>>

Resume(c) ==
  LET self == slot[cur[c]]
  IN /\ holder = c /\ phase = "resume"
     /\ \/ self.call \in {"wait", "join"} /\ WaitRound(c, self.wtid, self.wgen, self.call)
        \/ self.call = "lock" /\ LockRound(c)
        \/ self.call = "group" /\ GroupRound(c)

-----------------------------------------------------------------------------

\* The first process, started by the kernel, runs on some CPU.
Init ==
  /\ slot = [t \in Slots |->
               IF t = 1 THEN [Empty(1, 1) EXCEPT !.state = "RUNNING", !.mem = TRUE, !.lgen = 1]
                        ELSE Empty(t, 0)]
  /\ freeHint = 2
  /\ retired = {}
  /\ \E c \in CPUs : cur = [d \in CPUs |-> IF d = c THEN 1 ELSE Idle]
  /\ holder = NoCpu /\ phase = "free"

Next ==
  \E c \in CPUs :
    \/ \E j \in BOOLEAN : CreateThread(c, j)
    \/ Fork(c) \/ ExecuteNoRet(c) \/ CreateFails(c) \/ Execute(c)
    \/ \E t \in Slots : \/ WaitChild(c, t, "wait") \/ WaitChild(c, t, "join")
                        \/ Detach(c, t) \/ TerminateThread(c, t) \/ KillProcess(c, t)
                        \/ FinishCandidate(c, t)
    \/ Exit(c) \/ ExitProcess(c)
    \/ TaskLock(c) \/ TaskUnlock(c) \/ WaitThreads(c)
    \/ Preempt(c) \/ NextBegin(c) \/ Resume(c)
    \/ \E n \in Slots \cup {Idle} : Switch(c, n)

Spec == Init /\ [][Next]_vars

\* The kernel lock is released again and again; the reschedule interrupt of a CPU
\* whose task is to terminate is taken; a queued task that is to terminate is met
\* by the task_next of its CPU, since task_run sent that CPU a request (module
\* Scheduler, RequestServed).
Fairness ==
  /\ []<>(phase = "free")
  /\ \A c \in CPUs : SF_vars(cur[c] # Idle /\ slot[cur[c]].pend /\ Preempt(c))
  /\ \A t \in Slots : []<>~Candidate(t)
FairSpec == Spec /\ Fairness

-----------------------------------------------------------------------------
(* Properties *)

\* A CPU that is not inside task_next runs on the stack of a task that owns its
\* slot: the slot is neither free nor already claimed for another task, and no
\* two CPUs run on one stack (task_slot_release, retired_tasks).
StackSafe ==
  \A c \in CPUs : cur[c] # Idle /\ (holder # c \/ phase = "resume") =>
    /\ slot[cur[c]].state \notin {"EMPTY", "ALLOCATING", "DIED"}
    /\ cur[c] \notin retired
    /\ \A d \in CPUs \ {c} : cur[d] # cur[c]

\* No slot is lost: one that is neither free nor usable is still on its way
\* through task_next to retired_tasks (finish_task, task_next).
NoSlotLost ==
  \A t \in Slots :
    /\ slot[t].state = "WILL_EMPTY" => OnCpu(t)
    /\ slot[t].state = "READY" => t \in retired \/ OnCpu(t)
    /\ t \in retired => slot[t].state = "READY"

\* A thread that lives, or executes outside task_next, has its leader, the one
\* that was there when it was created (task_finish_pending defers the leader).
\* The one thread that may execute without is the one that sent SIGKILL to its
\* own process: task_kill finishes it and its leader and returns to it
\* (signal.c:33), and it has given up the address space by then.
LeaderOutlives ==
  \A t \in Slots :
    slot[t].kind = "THREAD" /\ (Alive(slot, t) \/ \E c \in CPUs : cur[c] = t /\ holder # c) =>
      LET l == slot[slot[t].tgid]
      IN \/ /\ l.state \in {"RUNNING", "WAITING"} /\ l.kind = "PROCESS"
            /\ l.gen = slot[t].lgen /\ l.mem
         \/ slot[t].state = "WILL_EMPTY" /\ ~slot[t].mem

\* A task that sleeps in waittid or task_join_thread sleeps on a task that
\* lives, of the generation it named: the wake-up of wake_child_waiter is not
\* lost (task_wait, finish_task, task_detach_thread).
JoinerHasTarget ==
  \A w \in Slots :
    slot[w].state = "WAITING" /\ slot[w].call \in {"wait", "join"} /\ ~slot[w].pend =>
      Alive(slot, slot[w].wtid) /\ slot[slot[w].wtid].gen = slot[w].wgen

\* A deferred leader, and a task in task_wait_threads, sleeps only while a
\* thread is left whose exit will run it.
DeferredHasThread ==
  \A t \in Slots :
    slot[t].state = "WAITING" /\ (slot[t].pend \/ slot[t].call = "group") => HasThreads(slot, t)

\* A process whose parent is a process has that very parent, alive: parents that
\* end give their children to the reaper. So every zombie can be waited for, and
\* a zombie thread has a group that can join it (reparent_children).
ParentLives ==
  \A t \in Slots : InUse(slot, t) =>
    /\ slot[t].kind = "PROCESS" /\ slot[t].ptid \notin {NONE, REAPER} =>
         Alive(slot, slot[t].ptid) /\ slot[slot[t].ptid].gen = slot[t].pgen
    /\ slot[t].state = "DIED" =>
         IF slot[t].kind = "THREAD" THEN slot[t].joinable /\ Alive(slot, slot[t].tgid)
                                    ELSE slot[t].ptid \notin {NONE, REAPER}

\* The group lock is owned by a living task of the group, and who sleeps for it
\* sleeps for another owner (task_lock, task_unlock, task_clear_external_refs).
GroupLockOwned ==
  \A t \in Slots : InUse(slot, t) =>
    /\ slot[t].owner # NONE =>
         Alive(slot, slot[t].owner) /\ slot[slot[t].owner].tgid = t /\ slot[t].depth > 0
    /\ slot[t].state = "WAITING" /\ slot[t].reason = "lock" =>
         slot[slot[t].tgid].owner \notin {NONE, t}

\* Termination that was asked for completes: the threads on other CPUs end, and
\* the last of them lets a deferred leader end (request_task_termination,
\* task_finish_pending, scheduler_pick_next).
TerminationCompletes == \A t \in Slots : slot[t].pend ~> ~slot[t].pend

-----------------------------------------------------------------------------
(* The inductive invariant.  Its parts are stated of a registry r, so that   *)
(* they can be followed through the steps of a teardown.                     *)

Nobody == {NONE, REAPER}
IsProcess(r, g) == Alive(r, g) /\ r[g].kind = "PROCESS"
Threads(r, g) == {t \in Slots : InUse(r, t) /\ r[t].kind = "THREAD" /\ r[t].tgid = g}

\* A task holds its address space until it dies, and a thread has its leader.
Groups(r) ==
  \A t \in Slots : InUse(r, t) =>
    /\ r[t].mem <=> r[t].state # "DIED"
    /\ r[t].kind = "PROCESS" => r[t].tgid = t /\ ~r[t].joinable
    /\ r[t].kind = "THREAD" => IsProcess(r, r[t].tgid) /\ r[r[t].tgid].gen = r[t].lgen

\* A process has its parent, and a zombie has somebody who can wait for it.
Parents(r) ==
  \A t \in Slots : InUse(r, t) =>
    /\ r[t].kind = "PROCESS" /\ r[t].ptid \notin Nobody =>
         IsProcess(r, r[t].ptid) /\ r[r[t].ptid].gen = r[t].pgen
    /\ r[t].state = "DIED" =>
         IF r[t].kind = "THREAD" THEN r[t].joinable ELSE r[t].ptid \notin Nobody

\* The group lock belongs to a living member or to nobody, and a task inside
\* task_lock does not own it.
Locks(r) ==
  \A t \in Slots : InUse(r, t) =>
    /\ r[t].owner # NONE => Alive(r, r[t].owner) /\ r[r[t].owner].tgid = t /\ r[t].depth > 0
    /\ r[t].owner = NONE => r[t].depth = 0
    /\ r[t].call = "lock" => MaxDepth > 0 /\ r[r[t].tgid].owner # t

\* What a task in task_wait waits for.
Target(r, w) ==
  LET x == r[w].wtid IN
  /\ Alive(r, x) /\ r[x].gen = r[w].wgen
  /\ IF r[w].call = "join" THEN r[x].kind = "THREAD" /\ r[x].tgid = r[w].tgid
                           ELSE r[x].kind = "PROCESS" /\ r[x].ptid = r[w].tgid

\* Who sleeps has something to come that will run it; X: leaders whose children
\* a teardown has already given away.
Sleepers(r, X) ==
  \A w \in Slots : r[w].state = "WAITING" =>
    IF r[w].pend \/ r[w].call = "group"
    THEN r[w].reason = "child" /\ r[w].wtid = NONE /\ HasThreads(r, w)
    ELSE IF r[w].call = "lock"
    THEN r[w].reason = "lock" /\ r[r[w].tgid].owner \notin {NONE, w}
    ELSE /\ r[w].call \in {"wait", "join"} /\ r[w].reason = "child"
         /\ w \notin X => Target(r, w)

\* A task that is to terminate is on a CPU that has yet to enter task_next, or is
\* a leader all of whose threads are; P: the task that task_next is leaving.
Pending(r, P) ==
  \A t \in Slots : r[t].pend =>
    /\ Alive(r, t)
    /\ \/ OnCpu(t) /\ r[t].state = "RUNNING" /\ t \notin P
       \/ /\ r[t].kind = "PROCESS"
          /\ \A s \in Threads(r, t) : r[s].state # "DIED" => r[s].pend /\ OnCpu(s)

\* The states of the tasks on CPUs other than the one that runs `me'.
Executing == {"RUNNING", "WILL_EMPTY"}
Running(r, me) == \A t \in Slots : OnCpu(t) /\ t # me => r[t].state \in Executing

\* Where each CPU is, and the slots on their way to retired_tasks.
Picking == {t \in Slots : holder \in CPUs /\ phase = "pick" /\ cur[holder] = t}
Busy == IF holder \in CPUs /\ phase # "resume" THEN cur[holder] ELSE Idle
Stacks ==
  /\ holder = NoCpu <=> phase = "free"
  /\ \A c, d \in CPUs : cur[c] = cur[d] /\ cur[c] # Idle => c = d
  /\ Running(slot, Busy)
  /\ phase = "resume" =>
       /\ cur[holder] \in Slots
       /\ slot[cur[holder]].state = "RUNNING" /\ ~slot[cur[holder]].pend
  /\ phase = "pick" => retired = {}
  /\ \A c \in CPUs : cur[c] \notin retired
  /\ \A t \in Slots :
       /\ slot[t].state = "WILL_EMPTY" => OnCpu(t) /\ ~slot[t].mem /\ t \notin Picking
       /\ slot[t].state = "READY" => t \in retired \cup Picking
       /\ t \in retired => slot[t].state = "READY"

LifeInv ==
  /\ TypeOK /\ Groups(slot) /\ Parents(slot) /\ Locks(slot) /\ Sleepers(slot, {})
  /\ Pending(slot, Picking) /\ Stacks
=============================================================================
