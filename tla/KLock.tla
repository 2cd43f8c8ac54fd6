------------------------------- MODULE KLock -------------------------------
(***************************************************************************)
(* The sleeping lock of kernel/dos/task/lock.c: lock, unlock and           *)
(* lock_cancel_task, with the intrusive doubly linked list of waiters.     *)
(* Each stretch of code between two task switches runs under the big       *)
(* kernel lock and is one action.  Tasks are killed while they are off the *)
(* CPU (a task that runs elsewhere is outside the kernel, so outside       *)
(* lock_t code).                                                           *)
(***************************************************************************)
EXTENDS Naturals, FiniteSets, Sequences

CONSTANTS Tasks, NULL,
          Killable    \* the places at which a task may be killed

Places == {"out", "trying", "blocked", "runnable", "critical", "asleep", "dead"}

ASSUME KLockConstants ==
  /\ NULL \notin Tasks /\ IsFiniteSet(Tasks)
  /\ Killable \subseteq {"blocked", "runnable", "asleep"}

VARIABLES
  locked,        \* lock->value = LOCK_LOCKED
  owner,         \* lock->owner
  waiter,        \* lock->waiter: the head of the list
  waiter_tail,   \* lock->waiter_tail
  waiting_lock,  \* whether task->waiting_lock is this lock
  lock_next, lock_previous,
  ready,         \* task->ready
  pc             \* where the task is: "trying" runs the loop of lock(),
                 \* "blocked" waits in it, "runnable" was woken and is not yet
                 \* back on a CPU; "asleep" blocks on something else (a disk)
                 \* inside its critical section

vars == <<locked, owner, waiter, waiter_tail, waiting_lock, lock_next,
          lock_previous, ready, pc>>

\* Links are pointers to tasks, and clear in a task that is not on the list.
TypeOK ==
  /\ locked \in BOOLEAN
  /\ owner \in Tasks \cup {NULL}
  /\ waiter \in Tasks \cup {NULL} /\ waiter_tail \in Tasks \cup {NULL}
  /\ waiting_lock \in [Tasks -> BOOLEAN]
  /\ lock_next \in [Tasks -> Tasks \cup {NULL}]
  /\ lock_previous \in [Tasks -> Tasks \cup {NULL}]
  /\ ready \in [Tasks -> BOOLEAN]
  /\ pc \in [Tasks -> Places]
  /\ \A t \in Tasks : ~waiting_lock[t] => lock_next[t] = NULL /\ lock_previous[t] = NULL

\* lock_init, with no task in the lock.
Init ==
  /\ locked = FALSE /\ owner = NULL /\ waiter = NULL /\ waiter_tail = NULL
  /\ waiting_lock = [t \in Tasks |-> FALSE]
  /\ lock_next = [t \in Tasks |-> NULL]
  /\ lock_previous = [t \in Tasks |-> NULL]
  /\ ready = [t \in Tasks |-> FALSE]
  /\ pc = [t \in Tasks |-> "out"]

----------------------------------------------------------------------------
\* The list of waiters.

listVars == <<waiter, waiter_tail, waiting_lock, lock_next, lock_previous>>

\* lock_waiter_remove.
WaiterRemove_KeepTail(t) ==
  LET n == lock_next[t]  p == lock_previous[t] IN
  IF ~waiting_lock[t] THEN UNCHANGED listVars ELSE
  /\ waiter' = IF p = NULL THEN n ELSE waiter
  /\ UNCHANGED waiter_tail
  /\ lock_next' = [u \in Tasks |-> IF u = t THEN NULL ELSE IF u = p THEN n ELSE lock_next[u]]
  /\ lock_previous' = [u \in Tasks |-> IF u = t THEN NULL ELSE IF u = n THEN p ELSE lock_previous[u]]
  /\ waiting_lock' = [waiting_lock EXCEPT ![t] = FALSE]
WaiterRemove(t) ==
  LET n == lock_next[t]  p == lock_previous[t] IN
  IF ~waiting_lock[t] THEN UNCHANGED listVars ELSE
  /\ waiter' = IF p = NULL THEN n ELSE waiter
  /\ waiter_tail' = IF n = NULL THEN p ELSE waiter_tail
  /\ lock_next' = [u \in Tasks |-> IF u = t THEN NULL ELSE IF u = p THEN n ELSE lock_next[u]]
  /\ lock_previous' = [u \in Tasks |-> IF u = t THEN NULL ELSE IF u = n THEN p ELSE lock_previous[u]]
  /\ waiting_lock' = [waiting_lock EXCEPT ![t] = FALSE]

WaiterAdd_Front(t) ==
  IF waiting_lock[t] THEN UNCHANGED listVars ELSE
  /\ waiting_lock' = [waiting_lock EXCEPT ![t] = TRUE]
  /\ lock_next' = [lock_next EXCEPT ![t] = waiter]
  /\ lock_previous' = [u \in Tasks |-> IF u = waiter THEN t ELSE lock_previous[u]]
  /\ waiter_tail' = IF waiter = NULL THEN t ELSE waiter_tail
  /\ waiter' = t
WaiterAdd(t) ==
  IF waiting_lock[t] THEN UNCHANGED listVars ELSE
  /\ waiting_lock' = [waiting_lock EXCEPT ![t] = TRUE]
  /\ lock_next' = [u \in Tasks |-> IF u = t THEN NULL
                                   ELSE IF u = waiter_tail THEN t ELSE lock_next[u]]
  /\ lock_previous' = [lock_previous EXCEPT ![t] = waiter_tail]
  /\ waiter' = IF waiter_tail = NULL THEN t ELSE waiter
  /\ waiter_tail' = t

----------------------------------------------------------------------------
\* lock(): the test, and the acquisition when the lock is free.
Call(t) ==
  /\ pc[t] = "out"
  /\ pc' = [pc EXCEPT ![t] = "trying"]
  /\ UNCHANGED <<locked, owner, listVars, ready>>

Acquire(t) ==
  /\ pc[t] = "trying" /\ ~locked
  /\ WaiterRemove(t)
  /\ locked' = TRUE /\ owner' = t
  /\ pc' = [pc EXCEPT ![t] = "critical"]
  /\ UNCHANGED ready

\* lock(): queue and block.  task_fall_blocked_reason returns at once when a
\* wake-up was kept in `ready', and the loop tests again.
Wait(t) ==
  /\ pc[t] = "trying" /\ locked
  /\ WaiterAdd(t)
  /\ ready' = [ready EXCEPT ![t] = FALSE]
  /\ pc' = [pc EXCEPT ![t] = IF ready[t] THEN "trying" ELSE "blocked"]
  /\ UNCHANGED <<locked, owner>>

\* task_run, as far as a lock user can be woken by it.
Woken(t) ==
  /\ pc' = [pc EXCEPT ![t] = IF @ = "blocked" THEN "runnable" ELSE @]
  /\ ready' = [ready EXCEPT ![t] = pc[t] # "blocked"]

\* unlock by the owner: the first waiter leaves the list and is woken.
Unlock_NoWake(t) ==
  /\ pc[t] = "critical" /\ owner = t
  /\ locked' = FALSE /\ owner' = NULL
  /\ pc' = [pc EXCEPT ![t] = "out"]
  /\ UNCHANGED <<listVars, ready>>
Unlock(t) ==
  /\ pc[t] = "critical" /\ owner = t
  /\ locked' = FALSE /\ owner' = NULL
  /\ \/ /\ waiter # NULL
        /\ WaiterRemove(waiter)
        /\ pc' = [pc EXCEPT ![t] = "out",
                            ![waiter] = IF @ = "blocked" THEN "runnable" ELSE @]
        /\ ready' = [ready EXCEPT ![waiter] = pc[waiter] # "blocked"]
     \/ /\ waiter = NULL
        /\ pc' = [pc EXCEPT ![t] = "out"]
        /\ UNCHANGED <<listVars, ready>>

\* A signal or another event wakes a task that waits for the lock; an event
\* that finds the task running is kept in `ready'.
Stray(t) ==
  /\ pc[t] \in {"trying", "blocked", "runnable"}
  /\ Woken(t)
  /\ UNCHANGED <<locked, owner, listVars>>

\* task_next switches to a woken task, clearing `ready'; it tests again.
Resume(t) ==
  /\ pc[t] = "runnable"
  /\ pc' = [pc EXCEPT ![t] = "trying"]
  /\ ready' = [ready EXCEPT ![t] = FALSE]
  /\ UNCHANGED <<locked, owner, listVars>>

\* The holder blocks on something else and goes on.
Sleep(t) ==
  /\ pc[t] = "critical" /\ pc' = [pc EXCEPT ![t] = "asleep"]
  /\ UNCHANGED <<locked, owner, listVars, ready>>
Wake(t) ==
  /\ pc[t] = "asleep" /\ pc' = [pc EXCEPT ![t] = "critical"]
  /\ UNCHANGED <<locked, owner, listVars, ready>>

\* task_kill of a task off the CPU: lock_cancel_task takes it off the list.
\* A slot is reused by a new task, which is outside the lock.
CancelTask(t) == WaiterRemove(t)

Kill(t) ==
  /\ pc[t] \in Killable
  /\ CancelTask(t)
  /\ pc' = [pc EXCEPT ![t] = "dead"]
  /\ ready' = [ready EXCEPT ![t] = FALSE]
  /\ UNCHANGED <<locked, owner>>
Respawn(t) ==
  /\ pc[t] = "dead" /\ pc' = [pc EXCEPT ![t] = "out"]
  /\ UNCHANGED <<locked, owner, listVars, ready>>

Next ==
  \E t \in Tasks :
    \/ Call(t) \/ Acquire(t) \/ Wait(t) \/ Unlock(t) \/ Stray(t) \/ Resume(t)
    \/ Sleep(t) \/ Wake(t) \/ Kill(t) \/ Respawn(t)

Spec == Init /\ [][Next]_vars

\* A task on a CPU runs on, a woken one is scheduled, a disk answers.
Fairness ==
  \A t \in Tasks :
    WF_vars(Acquire(t) \/ Wait(t) \/ Unlock(t) \/ Resume(t) \/ Wake(t))
FairSpec == Spec /\ Fairness

----------------------------------------------------------------------------
\* The list of waiters is the sequence q: the links agree forward and backward,
\* head and tail are its ends, and it holds exactly the tasks that believe they
\* are on it, each of them once.
Linked(q) ==
  /\ waiter = IF q = <<>> THEN NULL ELSE q[1]
  /\ waiter_tail = IF q = <<>> THEN NULL ELSE q[Len(q)]
  /\ \A i \in 1..Len(q) :
       /\ waiting_lock[q[i]]
       /\ lock_previous[q[i]] = IF i = 1 THEN NULL ELSE q[i - 1]
       /\ lock_next[q[i]] = IF i = Len(q) THEN NULL ELSE q[i + 1]
       /\ \A j \in 1..Len(q) : q[i] = q[j] => i = j
  /\ \A t \in Tasks : waiting_lock[t] => \E i \in 1..Len(q) : q[i] = t

\* The ways to put the waiting tasks into a row.
Orders == LET W == {t \in Tasks : waiting_lock[t]} IN [1..Cardinality(W) -> W]

\* The pointers form a list of the waiting tasks, whatever the order in which
\* they join, are taken off, get the lock by a stray wake-up or are cancelled.
ListShape == \E q \in Orders : Linked(q)

\* The waiters in list order.
Waiters == CHOOSE q \in Orders : Linked(q)

\* Nobody waits for a free lock without some other task on its way to take it
\* ("The old single waiter slot could strand all but the last contender").
NoStrandedWaiter ==
  ~locked /\ (\E t \in Tasks : pc[t] = "blocked")
    => \E u \in Tasks : pc[u] \in {"trying", "runnable"}

\* A free lock that somebody waits for is taken again.
FreeLockTaken == (~locked /\ \E t \in Tasks : pc[t] = "blocked") ~> locked

\* The linked list implements the first-in first-out queue of WaitQueue.
Queue == INSTANCE WaitQueue WITH Nobody <- NULL, holder <- owner, queue <- Waiters
ImplementsWaitQueue == Queue!Spec

=============================================================================
