# Verification of the Plant-OS concurrency core

TLA+ models of the parts of Plant-OS that are hard to test: how its kernel
schedules tasks on several processors, how tasks sleep and are woken, how the
user-space synchronisation primitives and messages are built on that, and how
page tables and translation caches are kept right while processors use them. Every definition
is translated from the source; `PROJECT.json` maps each one to its lines.

## The system

Plant-OS runs its kernel under one recursive lock (`kernel_lock_enter`,
`kernel_lock_leave` in `arch/x86/x86_64/smp.c`). A processor takes it on every
interrupt, exception and system call; the lock travels with a task switch, so a
task that blocks in the kernel leaves it to the task that runs next. Kernel code
between two switches is therefore atomic with respect to other kernel code, and
what remains concurrent is

- user code on the other processors, which shares memory with system calls,
- the order in which processors enter the kernel, and interrupts that arrive
  while a processor is already inside (they nest, and cannot switch),
- everything that spans a switch: waiting, waking, killing, migrating.

| Component | State | Operations | Interacts through |
|---|---|---|---|
| Scheduler (`mtask.c`) | per-CPU run queue, cached load, movable count, current, `need_resched`; per task state, CPU, `on_cpu`, pin, weight, `ready`, `urgent` | `task_next`, `task_run`, `task_fall_blocked_reason`, `task_publish`, `task_kill`, `scheduler_pull`, `scheduler_tick`, `task_pin_current`, `task_set_weight` | reschedule interrupt, kernel lock |
| Sleeping lock (`lock.c`) | value, owner, intrusive waiter list | `lock`, `unlock`, `lock_cancel_task` | block/run, task teardown |
| Futex (`futex.c`) | buckets of wait records, sorted deadlines | wait, wake, `futex_tick`, `futex_cancel_task` | user memory, timer, signals, teardown |
| Mutex (`pthread_sync.c`) | word, owner, depth | lock, trylock, timedlock, unlock | atomics, futex |
| Semaphore (`semaphore.c`) | value | wait, trywait, timedwait, post | atomics, futex |
| Task registry (`mtask.c`) | slots, generations, groups, retired stacks | create, exit, wait/join, detach, kill, reparent | scheduler, all wait queues |
| IPC (`ipc.c`) | a bounded queue per task, the open kernel call, deadlines | send, receive, call, reply, `ipc_tick`, `ipc_task_cleanup` | block/run, timer, teardown |
| TLB (`tlb.c`, `page.c`) | per-CPU translations, tags, current root; acknowledgements | activate, edit, invalidate, poll | interrupts, the kernel lock's spin loop |
| User memory (`page.c`, `user_vm.c`, `user_vm_file.c`) | leaves with their flags, page references | map, protect, discard, alias, share, fork, exec, faults | page faults, TLB |
| Signals, polling and pipes, timers | masks, subscriptions, timer list | raise/deliver, subscribe/notify | block/run, timer |
| Kernel memory, VFS, file systems, network, drivers, windows | see the components list | | |

`PROJECT.json` lists every component with its status, and the hazards with the
lines where they bite.

## Modules

| Module | Models | Depends on |
|---|---|---|
| `Scheduler` | the run queues, the kernel lock with nested interrupts and the reschedule interrupt, waiting and waking, pulling, balancing, pinning, weights, kill | |
| `SchedulerProofs` | theorems about `Scheduler` | `Scheduler` |
| `KLock` | the sleeping lock and its linked list | |
| `KLockProofs` | theorems about `KLock`, among them the refinement | `KLock` |
| `WaitQueue` | what a sleeping lock promises: a holder and a first-in first-out queue | |
| `Futex` | the kernel side of the futex | |
| `PthreadMutex` | the mutex, as steps conjoined with the futex's | `Futex` |
| `PthreadMutexProofs` | theorems about `PthreadMutex` | `PthreadMutex` |
| `Semaphore` | the semaphore over the futex | `Futex` |
| `SemaphoreProofs` | theorems about `Semaphore` | `Semaphore` |
| `TaskLifecycle` | the task registry: creation, groups, exit, kill, join, reparenting, the group lock, retired stacks | |
| `TaskLifecycleProofs` | theorems about `TaskLifecycle` | `TaskLifecycle` |
| `Ipc` | message queues, blocking with deadlines, kernel RPC, task death and reuse of slots | |
| `IpcProofs` | theorems about `Ipc` | `Ipc` |
| `TlbShootdown` | translation caches with PCID tags, page-table edits, the shootdown | |
| `TlbShootdownProofs` | theorems about `TlbShootdown` | `TlbShootdown` |
| `PageMap` | user leaves, page references and page contents under the VM calls | |
| `PageMapProofs` | theorems about `PageMap` | `PageMap` |
| `MC*` | small instances for TLC | |

### Scheduler

`klock` is the CPU that holds the kernel lock and `mode` says what it does there:
`body` (a system call), `armed` (registered with an event and about to block),
`irq` (an outermost interrupt), `next` and `pick` (inside `task_next`) and
`release` (past the check of `need_resched` in `kernel_lock_leave`); `nest` is an
interrupt on top. `rq`, `load` and `movable` are the run queue and the two cached
numbers the code keeps beside it, so that their agreement is a property and not
a definition. `cur`, `need` and `ipi` are `current`, `need_resched` and a
reschedule interrupt on its way. `armed` stands for a registration with any event source: an
armed task may be woken by `Fire` (an interrupt) or `Signal` (another task).

`task_next` is three steps: `NextBegin` (the current task is taken off its CPU,
and finished when a kill is pending), `PickFinish` (the scan finishes killed
tasks it meets) or `PickPull`, and `Switch`. They run under the lock; they are
separate because interrupts of *other* CPUs are raised in between.

`vruntime` is left out: `Switch` takes any of the most urgent eligible tasks.
Properties that hold for every such choice hold for the one the code makes.

A result of modelling worth knowing: a killed group leader that waits for its
threads, is `current` on its CPU and is woken by the scan of that CPU's own
`pick_next`, is passed over by that scan and runs at the next timer tick.
`NoIdleWithWork` and `KillDelivered` name that case.

### KLock

One lock. A task is `trying` in the loop of `lock`, `blocked`, `runnable` (woken,
not yet on a CPU), `critical` or `asleep` (blocked on something else inside its
critical section). The waiter list is kept with the pointers of the code.
`Killable` says at which places a task may be killed; the passing runs kill
blocked waiters, `klock_strand` a woken one (see Findings).
`Linked(q)` says that the pointers form the sequence `q`, and `Waiters` is that
sequence; `ImplementsWaitQueue` maps it to the queue of `WaitQueue`.

### Futex, PthreadMutex, Semaphore

`Futex` defines steps, not a specification: a library module conjoins them with
its own variables. FUTEX_WAIT is two steps (`FutexCompare`, `FutexEnqueue`) with
the kernel lock held in between, since the word it compares can change
meanwhile. A blocked thread may be woken by a wake-up, the timeout tick, a
signal (its record stays queued until it runs) or be terminated.
The bucket is a set: a wake-up may meet the records in any order.

In `PthreadMutex` and `Semaphore` each atomic access is one step. Memory is
sequentially consistent in the models: the words are only accessed by locked
instructions on x86, and the relaxed owner field is compared only with the
reader's own identity, which no other thread writes.

### TaskLifecycle

`slot` holds the records of the registry. A system call runs under the kernel lock
and is one action; what it does to the registry is written as operators from one
registry to the next (`Finish`, `GroupEnd`, `Reparent`, `FinishPending`,
`Terminate` for `finish_task`, `terminate_thread_group`, `reparent_children`,
`task_finish_pending`, `request_task_termination`), composed as the C functions
call each other. The loops that finish the threads of a group are taken at once:
threads of one group that end wake only members of that group, so the order
leaves no trace. `task_next` is split into `NextBegin` (free the retired stacks,
end the current task if it has to), `FinishCandidate` (end a queued one) and
`Switch`, with `holder` and `phase` keeping every other CPU out, because the current
task's stack is in use throughout. A task that blocked inside a call is taken up
again by `Resume`, before the lock is released. Run queues are abstracted: any CPU may find
a runnable task. `lgen` and `pgen` are history, the generations of leader and parent at
creation; no guard and no other field depends on them. `SLEEPING` counts as `WAITING`, the `ready` flag
is left to `Scheduler`, and `task_exit` on entry to a system call of a task
that has to terminate is the same as its end in `NextBegin`. A thread may send
`SIGKILL` to its own process and then goes on without a leader until it enters
`task_next` (see Known behaviour); `LeaderOutlives` says of it that it has given up
the address space.

### Ipc

A round of the loops of `ipc_send`, `ipc_recv` and `rpc_call` runs under the
kernel lock and is one action; between rounds the task is `asleep` with `op`, the
call it is in, and `op.left`, the ticks to its deadline (-1: none). The queue is
the sequence of its used messages in the order of `seq`. `rpc` is the pointer
`ipc_header.rpc` to a record on the caller's stack: the reply of a server goes
there and not to the queue, which is why `RecordOnStack` matters. `Wake` with
`Senders` and `Receiver` are `ipc_wake_senders` and `ipc_wake_receiver`. `Die` is
`ipc_task_cleanup`, at any time, also while the task sleeps in a call; `Create`
is the next task in the slot. `Stray` is a signal, after which the loop looks
again. Servers reply to requests they received (`got`, history): ids are not
guessed. Calls that return without an effect (`IPC_NOWAIT`, a buffer too small,
no memory) are not steps.

### TlbShootdown

`tlb` holds what each CPU has cached under each PCID, and `Fill` may add an entry
from the tables at any moment, as a processor may. `pcid_roots` are the tags that
let `x64_tlb_activate` skip the flush. An edit (`Map`, `Replace`, `Protect`,
`Unmap`, `Clone`, `Exec`, `Release`) changes the table and starts a `job`, whose
steps are those of `x64_tlb_invalidate`: drop the tags and send, flush locally, wait
for `pending`, give the `retired` pages back. A target answers from its interrupt
or from the spin loop of the kernel lock (`PollFlush`, then `PollAck`).
`use_pcid` is chosen at boot, so both cases are initial states.

### PageMap

`pt` maps pages to leaves with the flags of `page.c` (present, write, copy on
write, shared, alias) and the kind of file region; `refs` are the page references,
`mem` the contents. `crossed` is history, set when a page is shared that has an alias;
no guard and no other field depends on it. A VM call, a fault or a store is one action. `Owns`, `Own`,
`OwnRefs` and `Copied` are the copy of a page that has other holders, which write
faults, aliases and sharing have in common. `ForkFails` stops a
fork after any part of the parent's leaves has been converted, which is what running out of memory leaves behind. Flushes are left
to `TlbShootdown`, where an edit and its shootdown take many steps.

## Runs

| Run | Instance | Shows |
|---|---|---|
| `scheduler` | 3 tasks (two threads of one process and another process), 2 CPUs, weights 0 (which counts as 1) and 3, pinning | queues, `on_cpu`, requests, kills, wake-ups, moves that improve the balance, loads, pinned tasks stay |
| `scheduler_live` | 2 tasks, 2 CPUs, fairness | every reschedule request is served |
| `klock` | 4 tasks, fairness | the list, the hand-over, refinement of `WaitQueue`, a free lock with waiters is taken |
| `klock_strand` | 3 tasks | the first finding below |
| `mutex` | 3 threads, all types, depth 2, times 0 to 2, fairness | exclusion, owner, no stranded sleeper, a free mutex is taken |
| `semaphore` | 3 threads, values 0 to 3, fairness | bounds, no stranded waiter, tokens are taken |
| `lifecycle` | 3 slots, each claimed twice, 2 CPUs | stacks, slots, leaders, joiners, parents |
| `lifecycle_lock` | 3 slots, group lock to depth 2, fairness | the group lock survives its owners, asked-for termination completes |
| `ipc` | 2 tasks in slots used twice, queues of one message, 2 kernel calls, deadlines of one tick, fairness | wake-ups, the record of a call, late replies, calls return |
| `tlb` | 2 CPUs, a user and the kernel root, a page in each half, 2 frames, fairness | stale translations, pages given back too early, shootdowns end |
| `pagemap` | 2 address spaces with 2 pages and a shared window, 2 frames and a file page | stores stay where they belong, references, the zero page, contents |
| `pagemap_fork` | as `pagemap` | the second finding below |

Two CPUs suffice for the races between a CPU that leaves the kernel and one that
sends to it; the third task makes queues of two, so that pulling is possible.
The constraint `OneApart` explores the weight 3, pinning and interrupts inside
system calls only while one of the tasks is not published yet: the steps are the
same ones, among a pair of one process or of two.
For the locks, the fourth task is the one that arrives while a holder, a sleeper
and a woken one are there; the mutex and the semaphore, whose safety is proved for
any number of threads, make do with three. Three tokens separate "one", "more than
one" and "full". Three slots are a leader, a thread on
another CPU and a child or second thread, and two claims of each are what it takes
to mistake one task for another. Two tasks are a caller and a server, or a sender and a
receiver, and each may be the other's; one message fills a queue, two calls make a late
reply, and two uses of a slot a mistaken identity. A deadline of one tick may pass
before, during and after anything else; longer ones repeat it. In `tlb` one user root is enough for a CPU that is
away (on the kernel root) and comes back; roots that share a tag are left to the
proofs, which hold for any number of roots and any assignment of tags. In
`pagemap` two frames for four mappings make every allocation fail somewhere;
`FilesApart` explores file mappings while the other heap page is unused,
`AliasesApart` explores contents and pages without access while no page has an
alias, `Seen` hides
the contents of free pages, which every allocation overwrites, and symmetry exchanges address
spaces and frames; both are sound for the properties, which name no single one.
The constraints stop the exploration beyond a state, which is itself still
checked; the theorems are about the specifications without them. `MaxGen`, `MaxCalls`, `MaxTime`, `MaxDepth`, `ValueMax` and `Limits` are the named
bounds; `MaxDepth` and `ValueMax` stand for limits the code has itself
(`UINT_MAX`, `SEM_VALUE_MAX`). `Pinnable` is off in `scheduler_live`, whose question
is about requests alone. The proofs cover every value of the constants, and remove
the bounds for the properties they cover.

The runs `mutex`, `semaphore` and `ipc` do not check for deadlock, because all
threads or tasks may be gone.

### Fairness

`klock`, `mutex` and `semaphore` assume weak fairness: a runnable
task gets a CPU (every task has a finite share under vruntime) and a thread goes
on executing. Nobody has to call `lock`, `pthread_mutex_lock` or `sem_wait`, and a
thread need not unlock its mutex or post. In `klock` a task that is in a
critical section does leave it, and a disk it waits for does answer: kernel
sections are finite, and the property is about what happens next.

`scheduler_live` assumes more. A CPU that holds the kernel lock goes on (weak
fairness). The steps that an interrupt inside the kernel can disable for a while
(to block, to disarm, to leave the lock, to pick, to switch) have strong fairness:
interrupts arrive at a finite rate, so the interrupted code runs again. The
reschedule interrupt of each CPU has strong fairness too, which says that the
hardware arbitrates the kernel's spin lock fairly: the lock keeps no order, and
without that assumption a CPU could lose every race for it. Properties that
would need more (that a timed wait ends by a fixed time on a busy machine) are
not claimed.

`lifecycle_lock` assumes that the kernel lock is released again and again, that
a CPU whose task has to terminate takes the interrupt it was sent, and that a
queued task that has to terminate is met by its CPU's `task_next`: `task_run`
sends that CPU a request, and `scheduler_live` shows that requests are served.

`ipc` assumes that the timer ticks and that a task that was woken gets a CPU; no
server has to receive or to answer. `tlb` assumes that the sender goes on (it holds the
lock and waits with interrupts off) and that a CPU that has been interrupted, or
that spins for the lock, polls: the spin loop calls `x64_tlb_poll` in every round.

## Findings

- `klock_strand`: `unlock` takes the first waiter off the list and runs it. If
  that waiter is killed before it gets a CPU, the wake-up is gone and the others
  sleep on a free lock until a new task happens to use it. The comment above
  `lock` says contenders are no longer stranded.
- `pagemap_fork`: `arch_address_space_share` accepts a page that has an alias. It marks
  the named view shared and leaves the other one an unshared alias (`page.c:782`), so a
  later fork makes the alias copy on write and keeps the shared view writable: what
  one process stores through it shows in another process at an address that is
  not shared. `doc/dynamic-linking.md:174` says that after a fork every view is copied
  on write on its own and no write is linked across views, and the comment at
  `page.c:337` says it of the code. `ForkSeparates` states that claim and is refuted;
  `StoresContained` holds of all pages, taking a page that was shared while it had an
  alias as shared as a whole.

### Known behaviour

The models also contain the following. The code has no statement that rules them
out clearly enough to check against, or no recovery to check.

- Teardown removes a killed task from the lock it waits for, but releases none
  that it owns: a task killed while it sleeps in a critical section leaves the
  lock locked (`lock.c:82`).
- A thread that sends `SIGKILL` to its own process, with the leader off the CPUs,
  is finished by the teardown and then finishes the leader, but nothing switches
  away from it: it returns to user mode without a leader and without an address
  space of its own (`signal.c:33`). `LeaderOutlives` exempts this thread and no
  other; its stack and its slot stay its own until the next `task_next` on its CPU
  retires them (`StackSafe`, `NoSlotLost`).
- A process that exits calls `task_next` on its own stack; if `scheduler_pick_next`
  then ends the deferred leader that is its parent, `reparent_children` releases the
  child whose stack is in use (`mtask.c:778`). The kernel lock keeps the pages from
  being claimed before the switch, so `StackSafe` holds.

## Proofs

TLAPS checks, for every value of the constants:

- `SchedulerCorrect`: `SchedulerInv` is invariant. It is `TypeOK`,
  `QueueConsistent`, `OneCpuPerTask`, `RequestDelivered`, `KillDelivered`,
  `NoIdleWithWork`, `NoLostWakeup` and three facts that make them inductive:
  `LockShape` (which CPU can be where, and what its current task is there),
  `ReleaseClean` (a CPU past the check has no request) and `ArmedShape` (a task
  about to block is registered, or its wake-up is in `ready`). One lemma per
  action; `RequestLemma` and `MoveLemma` carry what sending a request and moving
  a task preserve. The seven parts that are properties are theorems of their own.
- `PinnedKept` (`PinnedStays`), from the invariant that a pinned task is on CPU 0.
- `LoadsExact` (`LoadConsistent`): the counters `load` and `movable` of a queue are
  the weight and the number of movable tasks on it. `LoadInv` says so with `Total`,
  a sum that the lemmas `TotalRemove`, `TotalSplit` and `TotalChange` show not to
  depend on the order of its elements; `SumIsTotal` identifies it with the
  library's `MapThenSumSet`. The library's induction theorems take an operator, so
  each induction over sets of tasks looks at a smallest counterexample (`Smallest`,
  from the well-foundedness of strict inclusion). The argument for the scheduler
  itself is `RelinkLoad`: the queue that `scheduler_remove` charges, the one of
  the task's `cpu` field, is the one that holds the task (`QueueConsistent`);
  `PinLoad` does the same for a whole address space.
- `MovesConverge` (`MovesImproveBalance`), from `LoadInv` and `QueueConsistent`; the
  run and the theorem have `task_pin_current` among the steps.
- `MutexCorrect`: `MutexInv` is `TypeOK`, `MutualExclusion`, `OwnerIsHolder`,
  `NoStrandedSleeper` and `WaiterShape` (a thread inside the futex is in the
  library's wait, its record is queued while it is blocked, and carries the
  mutex's address). The heart is `WakeStep`: a sleeper the walk leaves behind
  was passed over for one that was woken in time (`WalkLemma`), and that one
  marks the word again.
- `SemaphoreCorrect`: `SemInv` adds `SeenShape`, what a thread about to exchange
  the value has seen of it.

- `KLockCorrect`: `KLockInv` is `TypeOK`, `PcShape` (where a task on the list can be)
  and that the pointers form some sequence. `RemoveLinked` and `AddLinked` give
  the sequence after `lock_waiter_remove` and after an append; `SameStart` shows that
  the pointers determine it (by the least place at which two would differ), so that
  `Waiters` is well defined, and `StepImplements` that every step is one of
  `WaitQueue` or none. `ListWellFormed` and `LockIsQueue` hold wherever tasks are
  killed; `NobodyStranded` assumes that no woken task is, which the finding
  shows to be needed.
- `LifecycleCorrect`: `LifeInv` is `TypeOK` and six parts. `Groups`, `Parents` and
  `Locks` say who leads, waits for and blocks whom; `Sleepers` that every sleeper
  has something to come that will run it; `Pending` that a task that is to
  terminate is on a CPU that has yet to enter `task_next`, or is a leader all
  of whose living threads are; `Stacks` where each CPU is and which slots are on
  their way out. The parts are predicates of a registry, with parameters for what
  a teardown has half done (`Registry(r, X, P, me, R)`: the leaders `X` whose
  children are already given away, the task `P` that `task_next` leaves, the
  slots `R` that are through), so that `FinishKeeps`, `GroupEndKeeps`,
  `ReparentKeeps`, `FinishPendingKeeps` and `TerminateKeeps` follow the C functions
  through their intermediate states, and `ExitProcessKeeps` the longest of
  them. `StacksSafe`, `SlotsKept`, `JoinersWake`, `DeferredWake`, `ParentsLive`,
  `GroupLocks` and `LeadersOutlive` are consequences; the last needs of a
  `WILL_EMPTY` slot that it holds no address space (`Leaving`).
- `IpcCorrect`: `IpcInv` is `TypeOK`, `BlockedForCause`, `RecordOnStack`,
  `AnswerIsForCall` and what makes them inductive: `CallShape` (a call in progress
  has a record that names its server), `SendShape`, and `ServerLives` (an open call
  that was sent has a living server). `SendRoundKeeps` and
  `RecvRoundKeeps` carry one round of the loops; the first calls and the resumptions
  follow from them. A delivery never meets a sleeping sender of the same
  queue, since that queue was full: this is where `BlockedForCause` needs itself.
- `TlbCorrect`: `TlbInv` is `NoStaleTranslation`, `TagSound` and
  `Retained` (what a CPU can reach is mapped or not yet given back, from which
  `NoUseAfterFree` follows) with the shapes of the lock, the tags and dead
  roots. `TagSound`, that a tag a CPU would trust on its next switch has no stale
  entry, is the part that lets a switch skip its flush.
- `ZeroPageKept`: no leaf that maps the zero page is writable, shared or aliased
  (`ZeroInv`), so its contents stay blank.
- `ReferencesCounted`: `RefInv` is `ReferencesExact` for the types of the table and
  the counts, with address spaces that are not in use empty (so that a fork adds the
  parent's leaves and no more). `WrittenCount` follows the number of leaves of a page
  through one write; actions that write two leaves go through a table between, forks
  and exits through `RowCount`.
- `StoresApart`: `SafeInv` adds to `RefInv` what the flags of one leaf
  say together (`Flags`) and what two leaves of one page say of each other (`Apart`).
  The last is stated of leaves that are shared or aliased as well as of writable
  ones, since permission can be taken away and given back. The counts are needed because
  `Protect` and write faults conclude from one reference that there is one leaf
  (`SoleLeaf`), and copies rely on a free page being at no address (`FreeUnmapped`).
  A page shared while it has an alias is followed by the history field `crossed`: it
  is shared as a whole, and `Flags` says that it stays shared.
- `ContentsStay` is the action property `ContentsKept`, from `RefInv` and `ZeroInv`:
  a step writes only to a page that is at no address, or that keeps its contents.
  `TypesKept` follows from the same two.

The assumptions are the named ASSUMEs of the modules: finite sets, CPU numbers
from 0, bounds that are natural numbers, disjoint kinds of pages and roots. TLC
evaluates them in every run.

Only model-checked: liveness under fairness.

## Not modelled

vruntime accounting; file systems, drivers and the network stack; starting the
secondary processors; the i386 variant of the entry code. Termination of a
thread by another one between its wake-up and its next run is left out of
`mutex` and `semaphore`: it is asynchronous, and what the terminated thread
leaves behind is its program's concern. So are the results `FUTEX_FAULT` and
`FUTEX_INVALID`: the words of a mutex and a semaphore are mapped and aligned.

`TlbShootdown` leaves out the paging-structure caches, global translations,
processors that come online later and the time limit of one second, after which
the kernel panics. `PageMap` leaves out execute permission, device pages, the table
pages themselves and the splitting of file regions: calls take one page.
`Ipc` leaves out service names, the older synchronous send that polls, the RPC
library of programs, the conversion of milliseconds to ticks and the wrapping of
32-bit sequence numbers. `TaskLifecycle` leaves out `task_close_tty`, exit statuses
and the growth of the registry.

## Plan

1. Scheduler, KLock, Futex with PthreadMutex and Semaphore: done.
2. `TaskLifecycle`: done, except for `task_close_tty` and exit statuses.
3. `TlbShootdown`, `PageMap` and `Ipc`: done.
4. `PthreadCond` (condition variables, rwlock, barrier, once) over `Futex`;
   `IoPoll` with pipes; `Signal`; `Timer`.
5. Proofs: every invariant is proved.
