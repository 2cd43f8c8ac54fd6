------------------------------- MODULE Futex -------------------------------
(***************************************************************************)
(* The kernel side of the futex: kernel/dos/task/futex.c, for the threads  *)
(* of one process.  The operators below are the steps of a thread inside   *)
(* futex_operation and what other tasks and the timer do to a waiter;      *)
(* the libraries built on the futex (PthreadMutex, Semaphore) conjoin      *)
(* them with their own steps.                                              *)
(*                                                                         *)
(* Every step runs under the big kernel lock.  The wait is split in two,   *)
(* because the word it compares is user memory that threads on other CPUs  *)
(* change without that lock: FutexCompare reads the word and takes the     *)
(* lock, FutexEnqueue publishes the record, blocks and gives it up.        *)
(*                                                                         *)
(* A record is named by its thread.  The bucket is a set: a wake may meet  *)
(* the records of an address in any order, of which the code's order       *)
(* (newest first) is one; the sorted list of deadlines is the queued       *)
(* records that have one.                                                  *)
(***************************************************************************)
EXTENDS Naturals, FiniteSets

CONSTANTS Threads, Addresses, NULL,
          MaxTime         \* the largest time the model reaches

Never == MaxTime + 1      \* UINT64_MAX: a wait without a deadline
Results == {"OK", "CHANGED", "TIMED_OUT", "INTERRUPTED"}

ASSUME FutexConstants ==
  MaxTime \in Nat /\ NULL \notin Threads /\ IsFiniteSet(Threads)

VARIABLES
  kernel,     \* the thread inside a futex wait, holding the kernel lock
  queue,      \* the threads whose record is queued
  now,        \* monotonic_time_ns
  address, deadline, result,   \* the fields of each thread's record
  place       \* "user", "kernel" (in futex_operation), "blocked", "woken"
              \* (runnable, not yet back on a CPU), "dead"

futexVars == <<kernel, queue, now, address, deadline, result, place>>

FutexTypeOK ==
  /\ kernel \in Threads \cup {NULL}
  /\ queue \subseteq Threads
  /\ now \in 0..MaxTime
  /\ address \in [Threads -> Addresses]
  /\ deadline \in [Threads -> 0..Never]
  /\ result \in [Threads -> Results]
  /\ place \in [Threads -> {"user", "kernel", "blocked", "woken", "dead"}]

\* No thread is in the kernel.
FutexInit ==
  /\ kernel = NULL /\ queue = {} /\ now = 0
  /\ address \in [Threads -> Addresses]
  /\ deadline = [t \in Threads |-> Never]
  /\ result = [t \in Threads |-> "OK"]
  /\ place = [t \in Threads |-> "user"]

----------------------------------------------------------------------------
\* FUTEX_WAIT up to the record: the early returns, in the order of the code.
\* Whether an unblocked signal is pending is left open.
FutexCompare(t, a, word, expected, d) ==
  /\ kernel = NULL /\ place[t] = "user"
  /\ \/ /\ \/ word # expected /\ result' = [result EXCEPT ![t] = "CHANGED"]
           \/ word = expected /\ d <= now /\ result' = [result EXCEPT ![t] = "TIMED_OUT"]
           \/ word = expected /\ d > now /\ result' = [result EXCEPT ![t] = "INTERRUPTED"]
        /\ UNCHANGED <<place, kernel, address, deadline>>
     \/ /\ word = expected /\ d > now
        /\ address' = [address EXCEPT ![t] = a]
        /\ deadline' = [deadline EXCEPT ![t] = d]
        /\ result' = [result EXCEPT ![t] = "INTERRUPTED"]
        /\ place' = [place EXCEPT ![t] = "kernel"]
        /\ kernel' = t
  /\ UNCHANGED <<queue, now>>

\* The thread leaves futex_operation and its record ceases to exist.
LeaveFutex(t) ==
  /\ place' = [place EXCEPT ![t] = "user"]
  /\ queue' = queue \ {t}
  /\ deadline' = [deadline EXCEPT ![t] = Never]

\* The record is queued and the thread blocks, unless task_fall_blocked_reason
\* finds a wake-up in task->ready (from a driver that has the thread
\* registered): then the wait returns INTERRUPTED at once.
FutexEnqueue(t) ==
  /\ kernel = t /\ kernel' = NULL
  /\ \/ LeaveFutex(t)
     \/ /\ place' = [place EXCEPT ![t] = "blocked"]
        /\ queue' = queue \cup {t}
        /\ UNCHANGED deadline
  /\ UNCHANGED <<now, address, result>>

\* task_run of a set of threads; one that is already runnable only gets its
\* ready flag set, which task_next clears when it switches the thread in.
RunAll(R) ==
  place' = [t \in Threads |-> IF t \in R /\ place[t] = "blocked"
                              THEN "woken" ELSE place[t]]

\* The woken thread is back on a CPU and drops its record, if nobody else has.
FutexResume(t) ==
  /\ kernel = NULL /\ place[t] = "woken"
  /\ LeaveFutex(t)
  /\ UNCHANGED <<kernel, now, address, result>>

\* A record whose deadline has passed; FUTEX_WAKE times it out and goes on.
Expired(t) == deadline[t] # Never /\ now >= deadline[t]

\* The records a walk of FUTEX_WAKE may take out: with a count of one it ends
\* at the first record that has not expired, and it times out the expired ones
\* it meets; with INT_MAX, or without such a record, it meets them all.
Walks_CountExpired(a, all) ==
  LET Match == {t \in queue : address[t] = a} IN
  IF all \/ Match = {} THEN {Match} ELSE {{t} : t \in Match}
Walks(a, all) ==
  LET Match == {t \in queue : address[t] = a}
      Live  == {t \in Match : ~Expired(t)}
  IN  IF all \/ Live = {} THEN {Match}
      ELSE {X \cup {t} : X \in SUBSET (Match \ Live), t \in Live}

\* Whether a kernel entry has to wait for the thread inside FUTEX_WAIT.
KernelFree_Unlocked == TRUE
KernelFree == kernel = NULL

\* FUTEX_WAKE of one waiter, or of all.
FutexWake(t, a, all) ==
  /\ KernelFree /\ place[t] = "user"
  /\ \E R \in Walks(a, all) :
       /\ queue' = queue \ R
       /\ RunAll(R)
       /\ result' = [u \in Threads |->
            IF u \in R THEN IF Expired(u) THEN "TIMED_OUT" ELSE "OK" ELSE result[u]]
  /\ UNCHANGED <<kernel, now, address, deadline>>

----------------------------------------------------------------------------
\* What happens to waiters from outside.

\* The clock moves on.
TimePasses ==
  /\ now < MaxTime /\ now' = now + 1
  /\ UNCHANGED <<kernel, queue, address, deadline, result, place>>

\* futex_tick, in the timer interrupt: the list of deadlines is sorted, so the
\* walk that stops at the first one still ahead takes every one that passed.
FutexTick ==
  LET R == {t \in queue : Expired(t)}
  IN  /\ kernel = NULL /\ R # {}
      /\ queue' = queue \ R
      /\ RunAll(R)
      /\ result' = [t \in Threads |-> IF t \in R THEN "TIMED_OUT" ELSE result[t]]
      /\ UNCHANGED <<kernel, now, address, deadline>>

\* user_signal_send to a thread in an interruptible wait, or a driver's
\* task_run: the record stays queued until the thread runs.
Interrupt(t) ==
  /\ kernel = NULL /\ place[t] = "blocked"
  /\ RunAll({t})
  /\ UNCHANGED <<kernel, queue, now, address, deadline, result>>

\* task_terminate_thread of a blocked thread: futex_cancel_task.
CancelTask(t) ==
  /\ kernel = NULL /\ place[t] = "blocked"
  /\ queue' = queue \ {t}
  /\ place' = [place EXCEPT ![t] = "dead"]
  /\ deadline' = [deadline EXCEPT ![t] = Never]
  /\ UNCHANGED <<kernel, now, address, result>>

\* Everything above that the library's threads do not do themselves.
Outside ==
  \/ TimePasses \/ FutexTick
  \/ \E t \in Threads :
       Interrupt(t) \/ CancelTask(t)

=============================================================================
