---------------------------- MODULE PthreadMutex ----------------------------
(***************************************************************************)
(* pthread_mutex_t of apps/libp/pthread_sync.c: one mutex, used by the     *)
(* threads of a process through lock, trylock, timedlock and unlock.  Each *)
(* atomic access to the mutex is a step of its own; the futex calls are    *)
(* the steps of module Futex.  The word is 0 (free), 1 (held) or 2 (held,  *)
(* and a waiter may sleep).                                                *)
(***************************************************************************)
EXTENDS Futex

CONSTANTS Word,        \* the address of mutex->state
          MutexTypes,  \* the types pthread_mutexattr_settype accepts
          MaxDepth,    \* UINT_MAX: the depth at which a relock fails
          Limits       \* the deadlines timedlock is called with

ASSUME MutexConstants ==
  /\ Word \in Addresses
  /\ MutexTypes \subseteq {"normal", "recursive", "errorcheck"} /\ MutexTypes # {}
  /\ MaxDepth \in Nat \ {0}
  /\ Limits \subseteq 0..MaxTime

VARIABLES
  type, state, owner, depth,   \* the fields of the mutex
  limit,                       \* the deadline argument of mutex_acquire
  pc     \* where each thread is in the library; "held" is in its critical section

mutexVars == <<type, state, owner, depth, limit, pc>>
vars == <<futexVars, mutexVars>>

Pcs == {"out", "cas", "trycas", "swap", "wait", "waiting", "own", "held",
        "release", "waking"}

TypeOK ==
  /\ FutexTypeOK
  /\ type \in MutexTypes
  /\ state \in 0..2
  /\ owner \in Threads \cup {NULL}
  /\ depth \in 0..MaxDepth
  /\ limit \in [Threads -> Limits \cup {Never}]
  /\ pc \in [Threads -> Pcs]

Init ==
  /\ FutexInit
  /\ type \in MutexTypes /\ state = 0 /\ owner = NULL /\ depth = 0
  /\ limit = [t \in Threads |-> Never]
  /\ pc = [t \in Threads |-> "out"]

Typed == type # "normal"
Goto(t, p) == pc' = [pc EXCEPT ![t] = p]
Holding(t) == pc[t] \in {"own", "held", "release"}

----------------------------------------------------------------------------
Acquire(t, next, d) ==
  /\ place[t] = "user" /\ pc[t] \in {"out"} \cup (IF Typed THEN {"held"} ELSE {})
  /\ IF Typed /\ owner = t
     THEN /\ IF type = "recursive" /\ depth < MaxDepth
             THEN depth' = depth + 1 /\ Goto(t, "held")
             ELSE UNCHANGED <<depth, pc>>
          /\ UNCHANGED limit
     ELSE /\ Goto(t, next)
          /\ limit' = [limit EXCEPT ![t] = d]
          /\ UNCHANGED depth
  /\ UNCHANGED <<futexVars, type, state, owner>>

Lock(t) == Acquire(t, "cas", Never)
TryLock(t) == Acquire(t, "trycas", Never)
TimedLock(t) == \E d \in Limits : Acquire(t, "cas", d)

\* Leaving the loop; a typed mutex that was acquired is still to be owned.
Leave(t, p) == Goto(t, p) /\ limit' = [limit EXCEPT ![t] = Never]
Got(t) == Leave(t, IF Typed THEN "own" ELSE "held")

\* The compare-and-exchange from 0 to 1.
Cas(t) ==
  /\ place[t] = "user" /\ pc[t] \in {"cas", "trycas"}
  /\ IF state = 0
     THEN state' = 1 /\ Got(t)
     ELSE /\ Goto(t, IF pc[t] = "trycas" THEN "out" ELSE "swap")
          /\ UNCHANGED <<state, limit>>
  /\ UNCHANGED <<futexVars, type, owner, depth>>

\* The exchange with 2 at the head of the loop.
Swap_One(t) ==
  /\ place[t] = "user" /\ pc[t] = "swap"
  /\ state' = IF state = 0 THEN 1 ELSE 2
  /\ IF state = 0 THEN Got(t) ELSE Goto(t, "wait") /\ UNCHANGED limit
  /\ UNCHANGED <<futexVars, type, owner, depth>>
Swap(t) ==
  /\ place[t] = "user" /\ pc[t] = "swap"
  /\ state' = 2
  /\ IF state = 0 THEN Got(t) ELSE Goto(t, "wait") /\ UNCHANGED limit
  /\ UNCHANGED <<futexVars, type, owner, depth>>

\* os_futex_wait(&mutex->state, 2, deadline).
Wait(t) ==
  /\ pc[t] = "wait" /\ Goto(t, "waiting")
  /\ FutexCompare(t, Word, state, 2, limit[t])
  /\ UNCHANGED <<type, state, owner, depth, limit>>
Enqueue(t) == FutexEnqueue(t) /\ UNCHANGED mutexVars
Resume(t) == FutexResume(t) /\ UNCHANGED mutexVars

\* What the loop does with the result, a local that is then dead.
Return_Handoff(t) ==
  /\ place[t] = "user" /\ pc[t] = "waiting"
  /\ CASE result[t] = "TIMED_OUT" -> Leave(t, "out")
       [] result[t] = "OK"        -> Got(t)
       [] OTHER                   -> Goto(t, "swap") /\ UNCHANGED limit
  /\ result' = [result EXCEPT ![t] = "OK"]
  /\ UNCHANGED <<kernel, queue, now, address, deadline, place, type, state, owner, depth>>
Return(t) ==
  /\ place[t] = "user" /\ pc[t] = "waiting"
  /\ IF result[t] = "TIMED_OUT" THEN Leave(t, "out")
     ELSE Goto(t, "swap") /\ UNCHANGED limit
  /\ result' = [result EXCEPT ![t] = "OK"]
  /\ UNCHANGED <<kernel, queue, now, address, deadline, place, type, state, owner, depth>>

\* A typed mutex records its owner.
Own(t) ==
  /\ place[t] = "user" /\ pc[t] = "own"
  /\ owner' = t /\ depth' = 1
  /\ Goto(t, "held")
  /\ UNCHANGED <<futexVars, type, state, limit>>

\* pthread_mutex_unlock up to the exchange.  A thread that is not the owner of
\* a typed mutex gets EPERM; a normal mutex is unlocked by its holder only.
Unlock_KeepOwner(t) ==
  /\ place[t] = "user" /\ pc[t] = "held"
  /\ Typed => owner = t
  /\ IF ~Typed \/ depth = 1 THEN Goto(t, "release") ELSE UNCHANGED pc
  /\ depth' = IF Typed THEN depth - 1 ELSE depth
  /\ UNCHANGED <<futexVars, type, state, limit, owner>>
Unlock(t) ==
  /\ place[t] = "user" /\ pc[t] = "held"
  /\ Typed => owner = t
  /\ IF ~Typed \/ depth = 1 THEN Goto(t, "release") ELSE UNCHANGED pc
  /\ depth' = IF Typed THEN depth - 1 ELSE depth
  /\ owner' = IF Typed /\ depth = 1 THEN NULL ELSE owner
  /\ UNCHANGED <<futexVars, type, state, limit>>

\* The exchange with 0.
Release(t) ==
  /\ place[t] = "user" /\ pc[t] = "release"
  /\ state' = 0
  /\ Goto(t, IF state = 2 THEN "waking" ELSE "out")
  /\ UNCHANGED <<futexVars, type, owner, depth, limit>>

\* os_futex_wake(&mutex->state, 1).
Wake(t) ==
  /\ pc[t] = "waking" /\ Goto(t, "out")
  /\ FutexWake(t, Word, FALSE)
  /\ UNCHANGED <<type, state, owner, depth, limit>>

Step(t) ==
  \/ Cas(t) \/ Swap(t) \/ Wait(t) \/ Enqueue(t) \/ Resume(t) \/ Return(t)
  \/ Own(t) \/ Release(t) \/ Wake(t)

Elsewhere == Outside /\ UNCHANGED mutexVars

Next ==
  \/ Elsewhere
  \/ \E t \in Threads : Lock(t) \/ TryLock(t) \/ TimedLock(t) \/ Unlock(t) \/ Step(t)

Spec == Init /\ [][Next]_vars

\* Each CPU keeps running its thread, and a woken thread gets a CPU (module
\* Scheduler).  Fairness is weak: the kernel lock is a spin lock without
\* order, so no thread is promised it while others keep taking it.
FairSpec == Spec /\ \A t \in Threads : WF_vars(Step(t))

----------------------------------------------------------------------------
\* At most one thread has the mutex, and the word is 0 exactly when none has.
MutualExclusion ==
  /\ \A t, u \in Threads : Holding(t) /\ Holding(u) => t = u
  /\ state = 0 <=> \A t \in Threads : ~Holding(t)

\* The owner of a typed mutex, read without holding it, is the reader's own
\* identity only while the reader is between its lock and its last unlock; a
\* relock of somebody else's mutex never succeeds.
OwnerIsHolder ==
  /\ \A t \in Threads : owner = t <=> Typed /\ pc[t] = "held"
  /\ depth > 0 <=> owner # NULL

\* A thread that the next steps of the program bring back to the loop's
\* exchange, which marks the word again: its wait cannot block or time out
\* unless the word is still marked.
Returning(t) ==
  \/ pc[t] \in {"swap", "wait"}
  \/ pc[t] = "waiting" /\ place[t] = "user" /\ result[t] # "TIMED_OUT"
  \/ pc[t] = "waiting" /\ place[t] = "woken" /\ t \notin queue /\ result[t] = "OK"

\* No sleeper is forgotten: while a thread sleeps for the mutex, the word tells
\* the holder to wake someone, or a wake-up is on its way, or a thread that was
\* woken is going to mark the word again.  (A waiter that timed out or was
\* interrupted has not used up the wake-up meant for another.)
NoStrandedSleeper ==
  (\E t \in Threads : place[t] \in {"kernel", "blocked"}) =>
     \/ state = 2
     \/ \E t \in Threads : pc[t] = "waking" \/ Returning(t)

\* A free mutex does not stay free while threads sleep for it.
FreeMutexTaken ==
  (state = 0 /\ \E t \in Threads : place[t] = "blocked")
     ~> ((\E t \in Threads : Holding(t)) \/ \A t \in Threads : place[t] # "blocked")
=============================================================================
