------------------------- MODULE PthreadMutexProofs -------------------------
(***************************************************************************)
(* Proofs about PthreadMutex: mutual exclusion, the meaning of the owner   *)
(* field, and that no sleeper is stranded, for any set of threads, any     *)
(* deadlines and any nesting depth.                                        *)
(***************************************************************************)
EXTENDS PthreadMutex, TLAPS

\* Where a thread inside futex_operation is, and what its record says.
WaiterShape ==
  /\ \A t \in Threads : place[t] # "user" => pc[t] = "waiting"
  /\ \A t \in Threads : place[t] = "kernel" <=> kernel = t
  /\ \A t \in Threads : place[t] \in {"kernel", "blocked"} => address[t] = Word
  /\ \A t \in Threads : place[t] = "blocked" => t \in queue
  /\ \A t \in queue : place[t] \in {"blocked", "woken"}
  /\ \A t \in Threads : pc[t] = "own" => Typed

\* The inductive invariant.
MutexInv ==
  /\ TypeOK
  /\ WaiterShape
  /\ MutualExclusion
  /\ OwnerIsHolder
  /\ NoStrandedSleeper

\* A call's deadline is a time or Never.
LEMMA LimitLemma == \A d \in Limits \cup {Never} : d \in 0..Never
<1>1. \A d \in Limits : d \in 0..Never
  BY FutexConstants, MutexConstants DEF Never
<1>2. Never \in 0..Never
  BY FutexConstants DEF Never
<1> QED BY <1>1, <1>2

\* The initial state satisfies the invariant.
LEMMA InitMutex == Init => MutexInv
BY FutexConstants, MutexConstants
   DEF Init, FutexInit, MutexInv, TypeOK, FutexTypeOK, WaiterShape, MutualExclusion,
       OwnerIsHolder, NoStrandedSleeper, Holding, Typed, Never, Pcs, Results

\* Calls to the library and its steps on the mutex leave the futex alone.
LEMMA AcquireStep ==
  ASSUME MutexInv, NEW t \in Threads, NEW next \in {"cas", "trycas"},
         NEW d \in Limits \cup {Never}, Acquire(t, next, d)
  PROVE  MutexInv'
<1> USE FutexConstants, MutexConstants
<1> USE DEF MutexInv, WaiterShape, TypeOK, Acquire, Goto, futexVars, Typed
<1>1. TypeOK'
  BY DEF FutexTypeOK, Never, Pcs
<1>2. WaiterShape'
  BY DEF FutexTypeOK
<1>3. MutualExclusion' /\ OwnerIsHolder'
  BY DEF MutualExclusion, OwnerIsHolder, Holding, FutexTypeOK
<1>4. NoStrandedSleeper'
  BY DEF NoStrandedSleeper, Returning, OwnerIsHolder, FutexTypeOK
<1> QED BY <1>1, <1>2, <1>3, <1>4

\* The first exchange takes a free mutex or goes on to the loop.
LEMMA CasStep ==
  ASSUME MutexInv, NEW t \in Threads, Cas(t)
  PROVE  MutexInv'
<1> USE FutexConstants, MutexConstants
<1> USE DEF MutexInv, WaiterShape, TypeOK, Cas, Got, Leave, Goto, futexVars, Typed
<1>1. TypeOK'
  BY DEF FutexTypeOK, Never, Pcs, Results, OwnerIsHolder
<1>2. WaiterShape'
  BY DEF FutexTypeOK
<1>3. MutualExclusion' /\ OwnerIsHolder'
  BY DEF MutualExclusion, OwnerIsHolder, Holding, FutexTypeOK
<1>4. NoStrandedSleeper'
  BY DEF NoStrandedSleeper, Returning, OwnerIsHolder, FutexTypeOK
<1> QED BY <1>1, <1>2, <1>3, <1>4

\* The exchange of the loop marks the word.
LEMMA SwapStep ==
  ASSUME MutexInv, NEW t \in Threads, Swap(t)
  PROVE  MutexInv'
<1> USE FutexConstants, MutexConstants
<1> USE DEF MutexInv, WaiterShape, TypeOK, Swap, Got, Leave, Goto, futexVars, Typed
<1>1. TypeOK'
  BY DEF FutexTypeOK, Never, Pcs, Results, OwnerIsHolder
<1>2. WaiterShape'
  BY DEF FutexTypeOK
<1>3. MutualExclusion' /\ OwnerIsHolder'
  BY DEF MutualExclusion, OwnerIsHolder, Holding, FutexTypeOK
<1>4. NoStrandedSleeper'
  BY DEF NoStrandedSleeper, Returning, OwnerIsHolder, FutexTypeOK
<1> QED BY <1>1, <1>2, <1>3, <1>4

\* A finished wait goes back to the exchange, or gives up.
LEMMA ReturnStep ==
  ASSUME MutexInv, NEW t \in Threads, Return(t)
  PROVE  MutexInv'
<1> USE FutexConstants, MutexConstants
<1> USE DEF MutexInv, WaiterShape, TypeOK, Return, Leave, Goto, futexVars, Typed
<1>1. TypeOK'
  BY DEF FutexTypeOK, Never, Pcs, Results, OwnerIsHolder
<1>2. WaiterShape'
  BY DEF FutexTypeOK
<1>3. MutualExclusion' /\ OwnerIsHolder'
  BY DEF MutualExclusion, OwnerIsHolder, Holding, FutexTypeOK
<1>4. NoStrandedSleeper'
  BY DEF NoStrandedSleeper, Returning, OwnerIsHolder, FutexTypeOK
<1> QED BY <1>1, <1>2, <1>3, <1>4

\* A typed mutex gets its owner.
LEMMA OwnStep ==
  ASSUME MutexInv, NEW t \in Threads, Own(t)
  PROVE  MutexInv'
<1> USE FutexConstants, MutexConstants
<1> USE DEF MutexInv, WaiterShape, TypeOK, Own, Goto, futexVars, Typed
<1>1. TypeOK'
  BY DEF FutexTypeOK, Never, Pcs, Results, OwnerIsHolder
<1>2. WaiterShape'
  BY DEF FutexTypeOK
<1>3. MutualExclusion' /\ OwnerIsHolder'
  BY DEF MutualExclusion, OwnerIsHolder, Holding, FutexTypeOK
<1>4. NoStrandedSleeper'
  BY DEF NoStrandedSleeper, Returning, OwnerIsHolder, FutexTypeOK
<1> QED BY <1>1, <1>2, <1>3, <1>4

\* The owner is cleared before the word.
LEMMA UnlockStep ==
  ASSUME MutexInv, NEW t \in Threads, Unlock(t)
  PROVE  MutexInv'
<1> USE FutexConstants, MutexConstants
<1> USE DEF MutexInv, WaiterShape, TypeOK, Unlock, Goto, futexVars, Typed
<1>1. TypeOK'
  BY DEF FutexTypeOK, Never, Pcs, Results, OwnerIsHolder
<1>2. WaiterShape'
  BY DEF FutexTypeOK
<1>3. MutualExclusion' /\ OwnerIsHolder'
  BY DEF MutualExclusion, OwnerIsHolder, Holding, FutexTypeOK
<1>4. NoStrandedSleeper'
  BY DEF NoStrandedSleeper, Returning, OwnerIsHolder, FutexTypeOK
<1> QED BY <1>1, <1>2, <1>3, <1>4

\* Clearing a marked word leaves a wake-up to be made.
LEMMA ReleaseStep ==
  ASSUME MutexInv, NEW t \in Threads, Release(t)
  PROVE  MutexInv'
<1> USE FutexConstants, MutexConstants
<1> USE DEF MutexInv, WaiterShape, TypeOK, Release, Goto, futexVars, Typed
<1>1. TypeOK'
  BY DEF FutexTypeOK, Never, Pcs, Results, OwnerIsHolder
<1>2. WaiterShape'
  BY DEF FutexTypeOK
<1>3. MutualExclusion' /\ OwnerIsHolder'
  BY DEF MutualExclusion, OwnerIsHolder, Holding, FutexTypeOK
<1>4. NoStrandedSleeper'
  BY DEF NoStrandedSleeper, Returning, OwnerIsHolder, FutexTypeOK
<1> QED BY <1>1, <1>2, <1>3, <1>4

\* The wait sleeps only on a marked word.
LEMMA WaitStep ==
  ASSUME MutexInv, NEW t \in Threads, Wait(t)
  PROVE  MutexInv'
<1> USE FutexConstants, MutexConstants
<1> USE DEF MutexInv, WaiterShape, TypeOK, Wait, FutexCompare, Goto, mutexVars, Typed
<1>0. limit[t] \in 0..Never
  BY LimitLemma
<1>1. TypeOK'
  <2>1. deadline' \in [Threads -> 0..Never]
    BY <1>0 DEF FutexTypeOK
  <2>2. address' \in [Threads -> Addresses]
    BY DEF FutexTypeOK
  <2>3. result' \in [Threads -> Results]
    BY DEF FutexTypeOK, Results
  <2> QED BY <2>1, <2>2, <2>3 DEF FutexTypeOK, Pcs
<1>2. WaiterShape'
  BY DEF FutexTypeOK
<1>3. MutualExclusion' /\ OwnerIsHolder'
  BY DEF MutualExclusion, OwnerIsHolder, Holding, FutexTypeOK
<1>4. NoStrandedSleeper'
  BY DEF NoStrandedSleeper, Returning, FutexTypeOK
<1> QED BY <1>1, <1>2, <1>3, <1>4

\* Publishing the record and blocking.
LEMMA EnqueueStep ==
  ASSUME MutexInv, NEW t \in Threads, Enqueue(t)
  PROVE  MutexInv'
<1> USE FutexConstants, MutexConstants
<1> USE DEF MutexInv, WaiterShape, TypeOK, Enqueue, FutexEnqueue, LeaveFutex, mutexVars, Typed
<1>1. TypeOK'
  BY DEF FutexTypeOK, Never, Pcs, Results
<1>2. WaiterShape'
  BY DEF FutexTypeOK
<1>3. MutualExclusion' /\ OwnerIsHolder'
  BY DEF MutualExclusion, OwnerIsHolder, Holding, FutexTypeOK
<1>4. NoStrandedSleeper'
  BY DEF NoStrandedSleeper, Returning, FutexTypeOK
<1> QED BY <1>1, <1>2, <1>3, <1>4

\* A woken thread keeps its result when it leaves the kernel.
LEMMA ResumeStep ==
  ASSUME MutexInv, NEW t \in Threads, Resume(t)
  PROVE  MutexInv'
<1> USE FutexConstants, MutexConstants
<1> USE DEF MutexInv, WaiterShape, TypeOK, Resume, FutexResume, LeaveFutex, mutexVars, Typed
<1>1. TypeOK'
  BY DEF FutexTypeOK, Never, Pcs, Results
<1>2. WaiterShape'
  BY DEF FutexTypeOK
<1>3. MutualExclusion' /\ OwnerIsHolder'
  BY DEF MutualExclusion, OwnerIsHolder, Holding, FutexTypeOK
<1>4. NoStrandedSleeper'
  BY DEF NoStrandedSleeper, Returning, FutexTypeOK
<1> QED BY <1>1, <1>2, <1>3, <1>4

\* What a wake-up of one waiter takes out of the queue: a sleeper that stays
\* behind has been passed over for one that was woken in time.
LEMMA WalkLemma ==
  ASSUME NEW R \in Walks(Word, FALSE)
  PROVE  /\ R \subseteq queue
         /\ \/ \A t \in queue : address[t] = Word => t \in R
            \/ \E t \in R : ~Expired(t)
BY DEF Walks

\* Making the wake-up: the woken thread is going to mark the word again.
LEMMA WakeStep ==
  ASSUME MutexInv, NEW t \in Threads, Wake(t)
  PROVE  MutexInv'
<1> USE FutexConstants, MutexConstants
<1> USE DEF MutexInv, WaiterShape, TypeOK, Wake, FutexWake, RunAll, KernelFree, Goto, Typed
<1>1. PICK R \in Walks(Word, FALSE) :
        /\ queue' = queue \ R
        /\ RunAll(R)
        /\ result' = [u \in Threads |->
             IF u \in R THEN IF Expired(u) THEN "TIMED_OUT" ELSE "OK" ELSE result[u]]
  OBVIOUS
<1>2. /\ R \subseteq queue
      /\ \/ \A u \in queue : address[u] = Word => u \in R
         \/ \E u \in R : ~Expired(u)
  BY WalkLemma
<1> HIDE DEF FutexWake
<1>3. TypeOK'
  BY <1>1 DEF FutexTypeOK, Never, Pcs, Results, FutexWake
<1>4. WaiterShape'
  BY <1>1, <1>2 DEF FutexTypeOK, FutexWake
<1>5. MutualExclusion' /\ OwnerIsHolder'
  BY DEF MutualExclusion, OwnerIsHolder, Holding, FutexTypeOK
<1>6. NoStrandedSleeper'
  BY <1>1, <1>2 DEF NoStrandedSleeper, Returning, FutexTypeOK, FutexWake
<1> QED BY <1>3, <1>4, <1>5, <1>6

\* The clock, a signal, a timeout and a termination do not take away the
\* wake-up another sleeper depends on.
LEMMA ElsewhereStep ==
  ASSUME MutexInv, Elsewhere
  PROVE  MutexInv'
<1> USE FutexConstants, MutexConstants
<1> USE DEF MutexInv, WaiterShape, TypeOK, mutexVars, Elsewhere, Typed
<1>1. MutualExclusion' /\ OwnerIsHolder'
  BY DEF MutualExclusion, OwnerIsHolder, Holding
<1>2. CASE TimePasses
  BY <1>1, <1>2 DEF TimePasses, FutexTypeOK, NoStrandedSleeper, Returning
<1>3. CASE FutexTick
  BY <1>1, <1>3 DEF FutexTick, RunAll, FutexTypeOK, Results, NoStrandedSleeper, Returning
<1>4. ASSUME NEW t \in Threads, Interrupt(t) PROVE MutexInv'
  BY <1>1, <1>4 DEF Interrupt, RunAll, FutexTypeOK, NoStrandedSleeper, Returning
<1>5. ASSUME NEW t \in Threads, CancelTask(t) PROVE MutexInv'
  BY <1>1, <1>5 DEF CancelTask, FutexTypeOK, Never, NoStrandedSleeper, Returning
<1> QED BY <1>2, <1>3, <1>4, <1>5 DEF Outside

\* Every behaviour of the mutex keeps the invariant.
THEOREM MutexCorrect == Spec => []MutexInv
<1>1. MutexInv /\ [Next]_vars => MutexInv'
  <2> SUFFICES ASSUME MutexInv, [Next]_vars PROVE MutexInv'
    OBVIOUS
  <2>1. CASE UNCHANGED vars
    BY <2>1 DEF vars, futexVars, mutexVars, MutexInv, TypeOK, FutexTypeOK, WaiterShape,
                MutualExclusion, OwnerIsHolder, NoStrandedSleeper, Holding, Typed, Returning
  <2>2. CASE Elsewhere
    BY <2>2, ElsewhereStep
  <2>3. ASSUME NEW t \in Threads, Lock(t) \/ TryLock(t) \/ TimedLock(t) PROVE MutexInv'
    BY <2>3, AcquireStep DEF Lock, TryLock, TimedLock
  <2>4. ASSUME NEW t \in Threads, Unlock(t) \/ Step(t) PROVE MutexInv'
    BY <2>4, UnlockStep, CasStep, SwapStep, WaitStep, EnqueueStep, ResumeStep, ReturnStep,
       OwnStep, ReleaseStep, WakeStep DEF Step
  <2> QED BY <2>1, <2>2, <2>3, <2>4 DEF Next
<1> QED BY <1>1, InitMutex, PTL DEF Spec

\* Two threads are never both past the exchanges that acquire the word of
\* mutex_acquire, whatever timeouts, signals and terminations happen.
THEOREM MutexExcludes == Spec => []MutualExclusion
BY MutexCorrect, PTL DEF MutexInv

\* The unlocked read of mutex->owner in mutex_acquire tells a thread whether it
\* is itself the holder.
THEOREM MutexOwner == Spec => []OwnerIsHolder
BY MutexCorrect, PTL DEF MutexInv

\* No waiter sleeps for a mutex nobody is going to wake it for.
THEOREM MutexWakes == Spec => []NoStrandedSleeper
BY MutexCorrect, PTL DEF MutexInv
=============================================================================
