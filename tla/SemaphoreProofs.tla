-------------------------- MODULE SemaphoreProofs --------------------------
(***************************************************************************)
(* Proofs about Semaphore: the value stays within its bounds, and the      *)
(* economy of wake-ups (a post wakes only on the way up from zero) strands *)
(* no waiter, for any number of threads and any SEM_VALUE_MAX.             *)
(***************************************************************************)
EXTENDS Semaphore, TLAPS

\* Where a thread inside futex_operation is, and what its record says.
WaiterShape ==
  /\ \A t \in Threads : place[t] # "user" => pc[t] = "waiting"
  /\ \A t \in Threads : place[t] = "kernel" <=> kernel = t
  /\ \A t \in Threads : place[t] \in {"kernel", "blocked"} => address[t] = Word
  /\ \A t \in Threads : place[t] = "blocked" => t \in queue
  /\ \A t \in queue : place[t] \in {"blocked", "woken"}

\* What a thread about to exchange the value has seen of it.
SeenShape ==
  \A t \in Threads : /\ pc[t] \in {"cas", "trycas"} => seen[t] > 0
                     /\ pc[t] = "postcas" => seen[t] < ValueMax

\* The inductive invariant.
SemInv == TypeOK /\ WaiterShape /\ SeenShape /\ NoStrandedWaiter

\* A call's deadline is a time or Never.
LEMMA LimitLemma == \A d \in Limits \cup {Never} : d \in 0..Never
<1>1. \A d \in Limits : d \in 0..Never
  BY FutexConstants, SemaphoreConstants DEF Never
<1>2. Never \in 0..Never
  BY FutexConstants DEF Never
<1> QED BY <1>1, <1>2

\* The initial state satisfies the invariant.
LEMMA InitSem == Init => SemInv
BY FutexConstants, SemaphoreConstants
   DEF Init, FutexInit, SemInv, TypeOK, FutexTypeOK, WaiterShape, SeenShape,
       NoStrandedWaiter, Never, Pcs, Results

\* A call starts.
LEMMA CallStep ==
  ASSUME SemInv, NEW t \in Threads, NEW p \in {"take", "try", "post"},
         NEW d \in Limits \cup {Never}, Call(t, p, d)
  PROVE  SemInv'
<1> USE FutexConstants, SemaphoreConstants
<1> USE DEF SemInv, TypeOK, WaiterShape, SeenShape, Call, Goto, futexVars
<1>1. TypeOK'
  BY DEF FutexTypeOK, Pcs
<1>2. WaiterShape' /\ SeenShape'
  BY DEF FutexTypeOK
<1>3. NoStrandedWaiter'
  BY DEF NoStrandedWaiter, Taking, FutexTypeOK
<1> QED BY <1>1, <1>2, <1>3

\* The first look at the value: a thread gives up only when it sees zero.
LEMMA LoadStep ==
  ASSUME SemInv, NEW t \in Threads, Load(t)
  PROVE  SemInv'
<1> USE FutexConstants, SemaphoreConstants
<1> USE DEF SemInv, TypeOK, WaiterShape, SeenShape, Load, Inspect, See, Leave, Goto, futexVars
<1>1. TypeOK'
  BY DEF FutexTypeOK, Never, Pcs, Results
<1>2. WaiterShape' /\ SeenShape'
  BY DEF FutexTypeOK
<1>3. NoStrandedWaiter'
  BY DEF NoStrandedWaiter, Taking, FutexTypeOK
<1> QED BY <1>1, <1>2, <1>3

\* Taking a token: one that leaves tokens behind has a wake-up to pass on.
LEMMA TakeCasStep ==
  ASSUME SemInv, NEW t \in Threads, TakeCas(t)
  PROVE  SemInv'
<1> USE FutexConstants, SemaphoreConstants
<1> USE DEF SemInv, TypeOK, WaiterShape, SeenShape, TakeCas, Inspect, See, Leave, Goto, futexVars
<1>1. TypeOK'
  BY DEF FutexTypeOK, Never, Pcs, Results
<1>2. WaiterShape' /\ SeenShape'
  BY DEF FutexTypeOK
<1>3. NoStrandedWaiter'
  BY DEF NoStrandedWaiter, Taking, FutexTypeOK
<1> QED BY <1>1, <1>2, <1>3

\* A post looks at the value.
LEMMA PostLoadStep ==
  ASSUME SemInv, NEW t \in Threads, PostLoad(t)
  PROVE  SemInv'
<1> USE FutexConstants, SemaphoreConstants
<1> USE DEF SemInv, TypeOK, WaiterShape, SeenShape, PostLoad, Offer, See, Goto, futexVars
<1>1. TypeOK'
  BY DEF FutexTypeOK, Never, Pcs, Results
<1>2. WaiterShape' /\ SeenShape'
  BY DEF FutexTypeOK
<1>3. NoStrandedWaiter'
  BY DEF NoStrandedWaiter, Taking, FutexTypeOK
<1> QED BY <1>1, <1>2, <1>3

\* A post from zero has a wake-up to make; any other finds the tokens looked after.
LEMMA PostCasStep ==
  ASSUME SemInv, NEW t \in Threads, PostCas(t)
  PROVE  SemInv'
<1> USE FutexConstants, SemaphoreConstants
<1> USE DEF SemInv, TypeOK, WaiterShape, SeenShape, PostCas, Offer, See, Goto, futexVars
<1>1. TypeOK'
  BY DEF FutexTypeOK, Never, Pcs, Results
<1>2. WaiterShape' /\ SeenShape'
  BY DEF FutexTypeOK
<1>3. NoStrandedWaiter'
  BY DEF NoStrandedWaiter, Taking, FutexTypeOK
<1> QED BY <1>1, <1>2, <1>3

\* A finished wait goes back to sem_take, or ends the call.
LEMMA ReturnStep ==
  ASSUME SemInv, NEW t \in Threads, Return(t)
  PROVE  SemInv'
<1> USE FutexConstants, SemaphoreConstants
<1> USE DEF SemInv, TypeOK, WaiterShape, SeenShape, Return, Leave, Goto, futexVars
<1>1. TypeOK'
  BY DEF FutexTypeOK, Never, Pcs, Results
<1>2. WaiterShape' /\ SeenShape'
  BY DEF FutexTypeOK
<1>3. NoStrandedWaiter'
  BY DEF NoStrandedWaiter, Taking, FutexTypeOK
<1> QED BY <1>1, <1>2, <1>3

\* The wait sleeps only while the value is zero.
LEMMA WaitStep ==
  ASSUME SemInv, NEW t \in Threads, Wait(t)
  PROVE  SemInv'
<1> USE FutexConstants, SemaphoreConstants
<1> USE DEF SemInv, TypeOK, WaiterShape, SeenShape, Wait, FutexCompare, Goto, semVars
<1>0. limit[t] \in 0..Never
  BY LimitLemma
<1>1. TypeOK'
  <2>1. deadline' \in [Threads -> 0..Never]
    BY <1>0 DEF FutexTypeOK
  <2>2. address' \in [Threads -> Addresses]
    BY DEF FutexTypeOK
  <2>3. result' \in [Threads -> Results]
    BY DEF FutexTypeOK, Results
  <2> QED BY <2>1, <2>2, <2>3 DEF FutexTypeOK, Pcs
<1>2. WaiterShape' /\ SeenShape'
  BY DEF FutexTypeOK
<1>3. NoStrandedWaiter'
  BY DEF NoStrandedWaiter, Taking, FutexTypeOK
<1> QED BY <1>1, <1>2, <1>3

\* Publishing the record and blocking.
LEMMA EnqueueStep ==
  ASSUME SemInv, NEW t \in Threads, Enqueue(t)
  PROVE  SemInv'
<1> USE FutexConstants, SemaphoreConstants
<1> USE DEF SemInv, TypeOK, WaiterShape, SeenShape, Enqueue, FutexEnqueue, LeaveFutex, semVars
<1>1. TypeOK'
  BY DEF FutexTypeOK, Never, Pcs, Results
<1>2. WaiterShape' /\ SeenShape'
  BY DEF FutexTypeOK
<1>3. NoStrandedWaiter'
  BY DEF NoStrandedWaiter, Taking, FutexTypeOK
<1> QED BY <1>1, <1>2, <1>3

\* A woken thread keeps its result when it leaves the kernel.
LEMMA ResumeStep ==
  ASSUME SemInv, NEW t \in Threads, Resume(t)
  PROVE  SemInv'
<1> USE FutexConstants, SemaphoreConstants
<1> USE DEF SemInv, TypeOK, WaiterShape, SeenShape, Resume, FutexResume, LeaveFutex, semVars
<1>1. TypeOK'
  BY DEF FutexTypeOK, Never, Pcs, Results
<1>2. WaiterShape' /\ SeenShape'
  BY DEF FutexTypeOK
<1>3. NoStrandedWaiter'
  BY DEF NoStrandedWaiter, Taking, FutexTypeOK
<1> QED BY <1>1, <1>2, <1>3

\* What a wake-up of one waiter takes out of the queue: a sleeper that stays
\* behind has been passed over for one that was woken in time.
LEMMA WalkLemma ==
  ASSUME NEW R \in Walks(Word, FALSE)
  PROVE  /\ R \subseteq queue
         /\ \/ \A t \in queue : address[t] = Word => t \in R
            \/ \E t \in R : ~Expired(t)
BY DEF Walks

\* Making the wake-up: the woken thread is going to take.
LEMMA WakeStep ==
  ASSUME SemInv, NEW t \in Threads, Wake(t)
  PROVE  SemInv'
<1> USE FutexConstants, SemaphoreConstants
<1> USE DEF SemInv, WaiterShape, SeenShape, TypeOK, Wake, FutexWake, RunAll, KernelFree, Goto
<1>1. PICK R \in Walks(Word, FALSE) :
        /\ queue' = queue \ R
        /\ RunAll(R)
        /\ result' = [u \in Threads |->
             IF u \in R THEN IF Expired(u) THEN "TIMED_OUT" ELSE "OK" ELSE result[u]]
  OBVIOUS
<1>2. /\ R \subseteq queue
      /\ \/ \A u \in queue : address[u] = Word => u \in R
         \/ \E u \in R : ~Expired(u)
  BY WalkLemma
<1> HIDE DEF FutexWake
<1>3. TypeOK'
  BY <1>1 DEF FutexTypeOK, Never, Pcs, Results, FutexWake
<1>4. WaiterShape' /\ SeenShape'
  BY <1>1, <1>2 DEF FutexTypeOK, FutexWake
<1>5. NoStrandedWaiter'
  BY <1>1, <1>2 DEF NoStrandedWaiter, Taking, FutexTypeOK, FutexWake
<1> QED BY <1>3, <1>4, <1>5

\* The clock, a signal, a timeout and a termination do not take away the
\* wake-up another sleeper depends on.
LEMMA ElsewhereStep ==
  ASSUME SemInv, Elsewhere
  PROVE  SemInv'
<1> USE FutexConstants, SemaphoreConstants
<1> USE DEF SemInv, WaiterShape, SeenShape, TypeOK, semVars, Elsewhere
<1>2. CASE TimePasses
  BY <1>2 DEF TimePasses, FutexTypeOK, NoStrandedWaiter, Taking
<1>3. CASE FutexTick
  BY <1>3 DEF FutexTick, RunAll, FutexTypeOK, Results, NoStrandedWaiter, Taking
<1>4. ASSUME NEW t \in Threads, Interrupt(t) PROVE SemInv'
  BY <1>4 DEF Interrupt, RunAll, FutexTypeOK, NoStrandedWaiter, Taking
<1>5. ASSUME NEW t \in Threads, CancelTask(t) PROVE SemInv'
  BY <1>5 DEF CancelTask, FutexTypeOK, Never, NoStrandedWaiter, Taking
<1> QED BY <1>2, <1>3, <1>4, <1>5 DEF Outside

\* Every behaviour of the semaphore keeps the invariant.
THEOREM SemaphoreCorrect == Spec => []SemInv
<1>1. SemInv /\ [Next]_vars => SemInv'
  <2> SUFFICES ASSUME SemInv, [Next]_vars PROVE SemInv'
    OBVIOUS
  <2>1. CASE UNCHANGED vars
    BY <2>1 DEF vars, futexVars, semVars, SemInv, TypeOK, FutexTypeOK, WaiterShape,
                SeenShape, NoStrandedWaiter, Taking
  <2>2. CASE Elsewhere
    BY <2>2, ElsewhereStep
  <2>3. ASSUME NEW t \in Threads,
               SemWait(t) \/ SemTryWait(t) \/ SemTimedWait(t) \/ SemPost(t)
        PROVE  SemInv'
    BY <2>3, CallStep DEF SemWait, SemTryWait, SemTimedWait, SemPost
  <2>4. ASSUME NEW t \in Threads, Step(t) PROVE SemInv'
    BY <2>4, LoadStep, TakeCasStep, WaitStep, EnqueueStep, ResumeStep, ReturnStep,
       PostLoadStep, PostCasStep, WakeStep DEF Step
  <2> QED BY <2>1, <2>2, <2>3, <2>4 DEF Next
<1> QED BY <1>1, InitSem, PTL DEF Spec

\* sem_post never raises the value over SEM_VALUE_MAX and sem_take never lowers
\* it under zero, however their exchanges race.
THEOREM SemaphoreBounds == Spec => []TypeOK
BY SemaphoreCorrect, PTL DEF SemInv

\* A waiter sleeps while tokens remain only if a wake-up or a taker is still to
\* come: the zero-to-one rule of sem_post loses nobody.
THEOREM SemaphoreWakes == Spec => []NoStrandedWaiter
BY SemaphoreCorrect, PTL DEF SemInv
=============================================================================
