----------------------------- MODULE Semaphore -----------------------------
(***************************************************************************)
(* sem_t of apps/libp/semaphore.c: wait, trywait, timedwait and post on    *)
(* one semaphore, whose only field is the futex word.  A post wakes a      *)
(* waiter only when it raises the value from zero; a taker that leaves     *)
(* tokens behind passes the wake-up on.  Each atomic access is a step; the *)
(* futex calls are the steps of module Futex.                              *)
(***************************************************************************)
EXTENDS Futex

CONSTANTS Word,       \* the address of semaphore->value
          ValueMax,   \* SEM_VALUE_MAX
          Limits      \* the deadlines sem_timedwait is called with

ASSUME SemaphoreConstants ==
  /\ Word \in Addresses
  /\ ValueMax \in Nat \ {0}
  /\ Limits \subseteq 0..MaxTime

VARIABLES
  value,   \* semaphore->value
  seen,    \* the local `value' of sem_take and of sem_post
  limit,   \* the deadline of the call
  pc

semVars == <<value, seen, limit, pc>>
vars == <<futexVars, semVars>>

\* "try" and "take" read the value, "trycas" and "cas" exchange it, "pass" wakes
\* another waiter; "wait" and "waiting" are around os_futex_wait; "post",
\* "postcas" and "waking" are the steps of sem_post.
Pcs == {"out", "try", "take", "trycas", "cas", "pass", "wait", "waiting", "post",
        "postcas", "waking"}

TypeOK ==
  /\ FutexTypeOK
  /\ value \in 0..ValueMax
  /\ seen \in [Threads -> 0..ValueMax]
  /\ limit \in [Threads -> Limits \cup {Never}]
  /\ pc \in [Threads -> Pcs]

\* sem_init.
Init ==
  /\ FutexInit
  /\ value \in 0..ValueMax
  /\ seen = [t \in Threads |-> 0]
  /\ limit = [t \in Threads |-> Never]
  /\ pc = [t \in Threads |-> "out"]

Goto(t, p) == pc' = [pc EXCEPT ![t] = p]
Leave(t, p) == Goto(t, p) /\ limit' = [limit EXCEPT ![t] = Never]
See(t, v) == seen' = [seen EXCEPT ![t] = v]

----------------------------------------------------------------------------
\* The calls.
Call(t, p, d) ==
  /\ place[t] = "user" /\ pc[t] = "out"
  /\ Goto(t, p) /\ limit' = [limit EXCEPT ![t] = d]
  /\ UNCHANGED <<futexVars, value, seen>>

SemWait(t) == Call(t, "take", Never)
SemTryWait(t) == Call(t, "try", Never)
SemTimedWait(t) == \E d \in Limits : Call(t, "take", d)
SemPost(t) == Call(t, "post", Never)

\* sem_take looks at the value v: it goes on to the exchange, fails a trywait,
\* or sends the waiter to the futex.
Inspect(t, v, try) ==
  IF v = 0
  THEN See(t, 0) /\ IF try THEN Leave(t, "out") ELSE Goto(t, "wait") /\ UNCHANGED limit
  ELSE See(t, v) /\ Goto(t, IF try THEN "trycas" ELSE "cas") /\ UNCHANGED limit

Load(t) ==
  /\ place[t] = "user" /\ pc[t] \in {"try", "take"}
  /\ Inspect(t, value, pc[t] = "try")
  /\ UNCHANGED <<futexVars, value>>

\* The exchange of sem_take; on failure it has reloaded the value.
TakeCas_KeepWake(t) ==
  /\ place[t] = "user" /\ pc[t] \in {"trycas", "cas"}
  /\ IF value = seen[t]
     THEN value' = value - 1 /\ See(t, 0) /\ Leave(t, "out")
     ELSE Inspect(t, value, pc[t] = "trycas") /\ UNCHANGED value
  /\ UNCHANGED futexVars
TakeCas(t) ==
  /\ place[t] = "user" /\ pc[t] \in {"trycas", "cas"}
  /\ IF value = seen[t]
     THEN value' = value - 1 /\ See(t, 0) /\ Leave(t, IF seen[t] > 1 THEN "pass" ELSE "out")
     ELSE Inspect(t, value, pc[t] = "trycas") /\ UNCHANGED value
  /\ UNCHANGED futexVars

\* os_futex_wait(&semaphore->value, 0, deadline).
Wait(t) ==
  /\ pc[t] = "wait" /\ Goto(t, "waiting")
  /\ FutexCompare(t, Word, value, 0, limit[t])
  /\ UNCHANGED <<value, seen, limit>>
Enqueue(t) == FutexEnqueue(t) /\ UNCHANGED semVars
Resume(t) == FutexResume(t) /\ UNCHANGED semVars

\* A timeout and a signal end the call, anything else tries again.
Return(t) ==
  /\ place[t] = "user" /\ pc[t] = "waiting"
  /\ IF result[t] \in {"TIMED_OUT", "INTERRUPTED"} THEN Leave(t, "out")
     ELSE Goto(t, "take") /\ UNCHANGED limit
  /\ result' = [result EXCEPT ![t] = "OK"]
  /\ UNCHANGED <<kernel, queue, now, address, deadline, place, value, seen>>

\* sem_post up to the exchange: a full semaphore is refused (EOVERFLOW).
Offer(t, v) ==
  IF v = ValueMax THEN See(t, 0) /\ Goto(t, "out") ELSE See(t, v) /\ Goto(t, "postcas")

PostLoad(t) ==
  /\ place[t] = "user" /\ pc[t] = "post"
  /\ Offer(t, value)
  /\ UNCHANGED <<futexVars, value, limit>>

\* The exchange of sem_post; a retry looks at the limit again.
PostCas_CheckOnce(t) ==
  /\ place[t] = "user" /\ pc[t] = "postcas"
  /\ IF value = seen[t]
     THEN /\ value' = value + 1 /\ See(t, 0)
          /\ Goto(t, IF seen[t] = 0 THEN "waking" ELSE "out")
     ELSE See(t, value) /\ UNCHANGED <<value, pc>>
  /\ UNCHANGED <<futexVars, limit>>
PostCas(t) ==
  /\ place[t] = "user" /\ pc[t] = "postcas"
  /\ IF value = seen[t]
     THEN /\ value' = value + 1 /\ See(t, 0)
          /\ Goto(t, IF seen[t] = 0 THEN "waking" ELSE "out")
     ELSE Offer(t, value) /\ UNCHANGED value
  /\ UNCHANGED <<futexVars, limit>>

\* os_futex_wake(&semaphore->value, 1), by a poster or a taker.
Wake(t) ==
  /\ pc[t] \in {"pass", "waking"} /\ Goto(t, "out")
  /\ FutexWake(t, Word, FALSE)
  /\ UNCHANGED <<value, seen, limit>>

Step(t) ==
  \/ Load(t) \/ TakeCas(t) \/ Wait(t) \/ Enqueue(t) \/ Resume(t) \/ Return(t)
  \/ PostLoad(t) \/ PostCas(t) \/ Wake(t)

Elsewhere == Outside /\ UNCHANGED semVars

Next ==
  \/ Elsewhere
  \/ \E t \in Threads :
       SemWait(t) \/ SemTryWait(t) \/ SemTimedWait(t) \/ SemPost(t) \/ Step(t)

Spec == Init /\ [][Next]_vars

\* Each CPU keeps running its thread and a woken thread gets a CPU.
FairSpec == Spec /\ \A t \in Threads : WF_vars(Step(t))

----------------------------------------------------------------------------
\* A thread inside sem_take, or on its way back there: the wait it is about to
\* make cannot block unless the value is zero, and the result it has is not a
\* reason to give up.
Taking(t) ==
  \/ pc[t] \in {"try", "take", "trycas", "cas", "wait"}
  \/ pc[t] = "waiting" /\ place[t] = "user" /\ result[t] \in {"OK", "CHANGED"}
  \/ pc[t] = "waiting" /\ place[t] = "woken" /\ t \notin queue /\ result[t] = "OK"

\* Although most posts wake nobody, tokens and sleepers do not coexist unless a
\* wake-up is on its way or a thread that passes the wake-up on is taking.
NoStrandedWaiter ==
  (value > 0 /\ \E t \in Threads : place[t] \in {"kernel", "blocked"}) =>
     \E t \in Threads : pc[t] \in {"pass", "waking"} \/ Taking(t)

\* Tokens do not stay while threads sleep for them.
TokensTaken ==
  (value > 0 /\ \E t \in Threads : place[t] = "blocked")
     ~> (value = 0 \/ \A t \in Threads : place[t] # "blocked")
=============================================================================
