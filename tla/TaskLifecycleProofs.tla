------------------------ MODULE TaskLifecycleProofs ------------------------
(***************************************************************************)
(* The proofs of module TaskLifecycle.  Registry collects the parts of the *)
(* inductive invariant LifeInv as a predicate of a registry, so that they  *)
(* can be followed through the steps of a teardown: finish_task,           *)
(* terminate_thread_group, reparent_children, task_finish_pending and      *)
(* request_task_termination each get a lemma about any registry that has   *)
(* the parts.  The actions are then put together from these lemmas.        *)
(***************************************************************************)
EXTENDS TaskLifecycle, TLAPS, WellFoundedInduction, FiniteSetTheorems

\* y is x but for its state, the reason it sleeps for and the group lock.
Like(y, x) ==
  /\ y.gen = x.gen /\ y.kind = x.kind /\ y.tgid = x.tgid
  /\ y.ptid = x.ptid /\ y.joinable = x.joinable /\ y.pend = x.pend
  /\ y.mem = x.mem /\ y.wtid = x.wtid /\ y.wgen = x.wgen
  /\ y.call = x.call /\ y.lgen = x.lgen /\ y.pgen = x.pgen

\* y is as x was, or has been run.
Awake(y, x) ==
  \/ y.state = x.state /\ y.reason = x.reason
  \/ x.state = "WAITING" /\ y.state = "RUNNING" /\ y.reason = "none"

\* task_slot_reset leaves a record.
LEMMA EmptyRecord ==
  ASSUME NEW t \in Slots, NEW gen \in 0..MaxGen PROVE Empty(t, gen) \in Record
BY LifecycleConstants DEF Empty, Record, NONE, REAPER, States, Calls

\* The record operations of the module, one operator each.
Ran(x) == [x EXCEPT !.state = "RUNNING", !.reason = "none"]
\* task_run changes only the state and the reason.
LEMMA RanLemma ==
  ASSUME NEW x \in Record
  PROVE  /\ Ran(x) \in Record
         /\ Like(Ran(x), x) /\ Ran(x).owner = x.owner /\ Ran(x).depth = x.depth
         /\ Ran(x).state = "RUNNING" /\ Ran(x).reason = "none"
<1>1. Ran(x) \in Record BY DEF Ran, Record, States
<1>2. Like(Ran(x), x) /\ Ran(x).owner = x.owner /\ Ran(x).depth = x.depth
  BY DEF Ran, Record, Like
<1>3. Ran(x).state = "RUNNING" /\ Ran(x).reason = "none"
  BY DEF Ran, Record
<1> QED BY <1>1, <1>2, <1>3
Unowned(x) == [x EXCEPT !.owner = NONE, !.depth = 0]
\* A lock that is freed changes nothing else of its record.
LEMMA UnownedLemma ==
  ASSUME NEW x \in Record
  PROVE  /\ Unowned(x) \in Record
         /\ Like(Unowned(x), x) /\ Unowned(x).owner = NONE /\ Unowned(x).depth = 0
         /\ Unowned(x).state = x.state /\ Unowned(x).reason = x.reason
<1>1. Unowned(x) \in Record
  <2>1. NONE \in Slots \cup {NONE} /\ 0 \in 0..MaxDepth BY LifecycleConstants
  <2> QED BY <2>1 DEF Unowned, Record
<1>2. Like(Unowned(x), x) /\ Unowned(x).owner = NONE /\ Unowned(x).depth = 0
  BY DEF Unowned, Record, Like
<1>3. Unowned(x).state = x.state /\ Unowned(x).reason = x.reason
  BY DEF Unowned, Record
<1> QED BY <1>1, <1>2, <1>3

\* task_run of a set of tasks changes only their state and the reason they slept for.
LEMMA RunLemma ==
  ASSUME NEW r \in [Slots -> Record], NEW S
  PROVE  /\ Run(r, S) \in [Slots -> Record]
         /\ \A t \in Slots :
              /\ t \notin S => Run(r, S)[t] = r[t]
              /\ t \in S => Run(r, S)[t] = Ran(r[t])
<1>1. Run(r, S) = [t \in Slots |-> IF t \in S THEN Ran(r[t]) ELSE r[t]] BY DEF Run, Ran
<1> QED BY <1>1, RanLemma

\* g is a leader whose group lock a task of S owns.
OwnedBy(r, S, g) == InUse(r, g) /\ r[g].owner \in S /\ r[r[g].owner].tgid = g

\* task_clear_external_refs frees the locks that tasks of S own and runs who sleeps for
\* them, and does nothing else.
LEMMA LockFreedLemma ==
  ASSUME NEW r \in [Slots -> Record], NEW S \in SUBSET Slots, NEW q, q = LockFreed(r, S)
  PROVE  /\ q \in [Slots -> Record]
         /\ \A t \in Slots :
              /\ Like(q[t], r[t]) /\ Awake(q[t], r[t])
              /\ \/ q[t].owner = r[t].owner /\ q[t].depth = r[t].depth
                 \/ r[t].owner \in S /\ q[t].owner = NONE /\ q[t].depth = 0
              /\ OwnedBy(r, S, t) => q[t].owner = NONE
              /\ OwnedBy(r, S, r[t].tgid) /\ r[t].state = "WAITING" /\ r[t].reason = "lock"
                   => q[t].state = "RUNNING"
              /\ r[t].state = "WAITING" /\ r[t].reason # "lock" => q[t].state = "WAITING"
<1> DEFINE G == {g \in Slots : OwnedBy(r, S, g)}
           f == [g \in Slots |-> IF g \in G THEN Unowned(r[g]) ELSE r[g]]
           W == {w \in Slots : InUse(r, w) /\ r[w].tgid \in G /\ r[w].state = "WAITING"
                          /\ r[w].reason = "lock"}
<1>0. q = Run(f, W) BY DEF LockFreed, Unowned, OwnedBy
<1>1. f \in [Slots -> Record] BY UnownedLemma
<1>3. \A t \in W : r[t].state = "WAITING" /\ r[t].reason = "lock" OBVIOUS
<1>4. \A t \in Slots : OwnedBy(r, S, r[t].tgid) /\ r[t].state = "WAITING" /\ r[t].reason = "lock"
                         => t \in W
  BY DEF InUse, OwnedBy, Record
<1>5. \A t \in Slots : OwnedBy(r, S, t) => t \in G OBVIOUS
<1>6. \A t \in G : r[t].owner \in S BY DEF OwnedBy
<1>7. \A t \in Slots : f[t] = IF t \in G THEN Unowned(r[t]) ELSE r[t] OBVIOUS
<1> HIDE DEF G, f, W
<1>8. /\ q \in [Slots -> Record]
      /\ \A t \in Slots : /\ t \notin W => q[t] = f[t]
                          /\ t \in W => q[t] = Ran(f[t])
  BY <1>0, <1>1, RunLemma
<1> SUFFICES ASSUME NEW t \in Slots
             PROVE
              /\ Like(q[t], r[t]) /\ Awake(q[t], r[t])
              /\ \/ q[t].owner = r[t].owner /\ q[t].depth = r[t].depth
                 \/ r[t].owner \in S /\ q[t].owner = NONE /\ q[t].depth = 0
              /\ OwnedBy(r, S, t) => q[t].owner = NONE
              /\ OwnedBy(r, S, r[t].tgid) /\ r[t].state = "WAITING" /\ r[t].reason = "lock"
                   => q[t].state = "RUNNING"
              /\ r[t].state = "WAITING" /\ r[t].reason # "lock" => q[t].state = "WAITING"
  BY <1>8
<1>9. /\ f[t] \in Record /\ Like(f[t], r[t]) /\ f[t].state = r[t].state /\ f[t].reason = r[t].reason
      /\ \/ f[t].owner = r[t].owner /\ f[t].depth = r[t].depth
         \/ r[t].owner \in S /\ f[t].owner = NONE /\ f[t].depth = 0
      /\ t \in G => f[t].owner = NONE
  BY <1>6, <1>7, UnownedLemma DEF Like
<1>10. CASE t \in W
  <2>1. /\ Like(q[t], f[t]) /\ q[t].owner = f[t].owner /\ q[t].depth = f[t].depth
        /\ q[t].state = "RUNNING" /\ q[t].reason = "none"
    BY <1>8, <1>9, <1>10, RanLemma
  <2>2. Like(q[t], r[t]) /\ Awake(q[t], r[t]) BY <1>3, <1>9, <1>10, <2>1 DEF Like, Awake
  <2> QED BY <1>3, <1>5, <1>9, <1>10, <2>1, <2>2
<1>11. CASE t \notin W
  <2>1. Like(q[t], r[t]) /\ Awake(q[t], r[t]) BY <1>8, <1>9, <1>11 DEF Like, Awake
  <2> QED BY <1>4, <1>5, <1>8, <1>9, <1>11, <2>1
<1> QED BY <1>10, <1>11

\* task_release_resources keeps who a task is, and drops what it holds and waits for.
LEMMA ClearedLemma ==
  ASSUME NEW x \in Record
  PROVE  /\ Cleared(x) \in Record
         /\ Cleared(x).gen = x.gen /\ Cleared(x).kind = x.kind /\ Cleared(x).tgid = x.tgid
         /\ Cleared(x).ptid = x.ptid /\ Cleared(x).joinable = x.joinable
         /\ Cleared(x).lgen = x.lgen /\ Cleared(x).pgen = x.pgen /\ Cleared(x).state = x.state
         /\ ~Cleared(x).pend /\ ~Cleared(x).mem /\ Cleared(x).reason = "none"
         /\ Cleared(x).call = "user" /\ Cleared(x).owner = NONE /\ Cleared(x).depth = 0
<1>1. Cleared(x) \in Record
  <2>1. NONE \in Slots \cup {NONE} /\ 0 \in 0..MaxDepth /\ 0 \in 0..MaxGen /\ "user" \in Calls
    BY LifecycleConstants DEF Calls
  <2> QED BY <2>1 DEF Cleared, Record
<1>2. /\ Cleared(x).gen = x.gen /\ Cleared(x).kind = x.kind /\ Cleared(x).tgid = x.tgid
      /\ Cleared(x).ptid = x.ptid /\ Cleared(x).joinable = x.joinable
      /\ Cleared(x).lgen = x.lgen /\ Cleared(x).pgen = x.pgen /\ Cleared(x).state = x.state
  BY DEF Cleared, Record
<1>3. /\ ~Cleared(x).pend /\ ~Cleared(x).mem /\ Cleared(x).reason = "none"
      /\ Cleared(x).call = "user" /\ Cleared(x).owner = NONE /\ Cleared(x).depth = 0
  BY DEF Cleared, Record
<1> QED BY <1>1, <1>2, <1>3

Entering(x, s) == [x EXCEPT !.state = s]
\* A task that enters another state stays who it is.
LEMMA EnteringLemma ==
  ASSUME NEW x \in Record, NEW s \in States
  PROVE  /\ Entering(x, s) \in Record
         /\ Like(Entering(x, s), x) /\ Entering(x, s).owner = x.owner
         /\ Entering(x, s).depth = x.depth /\ Entering(x, s).reason = x.reason
         /\ Entering(x, s).state = s
<1>1. Entering(x, s) \in Record BY DEF Entering, Record
<1>2. /\ Like(Entering(x, s), x) /\ Entering(x, s).owner = x.owner
      /\ Entering(x, s).depth = x.depth /\ Entering(x, s).reason = x.reason
  BY DEF Entering, Record, Like
<1>3. Entering(x, s).state = s BY DEF Entering, Record
<1> QED BY <1>1, <1>2, <1>3

\* What finish_task of the tasks in S does to another task t, from r to q.
Spared(r, q, S, t) ==
  /\ Like(q[t], r[t]) /\ Awake(q[t], r[t])
  /\ \/ q[t].owner = r[t].owner /\ q[t].depth = r[t].depth
     \/ r[t].owner \in S /\ q[t].owner = NONE /\ q[t].depth = 0
  /\ OwnedBy(r, S, t) => q[t].owner = NONE
  /\ OwnedBy(r, S, r[t].tgid) /\ r[t].state = "WAITING" /\ r[t].reason = "lock"
       => q[t].state = "RUNNING"
  /\ \A x \in S :
       Parent(r, x) = r[t].tgid /\ r[t].state = "WAITING" /\ r[t].reason = "child"
         /\ (r[t].wtid = NONE \/ (r[t].wtid = x /\ r[t].wgen = r[x].gen))
         => q[t].state = "RUNNING"

\* What it does to a task t of S.
Finished(r, q, me, waitable, t) ==
  /\ q[t].gen = r[t].gen /\ ~q[t].pend
  /\ IF waitable \/ t = me
     THEN /\ q[t].kind = r[t].kind /\ q[t].tgid = r[t].tgid /\ q[t].ptid = r[t].ptid
          /\ q[t].joinable = r[t].joinable /\ q[t].lgen = r[t].lgen /\ q[t].pgen = r[t].pgen
          /\ q[t].state = (IF waitable THEN "DIED" ELSE "WILL_EMPTY") /\ ~q[t].mem
          /\ q[t].call = "user" /\ q[t].owner = NONE /\ q[t].depth = 0
     ELSE q[t].state = "EMPTY"

\* finish_task: what it does to the tasks it finishes, and to all others.
LEMMA FinishLemma ==
  ASSUME NEW r \in [Slots -> Record], NEW S \in SUBSET Slots, NEW me, NEW waitable \in BOOLEAN,
         NEW q, q = Finish(r, S, me, waitable)
  PROVE  /\ q \in [Slots -> Record]
         /\ \A t \in Slots \ S : Spared(r, q, S, t)
         /\ \A t \in S : Finished(r, q, me, waitable, t)
<1> DEFINE r1 == LockFreed(r, S)
           r2 == [t \in Slots |-> IF t \in S THEN Cleared(r1[t]) ELSE r1[t]]
           U == UNION {ChildWaiters(r2, t) : t \in S}
           r3 == Run(r2, U)
<1>1. q = [t \in Slots |->
             IF t \notin S THEN r3[t]
             ELSE IF waitable THEN Entering(r3[t], "DIED")
             ELSE IF t = me THEN Entering(r3[t], "WILL_EMPTY")
             ELSE Empty(t, r[t].gen)]
  BY DEF Finish, Entering
<1>2. r1 \in [Slots -> Record] BY LockFreedLemma
<1>3. r2 \in [Slots -> Record] BY <1>2, ClearedLemma
<1>4. \A t \in Slots : r2[t] = IF t \in S THEN Cleared(r1[t]) ELSE r1[t] OBVIOUS
<1>5. \A t \in U : r2[t].state = "WAITING" /\ r2[t].reason = "child" BY DEF ChildWaiters
<1>6. ASSUME NEW t \in Slots, NEW x \in S, r2[t].state = "WAITING", r2[t].reason = "child",
             Parent(r2, x) = r2[t].tgid,
             r2[t].wtid = NONE \/ (r2[t].wtid = x /\ r2[t].wgen = r2[x].gen)
      PROVE  t \in U
  <2>1. r2[t].tgid \in Slots BY <1>3 DEF Record
  <2>2. Parent(r2, x) \notin {NONE, REAPER} BY <1>6, <2>1, LifecycleConstants DEF NONE, REAPER
  <2>3. t \in ChildWaiters(r2, x) BY <1>6, <2>2 DEF ChildWaiters, InUse
  <2> QED BY <2>3
<1> HIDE DEF r1, r2, U
<1>7. /\ r3 \in [Slots -> Record]
      /\ \A t \in Slots : /\ t \notin U => r3[t] = r2[t]
                          /\ t \in U => r3[t] = Ran(r2[t])
  BY <1>3, RunLemma
<1> HIDE DEF r3
<1>8. \A t \in Slots : Empty(t, r[t].gen) \in Record BY EmptyRecord DEF Record
<1>9. q \in [Slots -> Record]
  BY <1>1, <1>7, <1>8, EnteringLemma DEF States
<1>10. \A t \in Slots : Like(r1[t], r[t]) BY LockFreedLemma DEF r1
<1>11. ASSUME NEW t \in Slots \ S PROVE Spared(r, q, S, t)
  <2>1. q[t] = r3[t] /\ r2[t] = r1[t] BY <1>1, <1>4
  <2>2. /\ Like(r1[t], r[t]) /\ Awake(r1[t], r[t])
        /\ \/ r1[t].owner = r[t].owner /\ r1[t].depth = r[t].depth
           \/ r[t].owner \in S /\ r1[t].owner = NONE /\ r1[t].depth = 0
        /\ OwnedBy(r, S, t) => r1[t].owner = NONE
        /\ OwnedBy(r, S, r[t].tgid) /\ r[t].state = "WAITING" /\ r[t].reason = "lock"
                   => r1[t].state = "RUNNING"
        /\ r[t].state = "WAITING" /\ r[t].reason # "lock" => r1[t].state = "WAITING"
    BY LockFreedLemma DEF r1
  <2>3. \/ t \notin U /\ q[t] = r1[t]
        \/ /\ t \in U /\ Like(q[t], r1[t]) /\ q[t].owner = r1[t].owner /\ q[t].depth = r1[t].depth
           /\ q[t].state = "RUNNING" /\ q[t].reason = "none" /\ r1[t].state = "WAITING"
    BY <2>1, <1>2, <1>5, <1>7, RanLemma
  <2>4. Like(q[t], r[t]) /\ Awake(q[t], r[t]) /\ q[t].owner = r1[t].owner /\ q[t].depth = r1[t].depth
    BY <2>2, <2>3 DEF Like, Awake
  <2>5. ASSUME NEW x \in S, Parent(r, x) = r[t].tgid, r[t].state = "WAITING", r[t].reason = "child",
               r[t].wtid = NONE \/ (r[t].wtid = x /\ r[t].wgen = r[x].gen)
        PROVE  q[t].state = "RUNNING"
    <3>1. r1[t].state = "WAITING" /\ r1[t].reason = "child" BY <2>2, <2>5 DEF Awake
    <3>2. /\ r2[x].kind = r[x].kind /\ r2[x].tgid = r[x].tgid /\ r2[x].ptid = r[x].ptid
          /\ r2[x].gen = r[x].gen
      BY <1>2, <1>4, <1>10, ClearedLemma DEF Like
    <3>3. Parent(r2, x) = r2[t].tgid BY <2>1, <2>2, <2>5, <3>2 DEF Parent, Like
    <3>4. r2[t].wtid = NONE \/ (r2[t].wtid = x /\ r2[t].wgen = r2[x].gen)
      BY <2>1, <2>2, <2>5, <3>2 DEF Like
    <3>5. t \in U BY <1>6, <2>1, <3>1, <3>3, <3>4
    <3> QED BY <2>3, <3>5
  <2>6. OwnedBy(r, S, r[t].tgid) /\ r[t].state = "WAITING" /\ r[t].reason = "lock"
          => q[t].state = "RUNNING"
    BY <2>2, <2>3
  <2> QED BY <2>2, <2>4, <2>5, <2>6 DEF Spared
<1>12. ASSUME NEW t \in S PROVE Finished(r, q, me, waitable, t)
  <2>1. r2[t] = Cleared(r1[t]) /\ t \in Slots BY <1>4
  <2>2. /\ r2[t].gen = r[t].gen /\ r2[t].kind = r[t].kind /\ r2[t].tgid = r[t].tgid
        /\ r2[t].ptid = r[t].ptid /\ r2[t].joinable = r[t].joinable
        /\ r2[t].lgen = r[t].lgen /\ r2[t].pgen = r[t].pgen
        /\ ~r2[t].pend /\ ~r2[t].mem /\ r2[t].call = "user" /\ r2[t].owner = NONE /\ r2[t].depth = 0
        /\ r2[t].reason = "none"
    BY <1>2, <1>10, <2>1, ClearedLemma DEF Like
  <2>3. r3[t] = r2[t] /\ r3[t] \in Record BY <1>5, <1>7, <2>2
  <2>4. CASE waitable \/ t = me
    <3> DEFINE s == IF waitable THEN "DIED" ELSE "WILL_EMPTY"
    <3>1. q[t] = Entering(r3[t], s) BY <1>1, <2>4
    <3>2. /\ Like(q[t], r2[t]) /\ q[t].owner = r2[t].owner /\ q[t].depth = r2[t].depth
          /\ q[t].state = s
      BY <2>3, <3>1, EnteringLemma DEF States
    <3>3. /\ q[t].gen = r[t].gen /\ ~q[t].pend /\ q[t].kind = r[t].kind /\ q[t].tgid = r[t].tgid
          /\ q[t].ptid = r[t].ptid /\ q[t].lgen = r[t].lgen /\ q[t].pgen = r[t].pgen
          /\ ~q[t].mem /\ q[t].call = "user" /\ q[t].owner = NONE /\ q[t].depth = 0
      BY <2>2, <3>2 DEF Like
    <3>4. q[t].joinable = r[t].joinable BY <2>2, <3>2 DEF Like
    <3> QED BY <2>4, <3>2, <3>3, <3>4 DEF Finished
  <2>6. CASE ~waitable /\ t # me
    <3>1. q[t] = Empty(t, r[t].gen) BY <1>1, <2>6
    <3>2. q[t].gen = r[t].gen /\ q[t].state = "EMPTY" /\ ~q[t].pend BY <3>1 DEF Empty
    <3> QED BY <2>6, <3>2 DEF Finished
  <2> QED BY <2>4, <2>6
<1> QED BY <1>9, <1>11, <1>12

\* The slots on their way out: on a CPU, or, for those in R, through with it.
Leaving(r, R) ==
  \A t \in Slots : /\ r[t].state = "WILL_EMPTY" => OnCpu(t) /\ ~r[t].mem
                   /\ r[t].state = "READY" <=> t \in R

\* The parts of the invariant that a teardown keeps.
Registry(r, X, P, me, R) ==
  /\ r \in [Slots -> Record]
  /\ Groups(r) /\ Parents(r) /\ Locks(r) /\ Sleepers(r, X) /\ Pending(r, P)
  /\ Running(r, me) /\ Leaving(r, R)

\* When finish_task may finish the tasks of S.
Finishable(r, S, me, waitable) ==
  \A t \in S :
    /\ r[t].state # "READY" /\ (OnCpu(t) <=> t = me)
    /\ r[t].kind = "PROCESS" =>
         /\ Threads(r, t) = {}
         /\ \A u \in Slots : InUse(r, u) /\ r[u].kind = "PROCESS" => r[u].ptid # t
    /\ waitable => InUse(r, t) /\ IF r[t].kind = "THREAD" THEN r[t].joinable
                                                        ELSE r[t].ptid \notin Nobody

\* finish_task keeps the parts of the invariant.
LEMMA FinishKeeps ==
  ASSUME NEW r, NEW X, NEW P, NEW me, NEW R, Registry(r, X, P, me, R),
         NEW S \in SUBSET Slots, NEW waitable \in BOOLEAN, Finishable(r, S, me, waitable),
         NEW q, q = Finish(r, S, me, waitable)
  PROVE  Registry(q, X, P, me, R)
<1>1. /\ r \in [Slots -> Record] /\ q \in [Slots -> Record]
      /\ \A t \in Slots \ S : Spared(r, q, S, t)
      /\ \A t \in S : Finished(r, q, me, waitable, t)
  <2>1. r \in [Slots -> Record] BY DEF Registry
  <2> QED BY <2>1, FinishLemma
<1>2. ASSUME NEW t \in Slots, InUse(q, t), t \notin S
      PROVE  InUse(r, t) /\ (Alive(r, t) <=> Alive(q, t))
  BY <1>1, <1>2 DEF Spared, Awake, InUse, Alive
<1>3. ASSUME NEW t \in Slots, t \notin S, InUse(r, t)
      PROVE  InUse(q, t) /\ (Alive(r, t) <=> Alive(q, t))
  BY <1>1, <1>3 DEF Spared, Awake, InUse, Alive
<1>4. ASSUME NEW t \in S, InUse(q, t)
      PROVE  waitable /\ InUse(r, t) /\ q[t].state = "DIED"
  <2>1. waitable BY <1>1, <1>4 DEF Finished, InUse
  <2> QED BY <1>1, <2>1 DEF Finished, Finishable
<1>5. ASSUME NEW t \in Slots, NEW l \in Slots, InUse(r, t), r[t].kind = "THREAD", r[t].tgid = l
      PROVE  l \notin S
  <2>1. r[l].kind = "PROCESS" BY <1>5 DEF Registry, Groups, IsProcess
  <2>2. t \in Threads(r, l) BY <1>5 DEF Threads
  <2> QED BY <2>1, <2>2 DEF Finishable
<1>6. ASSUME NEW t \in Slots, InUse(r, t), r[t].kind = "PROCESS", r[t].ptid \notin Nobody
      PROVE  r[t].ptid \in Slots \ S
  <2>1. IsProcess(r, r[t].ptid) BY <1>6 DEF Registry, Parents
  <2>2. r[t].ptid \in Slots /\ r[r[t].ptid].kind = "PROCESS" BY <2>1 DEF IsProcess, Alive, InUse
  <2> QED BY <1>6, <2>2 DEF Finishable
<1>7. Groups(q)
  <2> SUFFICES ASSUME NEW t \in Slots, InUse(q, t)
               PROVE /\ q[t].mem <=> q[t].state # "DIED"
                     /\ q[t].kind = "PROCESS" => q[t].tgid = t /\ ~q[t].joinable
                     /\ q[t].kind = "THREAD" => IsProcess(q, q[t].tgid) /\ q[q[t].tgid].gen = q[t].lgen
    BY DEF Groups
  <2>1. /\ InUse(r, t) /\ q[t].kind = r[t].kind /\ q[t].tgid = r[t].tgid /\ q[t].lgen = r[t].lgen
        /\ q[t].joinable = r[t].joinable
    BY <1>1, <1>2, <1>4 DEF Spared, Like, Finished
  <2>2. /\ r[t].mem <=> r[t].state # "DIED"
        /\ r[t].kind = "PROCESS" => r[t].tgid = t /\ ~r[t].joinable
        /\ r[t].kind = "THREAD" => IsProcess(r, r[t].tgid) /\ r[r[t].tgid].gen = r[t].lgen
    BY <2>1 DEF Registry, Groups
  <2>3. q[t].mem <=> q[t].state # "DIED"
    <3>1. CASE t \in S BY <1>1, <1>4, <3>1 DEF Finished
    <3>2. CASE t \notin S BY <1>1, <2>2, <3>2 DEF Spared, Like, Awake
    <3> QED BY <3>1, <3>2
  <2>4. ASSUME q[t].kind = "THREAD" PROVE IsProcess(q, q[t].tgid) /\ q[q[t].tgid].gen = q[t].lgen
    <3>1. r[t].tgid \in Slots BY <1>1, <2>1 DEF Record
    <3>2. r[t].tgid \notin S BY <1>5, <2>1, <2>4, <3>1
    <3>3. Alive(q, r[t].tgid) BY <1>3, <2>1, <2>2, <2>4, <3>1, <3>2 DEF IsProcess, Alive
    <3>4. Like(q[r[t].tgid], r[r[t].tgid]) BY <1>1, <3>1, <3>2 DEF Spared
    <3> QED BY <2>1, <2>2, <2>4, <3>3, <3>4 DEF IsProcess, Like
  <2> QED BY <2>1, <2>2, <2>3, <2>4
<1>8. Parents(q)
  <2> SUFFICES ASSUME NEW t \in Slots, InUse(q, t)
               PROVE /\ q[t].kind = "PROCESS" /\ q[t].ptid \notin Nobody =>
                           IsProcess(q, q[t].ptid) /\ q[q[t].ptid].gen = q[t].pgen
                     /\ q[t].state = "DIED" =>
                          IF q[t].kind = "THREAD" THEN q[t].joinable ELSE q[t].ptid \notin Nobody
    BY DEF Parents
  <2>1. /\ InUse(r, t) /\ q[t].kind = r[t].kind /\ q[t].ptid = r[t].ptid /\ q[t].pgen = r[t].pgen
        /\ q[t].joinable = r[t].joinable
    BY <1>1, <1>2, <1>4 DEF Spared, Like, Finished
  <2>2. ASSUME q[t].kind = "PROCESS", q[t].ptid \notin Nobody
        PROVE  IsProcess(q, q[t].ptid) /\ q[q[t].ptid].gen = q[t].pgen
    <3>1. IsProcess(r, r[t].ptid) /\ r[r[t].ptid].gen = r[t].pgen
      BY <2>1, <2>2 DEF Registry, Parents
    <3>2. r[t].ptid \in Slots \ S BY <1>6, <2>1, <2>2
    <3>3. Alive(q, r[t].ptid) BY <1>3, <3>1, <3>2 DEF IsProcess, Alive
    <3>4. Like(q[r[t].ptid], r[r[t].ptid]) BY <1>1, <3>2 DEF Spared
    <3> QED BY <2>1, <3>1, <3>3, <3>4 DEF IsProcess, Like
  <2>3. ASSUME q[t].state = "DIED"
        PROVE  IF q[t].kind = "THREAD" THEN q[t].joinable ELSE q[t].ptid \notin Nobody
    <3>1. CASE t \in S BY <1>4, <2>1, <3>1 DEF Finishable
    <3>2. CASE t \notin S
      <4>1. r[t].state = "DIED" BY <1>1, <2>3, <3>2 DEF Spared, Awake
      <4> QED BY <2>1, <4>1 DEF Registry, Parents
    <3> QED BY <3>1, <3>2
  <2> QED BY <2>2, <2>3
<1>9. ASSUME NEW t \in Slots, t \notin S, InUse(r, t) PROVE r[t].tgid \in Slots \ S /\ InUse(r, r[t].tgid)
  <2>1. r[t].tgid \in Slots /\ r[t].kind \in {"PROCESS", "THREAD"} BY <1>1 DEF Record
  <2>2. CASE r[t].kind = "PROCESS" BY <1>9, <2>2 DEF Registry, Groups
  <2>3. CASE r[t].kind = "THREAD"
    <3>1. IsProcess(r, r[t].tgid) BY <1>9, <2>3 DEF Registry, Groups
    <3> QED BY <1>5, <1>9, <2>1, <2>3, <3>1 DEF IsProcess, Alive
  <2> QED BY <2>1, <2>2, <2>3
<1>10. Locks(q)
  <2> SUFFICES ASSUME NEW t \in Slots, InUse(q, t)
               PROVE /\ q[t].owner # NONE => Alive(q, q[t].owner) /\ q[q[t].owner].tgid = t
                                               /\ q[t].depth > 0
                     /\ q[t].owner = NONE => q[t].depth = 0
                     /\ q[t].call = "lock" => MaxDepth > 0 /\ q[q[t].tgid].owner # t
    BY DEF Locks
  <2>1. CASE t \in S BY <1>1, <1>4, <2>1 DEF Finished
  <2>2. CASE t \notin S
    <3>1. InUse(r, t) /\ Spared(r, q, S, t) BY <1>1, <1>2, <2>2
    <3>2. /\ r[t].owner # NONE => Alive(r, r[t].owner) /\ r[r[t].owner].tgid = t /\ r[t].depth > 0
          /\ r[t].owner = NONE => r[t].depth = 0
          /\ r[t].call = "lock" => MaxDepth > 0 /\ r[r[t].tgid].owner # t
      BY <3>1 DEF Registry, Locks
    <3>3. ASSUME q[t].owner # NONE
          PROVE  Alive(q, q[t].owner) /\ q[q[t].owner].tgid = t /\ q[t].depth > 0
      <4>1. q[t].owner = r[t].owner /\ q[t].depth = r[t].depth BY <3>1, <3>3 DEF Spared
      <4>2. r[t].owner \in Slots BY <3>2, <3>3, <4>1 DEF Alive, InUse
      <4>3. r[t].owner \notin S BY <3>1, <3>2, <3>3, <4>1 DEF Spared, OwnedBy
      <4>4. Alive(q, r[t].owner) BY <1>3, <3>2, <3>3, <4>1, <4>2, <4>3 DEF Alive
      <4>5. Like(q[r[t].owner], r[r[t].owner]) BY <1>1, <4>2, <4>3 DEF Spared
      <4> QED BY <3>2, <3>3, <4>1, <4>4, <4>5 DEF Like
    <3>4. q[t].owner = NONE => q[t].depth = 0 BY <3>1, <3>2 DEF Spared
    <3>5. ASSUME q[t].call = "lock" PROVE MaxDepth > 0 /\ q[q[t].tgid].owner # t
      <4>1. r[t].call = "lock" /\ q[t].tgid = r[t].tgid BY <3>1, <3>5 DEF Spared, Like
      <4>2. r[t].tgid \in Slots \ S BY <1>9, <2>2, <3>1
      <4>3. q[r[t].tgid].owner \in {r[r[t].tgid].owner, NONE} BY <1>1, <4>2 DEF Spared
      <4>4. t # NONE BY LifecycleConstants DEF NONE
      <4> QED BY <3>2, <4>1, <4>3, <4>4
    <3> QED BY <3>3, <3>4, <3>5
  <2> QED BY <2>1, <2>2
<1>11. ASSUME NEW w \in Slots, q[w].state = "WAITING"
       PROVE  /\ w \notin S /\ Spared(r, q, S, w) /\ r[w].state = "WAITING" /\ q[w].reason = r[w].reason
              /\ InUse(r, w) /\ Like(q[w], r[w])
  <2>1. w \notin S BY <1>1, <1>11 DEF Finished
  <2> QED BY <1>1, <1>11, <2>1 DEF Spared, Awake, InUse
<1>12. Sleepers(q, X)
  <2> SUFFICES ASSUME NEW w \in Slots, q[w].state = "WAITING"
               PROVE  IF q[w].pend \/ q[w].call = "group"
                      THEN q[w].reason = "child" /\ q[w].wtid = NONE /\ HasThreads(q, w)
                      ELSE IF q[w].call = "lock"
                      THEN q[w].reason = "lock" /\ q[q[w].tgid].owner \notin {NONE, w}
                      ELSE /\ q[w].call \in {"wait", "join"} /\ q[w].reason = "child"
                           /\ w \notin X => Target(q, w)
    BY DEF Sleepers
  <2>1. /\ w \notin S /\ Spared(r, q, S, w) /\ r[w].state = "WAITING" /\ q[w].reason = r[w].reason
        /\ InUse(r, w) /\ Like(q[w], r[w])
    BY <1>11
  <2>2. IF r[w].pend \/ r[w].call = "group"
        THEN r[w].reason = "child" /\ r[w].wtid = NONE /\ HasThreads(r, w)
        ELSE IF r[w].call = "lock"
        THEN r[w].reason = "lock" /\ r[r[w].tgid].owner \notin {NONE, w}
        ELSE /\ r[w].call \in {"wait", "join"} /\ r[w].reason = "child"
             /\ w \notin X => Target(r, w)
    BY <2>1 DEF Registry, Sleepers
  <2>3. CASE r[w].pend \/ r[w].call = "group"
    <3>1. PICK s \in Slots \ {w} : /\ InUse(r, s) /\ r[s].kind = "THREAD" /\ r[s].tgid = r[w].tgid
                                   /\ r[s].mem
      BY <2>2, <2>3 DEF HasThreads
    <3>2. s \notin S BY <2>1, <2>2, <2>3, <3>1 DEF Spared, Parent
    <3>3. InUse(q, s) /\ Like(q[s], r[s]) BY <1>1, <1>3, <3>1, <3>2 DEF Spared
    <3>4. HasThreads(q, w) BY <2>1, <3>1, <3>3 DEF HasThreads, Like
    <3> QED BY <2>1, <2>2, <2>3, <3>4 DEF Like
  <2>4. CASE ~(r[w].pend \/ r[w].call = "group") /\ r[w].call = "lock"
    <3>1. r[w].reason = "lock" /\ r[r[w].tgid].owner \notin {NONE, w} BY <2>2, <2>4
    <3>2. r[w].tgid \in Slots \ S /\ InUse(r, r[w].tgid) BY <1>9, <2>1
    <3>3. r[r[r[w].tgid].owner].tgid = r[w].tgid BY <3>1, <3>2 DEF Registry, Locks
    <3>4. r[r[w].tgid].owner \notin S
      <4>1. ~OwnedBy(r, S, r[w].tgid) BY <2>1, <3>1 DEF Spared
      <4> QED BY <4>1, <3>2, <3>3 DEF OwnedBy
    <3>5. q[r[w].tgid].owner = r[r[w].tgid].owner BY <1>1, <3>2, <3>4 DEF Spared
    <3> QED BY <2>1, <2>4, <3>1, <3>5 DEF Like
  <2>5. CASE ~(r[w].pend \/ r[w].call = "group") /\ r[w].call # "lock"
    <3>1. /\ r[w].call \in {"wait", "join"} /\ r[w].reason = "child"
          /\ w \notin X => Target(r, w)
      BY <2>2, <2>5
    <3>2. ASSUME w \notin X PROVE Target(q, w)
      <4> DEFINE x == r[w].wtid
      <4>1. /\ Alive(r, x) /\ r[x].gen = r[w].wgen
            /\ IF r[w].call = "join" THEN r[x].kind = "THREAD" /\ r[x].tgid = r[w].tgid
                                     ELSE r[x].kind = "PROCESS" /\ r[x].ptid = r[w].tgid
        BY <3>1, <3>2 DEF Target
      <4>2. x \in Slots BY <4>1 DEF Alive, InUse
      <4>3. Parent(r, x) = r[w].tgid BY <4>1 DEF Parent
      <4>4. x \notin S BY <2>1, <3>1, <4>1, <4>3 DEF Spared
      <4>5. Alive(q, x) /\ Like(q[x], r[x]) BY <1>1, <1>3, <4>1, <4>2, <4>4 DEF Alive, Spared
      <4> QED BY <2>1, <4>1, <4>5 DEF Target, Like
    <3> QED BY <2>1, <2>5, <3>1, <3>2 DEF Like
  <2> QED BY <2>3, <2>4, <2>5
<1>13. Pending(q, P)
  <2> SUFFICES ASSUME NEW t \in Slots, q[t].pend
               PROVE  /\ Alive(q, t)
                      /\ \/ OnCpu(t) /\ q[t].state = "RUNNING" /\ t \notin P
                         \/ /\ q[t].kind = "PROCESS"
                            /\ \A s \in Threads(q, t) : q[s].state # "DIED" => q[s].pend /\ OnCpu(s)
    BY DEF Pending
  <2>1. t \notin S BY <1>1 DEF Finished
  <2>2. Spared(r, q, S, t) /\ r[t].pend BY <1>1, <2>1 DEF Spared, Like
  <2>3. /\ Alive(r, t)
        /\ \/ OnCpu(t) /\ r[t].state = "RUNNING" /\ t \notin P
           \/ /\ r[t].kind = "PROCESS"
              /\ \A s \in Threads(r, t) : r[s].state # "DIED" => r[s].pend /\ OnCpu(s)
    BY <2>2 DEF Registry, Pending
  <2>4. Alive(q, t) BY <1>3, <2>1, <2>3 DEF Alive
  <2>5. r[t].state = "RUNNING" => q[t].state = "RUNNING" BY <2>2 DEF Spared, Awake
  <2>6. ASSUME NEW s \in Threads(q, t), q[s].state # "DIED"
        PROVE  s \in Threads(r, t) /\ r[s].state # "DIED" /\ q[s].pend = r[s].pend
    <3>1. s \in Slots /\ InUse(q, s) /\ q[s].kind = "THREAD" /\ q[s].tgid = t BY DEF Threads
    <3>2. s \notin S BY <1>4, <2>6, <3>1
    <3>3. InUse(r, s) /\ Spared(r, q, S, s) BY <1>1, <1>2, <3>1, <3>2
    <3> QED BY <2>6, <3>1, <3>3 DEF Threads, Spared, Like, Awake
  <2>7. q[t].kind = r[t].kind BY <2>2 DEF Spared, Like
  <2> QED BY <2>3, <2>4, <2>5, <2>6, <2>7
<1>14. Running(q, me)
  <2> SUFFICES ASSUME NEW t \in Slots, OnCpu(t), t # me PROVE q[t].state \in Executing
    BY DEF Running
  <2>1. t \notin S BY DEF Finishable
  <2>2. r[t].state \in Executing BY DEF Registry, Running
  <2> QED BY <1>1, <2>1, <2>2 DEF Spared, Awake, Executing
<1>15. Leaving(q, R)
  <2> SUFFICES ASSUME NEW t \in Slots
               PROVE  /\ q[t].state = "WILL_EMPTY" => OnCpu(t) /\ ~q[t].mem
                      /\ q[t].state = "READY" <=> t \in R
    BY DEF Leaving
  <2>1. /\ r[t].state = "WILL_EMPTY" => OnCpu(t) /\ ~r[t].mem
        /\ r[t].state = "READY" <=> t \in R
    BY DEF Registry, Leaving
  <2>2. CASE t \in S BY <1>1, <2>1, <2>2 DEF Finished, Finishable
  <2>3. CASE t \notin S BY <1>1, <2>1, <2>3 DEF Spared, Awake, Like
  <2> QED BY <2>2, <2>3
<1> QED BY <1>1, <1>7, <1>8, <1>10, <1>12, <1>13, <1>14, <1>15 DEF Registry

\* A step that frees the slots in D, hands children to the reaper, asks tasks on
\* CPUs to terminate and detaches threads, and leaves everything else alone.
Alike(y, x) ==
  /\ y.gen = x.gen /\ y.kind = x.kind /\ y.tgid = x.tgid /\ y.mem = x.mem
  /\ y.wtid = x.wtid /\ y.wgen = x.wgen /\ y.call = x.call /\ y.lgen = x.lgen
  /\ y.pgen = x.pgen /\ y.state = x.state /\ y.reason = x.reason
  /\ y.owner = x.owner /\ y.depth = x.depth

\* t was dead and is free; the records that a trimming step leaves.
Freed(r, q, t) ==
  ~Alive(r, t) /\ r[t].state # "WILL_EMPTY" /\ q[t].state = "EMPTY" /\ ~q[t].pend
Adjusted(r, q, P, t) ==
  /\ Alike(q[t], r[t])
  /\ q[t].joinable = r[t].joinable \/ (~q[t].joinable /\ r[t].state # "DIED")
  /\ r[t].pend => q[t].pend
  /\ q[t].pend => r[t].pend \/ (OnCpu(t) /\ r[t].state = "RUNNING" /\ t \notin P)
  /\ \/ q[t].ptid = r[t].ptid
     \/ q[t].ptid = REAPER /\ (r[t].state # "DIED" \/ r[t].kind = "THREAD")

\* A step that frees dead slots, detaches, asks tasks on a CPU to terminate and gives
\* children to the reaper keeps the parts of the invariant.
LEMMA TrimKeeps ==
  ASSUME NEW r, NEW X, NEW P, NEW me, NEW R, Registry(r, X, P, me, R),
         NEW q \in [Slots -> Record], NEW D,
         \A t \in Slots : IF t \in D THEN Freed(r, q, t) ELSE Adjusted(r, q, P, t),
         \A w \in Slots \ X :
           r[w].state = "WAITING" /\ r[w].call = "wait" /\ ~r[w].pend /\ Alive(r, r[w].wtid)
             => q[r[w].wtid].ptid = r[r[w].wtid].ptid
  PROVE  Registry(q, X, P, me, R \ D)
<1>1. r \in [Slots -> Record] BY DEF Registry
<1>2. ASSUME NEW t \in Slots, InUse(q, t) PROVE t \notin D /\ Adjusted(r, q, P, t) /\ InUse(r, t)
  <2>1. t \notin D BY <1>2 DEF Freed, InUse
  <2> QED BY <1>2, <2>1 DEF Adjusted, Alike, InUse
<1>3. ASSUME NEW t, Alive(r, t) PROVE Alive(q, t) /\ Adjusted(r, q, P, t) /\ t \in Slots
  <2>1. t \in Slots /\ t \notin D BY <1>3 DEF Freed, Alive, InUse
  <2> QED BY <1>3, <2>1 DEF Adjusted, Alike, InUse, Alive
<1>4. ASSUME NEW g, IsProcess(r, g) PROVE IsProcess(q, g) /\ q[g].gen = r[g].gen
  BY <1>3, <1>4 DEF IsProcess, Adjusted, Alike
<1>5. Groups(q)
  <2> SUFFICES ASSUME NEW t \in Slots, InUse(q, t)
               PROVE /\ q[t].mem <=> q[t].state # "DIED"
                     /\ q[t].kind = "PROCESS" => q[t].tgid = t /\ ~q[t].joinable
                     /\ q[t].kind = "THREAD" => IsProcess(q, q[t].tgid) /\ q[q[t].tgid].gen = q[t].lgen
    BY DEF Groups
  <2>1. Adjusted(r, q, P, t) /\ InUse(r, t) BY <1>2
  <2>2. /\ r[t].mem <=> r[t].state # "DIED"
        /\ r[t].kind = "PROCESS" => r[t].tgid = t /\ ~r[t].joinable
        /\ r[t].kind = "THREAD" => IsProcess(r, r[t].tgid) /\ r[r[t].tgid].gen = r[t].lgen
    BY <2>1 DEF Registry, Groups
  <2>3. q[t].kind = "PROCESS" => ~q[t].joinable BY <2>1, <2>2 DEF Adjusted, Alike
  <2>4. r[t].kind = "THREAD" => IsProcess(q, r[t].tgid) /\ q[r[t].tgid].gen = r[t].lgen
    BY <1>4, <2>2
  <2> QED BY <2>1, <2>2, <2>3, <2>4 DEF Adjusted, Alike
<1>6. Parents(q)
  <2> SUFFICES ASSUME NEW t \in Slots, InUse(q, t)
               PROVE /\ q[t].kind = "PROCESS" /\ q[t].ptid \notin Nobody =>
                           IsProcess(q, q[t].ptid) /\ q[q[t].ptid].gen = q[t].pgen
                     /\ q[t].state = "DIED" =>
                          IF q[t].kind = "THREAD" THEN q[t].joinable ELSE q[t].ptid \notin Nobody
    BY DEF Parents
  <2>1. Adjusted(r, q, P, t) /\ InUse(r, t) BY <1>2
  <2>2. /\ r[t].kind = "PROCESS" /\ r[t].ptid \notin Nobody =>
              IsProcess(r, r[t].ptid) /\ r[r[t].ptid].gen = r[t].pgen
        /\ r[t].state = "DIED" =>
             IF r[t].kind = "THREAD" THEN r[t].joinable ELSE r[t].ptid \notin Nobody
    BY <2>1 DEF Registry, Parents
  <2>3. q[t].ptid \notin Nobody => q[t].ptid = r[t].ptid BY <2>1 DEF Adjusted, Nobody
  <2>4. q[t].kind = r[t].kind /\ q[t].pgen = r[t].pgen /\ q[t].state = r[t].state
    BY <2>1 DEF Adjusted, Alike
  <2>5. ASSUME q[t].kind = "PROCESS", q[t].ptid \notin Nobody
        PROVE  IsProcess(q, q[t].ptid) /\ q[q[t].ptid].gen = q[t].pgen
    BY <1>4, <2>2, <2>3, <2>4, <2>5
  <2>6. /\ q[t].state = "DIED" => q[t].joinable = r[t].joinable
        /\ q[t].state = "DIED" /\ r[t].kind # "THREAD" => q[t].ptid = r[t].ptid
    BY <2>1, <2>4 DEF Adjusted
  <2> QED BY <2>2, <2>4, <2>5, <2>6
<1>7. Locks(q)
  <2> SUFFICES ASSUME NEW t \in Slots, InUse(q, t)
               PROVE /\ q[t].owner # NONE => Alive(q, q[t].owner) /\ q[q[t].owner].tgid = t
                                               /\ q[t].depth > 0
                     /\ q[t].owner = NONE => q[t].depth = 0
                     /\ q[t].call = "lock" => MaxDepth > 0 /\ q[q[t].tgid].owner # t
    BY DEF Locks
  <2>1. Adjusted(r, q, P, t) /\ InUse(r, t) BY <1>2
  <2>2. /\ r[t].owner # NONE => Alive(r, r[t].owner) /\ r[r[t].owner].tgid = t /\ r[t].depth > 0
        /\ r[t].owner = NONE => r[t].depth = 0
        /\ r[t].call = "lock" => MaxDepth > 0 /\ r[r[t].tgid].owner # t
    BY <2>1 DEF Registry, Locks
  <2>3. q[t].owner = r[t].owner /\ q[t].depth = r[t].depth /\ q[t].call = r[t].call /\ q[t].tgid = r[t].tgid
    BY <2>1 DEF Adjusted, Alike
  <2>4. r[t].owner # NONE => Alive(q, r[t].owner) /\ q[r[t].owner].tgid = t
    BY <1>3, <2>2 DEF Adjusted, Alike
  <2>5. q[r[t].tgid].owner = r[r[t].tgid].owner
    <3>1. r[t].kind \in {"PROCESS", "THREAD"} BY <1>1 DEF Record
    <3>2. CASE r[t].kind = "PROCESS"
      <4>1. r[t].tgid = t BY <2>1, <3>2 DEF Registry, Groups
      <4> QED BY <2>3, <4>1
    <3>3. CASE r[t].kind = "THREAD"
      <4>1. Alive(r, r[t].tgid) BY <2>1, <3>3 DEF Registry, Groups, IsProcess
      <4> QED BY <1>3, <4>1 DEF Adjusted, Alike
    <3> QED BY <3>1, <3>2, <3>3
  <2> QED BY <2>2, <2>3, <2>4, <2>5
<1>8. Sleepers(q, X)
  <2> SUFFICES ASSUME NEW w \in Slots, q[w].state = "WAITING"
               PROVE  IF q[w].pend \/ q[w].call = "group"
                      THEN q[w].reason = "child" /\ q[w].wtid = NONE /\ HasThreads(q, w)
                      ELSE IF q[w].call = "lock"
                      THEN q[w].reason = "lock" /\ q[q[w].tgid].owner \notin {NONE, w}
                      ELSE /\ q[w].call \in {"wait", "join"} /\ q[w].reason = "child"
                           /\ w \notin X => Target(q, w)
    BY DEF Sleepers
  <2>1. Adjusted(r, q, P, w) BY <1>2 DEF InUse
  <2>2. /\ r[w].state = "WAITING" /\ q[w].pend = r[w].pend /\ q[w].call = r[w].call
        /\ q[w].reason = r[w].reason /\ q[w].wtid = r[w].wtid /\ q[w].tgid = r[w].tgid
        /\ q[w].wgen = r[w].wgen
    <3>1. r[w].pend \in BOOLEAN /\ q[w].pend \in BOOLEAN BY <1>1 DEF Record
    <3> QED BY <2>1, <3>1 DEF Adjusted, Alike
  <2>3. IF r[w].pend \/ r[w].call = "group"
        THEN r[w].reason = "child" /\ r[w].wtid = NONE /\ HasThreads(r, w)
        ELSE IF r[w].call = "lock"
        THEN r[w].reason = "lock" /\ r[r[w].tgid].owner \notin {NONE, w}
        ELSE /\ r[w].call \in {"wait", "join"} /\ r[w].reason = "child"
             /\ w \notin X => Target(r, w)
    BY <2>2 DEF Registry, Sleepers
  <2>4. CASE r[w].pend \/ r[w].call = "group"
    <3>1. PICK s \in Slots \ {w} : /\ InUse(r, s) /\ r[s].kind = "THREAD" /\ r[s].tgid = r[w].tgid
                                   /\ r[s].mem
      BY <2>3, <2>4 DEF HasThreads
    <3>2. Alive(r, s) BY <3>1 DEF Registry, Groups, Alive
    <3>3. InUse(q, s) /\ Adjusted(r, q, P, s) BY <1>3, <3>2 DEF Alive
    <3>4. q[s].kind = "THREAD" /\ q[s].tgid = r[w].tgid /\ q[s].mem
      BY <3>1, <3>3 DEF Adjusted, Alike
    <3>5. HasThreads(q, w) BY <2>2, <3>1, <3>3, <3>4 DEF HasThreads
    <3> QED BY <2>2, <2>3, <2>4, <3>5
  <2>5. CASE ~(r[w].pend \/ r[w].call = "group") /\ r[w].call = "lock"
    <3>1. r[w].tgid \in Slots /\ r[r[w].tgid].owner # NONE BY <1>1, <2>3, <2>5 DEF Record
    <3>2. q[r[w].tgid].owner = r[r[w].tgid].owner
      <4>0. r[w].kind \in {"PROCESS", "THREAD"} /\ InUse(r, w) BY <1>1, <2>2 DEF Record, InUse
      <4>1. CASE r[w].kind = "PROCESS" BY <2>1, <4>0, <4>1 DEF Registry, Groups, Adjusted, Alike
      <4>2. CASE r[w].kind = "THREAD"
        <5>1. Alive(r, r[w].tgid) BY <4>0, <4>2 DEF Registry, Groups, IsProcess
        <5> QED BY <1>3, <5>1 DEF Adjusted, Alike
      <4> QED BY <4>0, <4>1, <4>2
    <3> QED BY <2>2, <2>3, <2>5, <3>2
  <2>6. CASE ~(r[w].pend \/ r[w].call = "group") /\ r[w].call # "lock"
    <3>1. r[w].call \in {"wait", "join"} /\ r[w].reason = "child" /\ (w \notin X => Target(r, w))
      BY <2>3, <2>6
    <3>2. ASSUME w \notin X PROVE Target(q, w)
      <4> DEFINE x == r[w].wtid
      <4>1. /\ Alive(r, x) /\ r[x].gen = r[w].wgen
            /\ IF r[w].call = "join" THEN r[x].kind = "THREAD" /\ r[x].tgid = r[w].tgid
                                     ELSE r[x].kind = "PROCESS" /\ r[x].ptid = r[w].tgid
        BY <3>1, <3>2 DEF Target
      <4>2. Alive(q, x) /\ Adjusted(r, q, P, x) BY <1>3, <4>1
      <4>3. r[w].call = "wait" => q[x].ptid = r[x].ptid BY <2>2, <2>6, <3>2, <4>1
      <4>4. r[w].call = "join" \/ r[w].call = "wait" BY <3>1
      <4> QED BY <2>2, <4>1, <4>2, <4>3, <4>4 DEF Target, Adjusted, Alike
    <3> QED BY <2>2, <2>6, <3>1, <3>2
  <2> QED BY <2>4, <2>5, <2>6
<1>9. Pending(q, P)
  <2> SUFFICES ASSUME NEW t \in Slots, q[t].pend
               PROVE  /\ Alive(q, t)
                      /\ \/ OnCpu(t) /\ q[t].state = "RUNNING" /\ t \notin P
                         \/ /\ q[t].kind = "PROCESS"
                            /\ \A s \in Threads(q, t) : q[s].state # "DIED" => q[s].pend /\ OnCpu(s)
    BY DEF Pending
  <2>1. t \notin D /\ Adjusted(r, q, P, t) BY DEF Freed
  <2>2. CASE ~r[t].pend BY <2>1, <2>2 DEF Adjusted, Alike, Alive, InUse
  <2>3. CASE r[t].pend
    <3>1. /\ Alive(r, t)
          /\ \/ OnCpu(t) /\ r[t].state = "RUNNING" /\ t \notin P
             \/ /\ r[t].kind = "PROCESS"
                /\ \A s \in Threads(r, t) : r[s].state # "DIED" => r[s].pend /\ OnCpu(s)
      BY <2>3 DEF Registry, Pending
    <3>2. ASSUME NEW s \in Threads(q, t), q[s].state # "DIED"
          PROVE  s \in Threads(r, t) /\ r[s].state # "DIED" /\ (r[s].pend => q[s].pend)
      <4>1. s \in Slots /\ InUse(q, s) /\ q[s].kind = "THREAD" /\ q[s].tgid = t BY DEF Threads
      <4>2. InUse(r, s) /\ Adjusted(r, q, P, s) BY <1>2, <4>1
      <4> QED BY <3>2, <4>1, <4>2 DEF Threads, Adjusted, Alike
    <3>3. Alive(q, t) BY <1>3, <3>1
    <3>4. q[t].state = r[t].state /\ q[t].kind = r[t].kind BY <2>1 DEF Adjusted, Alike
    <3> QED BY <3>1, <3>2, <3>3, <3>4
  <2> QED BY <2>2, <2>3
<1>10. Running(q, me)
  <2> SUFFICES ASSUME NEW t \in Slots, OnCpu(t), t # me PROVE q[t].state \in Executing
    BY DEF Running
  <2>1. r[t].state \in Executing BY DEF Registry, Running
  <2>2. t \notin D BY <2>1 DEF Executing, Freed, Alive, InUse
  <2> QED BY <2>1, <2>2 DEF Adjusted, Alike
<1>11. Leaving(q, R \ D)
  <2> SUFFICES ASSUME NEW t \in Slots
               PROVE  /\ q[t].state = "WILL_EMPTY" => OnCpu(t) /\ ~q[t].mem
                      /\ q[t].state = "READY" <=> t \in R \ D
    BY DEF Leaving
  <2>1. /\ r[t].state = "WILL_EMPTY" => OnCpu(t) /\ ~r[t].mem
        /\ r[t].state = "READY" <=> t \in R
    BY DEF Registry, Leaving
  <2>2. CASE t \in D BY <2>2 DEF Freed
  <2>3. CASE t \notin D BY <2>1, <2>3 DEF Adjusted, Alike
  <2> QED BY <2>2, <2>3
<1> QED BY <1>5, <1>6, <1>7, <1>8, <1>9, <1>10, <1>11 DEF Registry

Marked(x, b) == [x EXCEPT !.joinable = FALSE, !.pend = @ \/ b]
\* terminate_thread_group detaches a thread and may ask it to terminate.
LEMMA MarkedLemma ==
  ASSUME NEW x \in Record, NEW b \in BOOLEAN
  PROVE  /\ Marked(x, b) \in Record /\ Alike(Marked(x, b), x) /\ Marked(x, b).ptid = x.ptid
         /\ ~Marked(x, b).joinable /\ (Marked(x, b).pend <=> x.pend \/ b)
<1>1. x.pend \in BOOLEAN BY DEF Record
<1>2. Marked(x, b) = [x EXCEPT !.joinable = FALSE, !.pend = x.pend \/ b] BY DEF Marked, Record
<1>3. [x EXCEPT !.joinable = FALSE, !.pend = x.pend \/ b] \in Record
  <2>1. (x.pend \/ b) \in BOOLEAN OBVIOUS
  <2> QED BY <2>1 DEF Record
<1>4. Alike(Marked(x, b), x) /\ Marked(x, b).ptid = x.ptid BY <1>2 DEF Record, Alike
<1>5. ~Marked(x, b).joinable BY <1>2 DEF Record
<1>6. Marked(x, b).pend <=> x.pend \/ b BY <1>2 DEF Record
<1> QED BY <1>2, <1>3, <1>4, <1>5, <1>6

\* terminate_thread_group: afterwards the threads that are left, other than x, are
\* on other CPUs and asked to terminate.
LEMMA GroupEndKeeps ==
  ASSUME NEW r, NEW X, NEW P, NEW me, NEW R, Registry(r, X, P, me, R),
         P \subseteq {me}, me \in Slots => OnCpu(me), NEW g, NEW x,
         NEW q, q = GroupEnd(r, g, x, me)
  PROVE  /\ Registry(q, X, P, me, R)
         /\ \A t \in Threads(q, g) \ {x} : q[t].pend /\ OnCpu(t) /\ t # me
         /\ \A t \in Slots : t \notin Threads(r, g) \ {x} => Like(q[t], r[t]) /\ Awake(q[t], r[t])
         /\ Threads(q, g) \subseteq Threads(r, g)
         /\ me \in Threads(r, g) \ {x} /\ r[me].state # "DIED"
              => /\ q[me].state = "WILL_EMPTY" /\ ~q[me].joinable
                 /\ q[me].kind = r[me].kind /\ q[me].tgid = r[me].tgid
         /\ \A t \in Threads(r, g) \ {x} : q[t].state = "WILL_EMPTY" => t = me /\ r[t].state # "DIED"
<1> DEFINE K == Threads(r, g) \ {x}
           dead == {t \in K : r[t].state = "DIED"}
           remote == {t \in K \ dead : OnCpu(t) /\ t # me}
           live == K \ (dead \cup remote)
           r1 == [t \in Slots |-> IF t \in K THEN Marked(r[t], t \in remote) ELSE r[t]]
           m == Release(r1, dead)
<1>1. r \in [Slots -> Record] BY DEF Registry
<1>2. q = Finish(m, live, me, FALSE)
  <2>1. K = {t \in Slots \ {x} : InUse(r, t) /\ r[t].kind = "THREAD" /\ r[t].tgid = g} BY DEF Threads
  <2> HIDE DEF K
  <2> QED BY <2>1 DEF GroupEnd, Marked
<1>3. /\ K \subseteq Slots /\ dead \subseteq K /\ remote \subseteq K /\ live \subseteq K
      /\ \A t \in K : InUse(r, t) /\ r[t].kind = "THREAD" /\ r[t].tgid = g
      /\ \A t \in dead : r[t].state = "DIED"
      /\ \A t \in remote : OnCpu(t) /\ t # me /\ r[t].state # "DIED"
      /\ \A t \in live : (OnCpu(t) => t = me) /\ r[t].state # "DIED" /\ t \notin dead
      /\ \A t \in K : t \in dead \/ t \in remote \/ t \in live
  BY DEF Threads
<1>4. \A t \in Slots : (t \in remote) \in BOOLEAN OBVIOUS
<1> HIDE DEF K, dead, remote, live
<1>5. \A t \in Slots : /\ t \notin K => r1[t] = r[t]
                       /\ t \in K => r1[t] = Marked(r[t], t \in remote)
  OBVIOUS
<1>6. r1 \in [Slots -> Record] BY <1>1, <1>4, MarkedLemma
<1>7. \A t \in Slots : /\ t \in dead => m[t] = Empty(t, r1[t].gen)
                       /\ t \notin dead => m[t] = r1[t]
  BY DEF Release
<1>8. m \in [Slots -> Record]
  <2>1. \A t \in Slots : Empty(t, r1[t].gen) \in Record BY <1>6, EmptyRecord DEF Record
  <2>2. m = [t \in Slots |-> IF t \in dead THEN Empty(t, r1[t].gen) ELSE r1[t]] BY DEF Release
  <2> QED BY <1>6, <2>1, <2>2
<1> HIDE DEF m, r1
<1>9. ASSUME NEW t \in Slots, t \in dead PROVE Freed(r, m, t)
  <2>1. r[t].state = "DIED" BY <1>3, <1>9
  <2>2. m[t] = Empty(t, r1[t].gen) BY <1>7, <1>9
  <2>3. m[t].state = "EMPTY" /\ ~m[t].pend BY <2>2 DEF Empty
  <2> QED BY <2>1, <2>3 DEF Freed, Alive
<1>10. ASSUME NEW t \in Slots, t \in K, t \notin dead
       PROVE  /\ Alike(m[t], r[t]) /\ m[t].ptid = r[t].ptid /\ ~m[t].joinable
              /\ m[t].pend <=> r[t].pend \/ t \in remote
  <2> DEFINE b == t \in remote
  <2>1. m[t] = Marked(r[t], b) /\ b \in BOOLEAN BY <1>5, <1>7, <1>10
  <2>2. b <=> t \in remote OBVIOUS
  <2> HIDE DEF b
  <2>3. /\ Alike(m[t], r[t]) /\ m[t].ptid = r[t].ptid
        /\ ~m[t].joinable /\ (m[t].pend <=> r[t].pend \/ b)
    BY <1>1, <2>1, MarkedLemma
  <2> QED BY <2>2, <2>3
<1>11. ASSUME NEW t \in Slots, t \notin K PROVE m[t] = r[t]
  BY <1>3, <1>5, <1>7, <1>11
<1>12. ASSUME NEW t \in Slots, t \notin dead PROVE Adjusted(r, m, P, t)
  <2>1. CASE t \notin K BY <1>11, <2>1 DEF Adjusted, Alike
  <2>2. CASE t \in K
    <3>1. r[t].state # "DIED" /\ InUse(r, t) BY <1>3, <1>12, <2>2
    <3>2. ASSUME t \in remote PROVE OnCpu(t) /\ r[t].state = "RUNNING" /\ t \notin P
      <4>1. OnCpu(t) /\ t # me BY <1>3, <3>2
      <4>2. r[t].state \in Executing BY <4>1 DEF Registry, Running
      <4> QED BY <3>1, <4>1, <4>2 DEF Executing, InUse
    <3> QED BY <1>10, <1>12, <2>2, <3>1, <3>2 DEF Adjusted
  <2> QED BY <2>1, <2>2
<1>13. Registry(m, X, P, me, R)
  <2>1. \A w \in Slots : Alive(r, r[w].wtid) => m[r[w].wtid].ptid = r[r[w].wtid].ptid
    <3> SUFFICES ASSUME NEW t, Alive(r, t) PROVE m[t].ptid = r[t].ptid OBVIOUS
    <3>1. t \in Slots /\ t \notin dead BY <1>3 DEF Alive, InUse
    <3> QED BY <1>10, <1>11, <3>1
  <2>2. Registry(m, X, P, me, R \ dead) BY <1>8, <1>9, <1>12, <2>1, TrimKeeps
  <2>3. \A t \in R : t \in Slots => t \notin dead
    BY <1>3 DEF Registry, Leaving
  <2>4. Leaving(m, R) BY <2>2, <2>3 DEF Registry, Leaving
  <2> QED BY <2>2, <2>4 DEF Registry
<1>14. Finishable(m, live, me, FALSE)
  <2> SUFFICES ASSUME NEW t \in live
               PROVE  m[t].state # "READY" /\ (OnCpu(t) <=> t = me) /\ m[t].kind = "THREAD"
    BY DEF Finishable
  <2>1. t \in Slots /\ t \in K /\ t \notin dead /\ InUse(r, t) /\ r[t].kind = "THREAD" BY <1>3
  <2>2. m[t].kind = "THREAD" /\ m[t].state = r[t].state BY <1>10, <2>1 DEF Alike
  <2> QED BY <1>3, <2>1, <2>2 DEF InUse
<1>15. Registry(q, X, P, me, R)
  <2>1. live \in SUBSET Slots BY <1>3
  <2> QED BY <1>2, <1>13, <1>14, <2>1, FinishKeeps
<1>16. /\ \A t \in Slots \ live : Spared(m, q, live, t)
       /\ \A t \in live : Finished(m, q, me, FALSE, t)
  <2>1. live \in SUBSET Slots BY <1>3
  <2> QED BY <1>2, <1>8, <2>1, FinishLemma
<1>17. ASSUME NEW t \in Threads(q, g)
       PROVE  t \in Threads(r, g) /\ (t # x => t \in remote /\ q[t].pend)
  <2>1. t \in Slots /\ InUse(q, t) /\ q[t].kind = "THREAD" /\ q[t].tgid = g BY DEF Threads
  <2>2. t \notin live BY <1>16, <2>1 DEF Finished, InUse
  <2>3. Like(q[t], m[t]) /\ Awake(q[t], m[t]) BY <1>16, <2>1, <2>2 DEF Spared
  <2>4. t \notin dead
    <3> SUFFICES ASSUME t \in dead PROVE FALSE OBVIOUS
    <3>1. m[t].state = "EMPTY" BY <1>9, <2>1 DEF Freed
    <3> QED BY <2>1, <2>3, <3>1 DEF Awake, InUse
  <2>5. Alike(m[t], r[t]) BY <1>12, <2>1, <2>4 DEF Adjusted
  <2>6. t \in Threads(r, g) BY <2>1, <2>3, <2>5 DEF Threads, Like, Alike, Awake, InUse
  <2>7. ASSUME t # x PROVE t \in remote /\ q[t].pend
    <3>1. t \in K BY <2>6, <2>7 DEF K
    <3>2. t \in remote BY <1>3, <2>2, <2>4, <3>1
    <3>3. m[t].pend BY <1>10, <2>1, <2>4, <3>1, <3>2
    <3> QED BY <2>3, <3>2, <3>3 DEF Like
  <2> QED BY <2>6, <2>7
<1>18. \A t \in Threads(q, g) \ {x} : q[t].pend /\ OnCpu(t) /\ t # me BY <1>3, <1>17
<1>19. ASSUME NEW t \in Slots, t \notin K PROVE Like(q[t], r[t]) /\ Awake(q[t], r[t])
  BY <1>3, <1>11, <1>16, <1>19 DEF Spared
<1>20. ASSUME me \in K, r[me].state # "DIED"
       PROVE  /\ q[me].state = "WILL_EMPTY" /\ ~q[me].joinable
              /\ q[me].kind = r[me].kind /\ q[me].tgid = r[me].tgid
  <2>1. me \in live /\ me \in Slots /\ me \notin dead BY <1>3, <1>20
  <2>2. /\ q[me].state = "WILL_EMPTY" /\ q[me].joinable = m[me].joinable
        /\ q[me].kind = m[me].kind /\ q[me].tgid = m[me].tgid
    BY <1>16, <2>1 DEF Finished
  <2>3. ~m[me].joinable /\ m[me].kind = r[me].kind /\ m[me].tgid = r[me].tgid
    BY <1>10, <1>20, <2>1 DEF Alike
  <2> QED BY <2>2, <2>3
<1>21. Threads(q, g) \subseteq Threads(r, g) BY <1>17
<1>22. ASSUME NEW t \in K, q[t].state = "WILL_EMPTY" PROVE t = me /\ r[t].state # "DIED"
  <2>1. t \in Slots BY <1>3
  <2>2. CASE t \in dead
    <3>1. t \notin live /\ m[t].state = "EMPTY" BY <1>3, <1>9, <2>1, <2>2 DEF Freed
    <3> QED BY <1>16, <1>22, <2>1, <3>1 DEF Spared, Awake
  <2>3. CASE t \in remote
    <3>1. m[t].state = r[t].state /\ InUse(r, t) BY <1>3, <1>10, <2>1, <2>3 DEF Alike, remote
    <3>2. t \notin live BY <2>3 DEF live
    <3> QED BY <1>16, <1>22, <2>1, <3>1, <3>2 DEF Spared, Awake, InUse
  <2>4. CASE t \in live BY <1>3, <1>16, <1>22, <2>4 DEF Finished
  <2> QED BY <1>3, <2>2, <2>3, <2>4
<1> QED BY <1>15, <1>18, <1>19, <1>20, <1>21, <1>22 DEF K

Orphaned(x) == [x EXCEPT !.ptid = REAPER]
\* reparent_children changes only the parent.
LEMMA OrphanedLemma ==
  ASSUME NEW x \in Record
  PROVE  /\ Orphaned(x) \in Record /\ Alike(Orphaned(x), x) /\ Orphaned(x).ptid = REAPER
         /\ Orphaned(x).joinable = x.joinable /\ Orphaned(x).pend = x.pend
<1>1. Orphaned(x) \in Record
  <2>1. REAPER \in Slots \cup {NONE, REAPER} OBVIOUS
  <2> QED BY <2>1 DEF Orphaned, Record
<1>2. Alike(Orphaned(x), x) /\ Orphaned(x).ptid = REAPER BY DEF Orphaned, Record, Alike
<1>3. Orphaned(x).joinable = x.joinable /\ Orphaned(x).pend = x.pend BY DEF Orphaned, Record
<1> QED BY <1>1, <1>2, <1>3

\* What a step that only moves parents does to a task.
Stays(y, x) == Alike(y, x) /\ y.joinable = x.joinable /\ y.pend = x.pend

\* reparent_children, when no child of g is waited for: afterwards g has no child,
\* and nothing else has changed but that zombies are gone.
LEMMA ReparentKeeps ==
  ASSUME NEW r, NEW X, NEW P, NEW me, NEW R, Registry(r, X, P, me, R), NEW g \in Slots,
         \A w \in Slots \ X : r[w].state = "WAITING" /\ r[w].call = "wait" /\ ~r[w].pend
                                => r[w].tgid # g,
         NEW q, q = Reparent(r, g)
  PROVE  /\ Registry(q, X, P, me, R)
         /\ \A t \in Slots : InUse(q, t) /\ q[t].kind = "PROCESS" => q[t].ptid # g
         /\ \A t \in Slots : r[t].state # "DIED" \/ r[t].kind = "THREAD" => Stays(q[t], r[t])
         /\ \A t \in Slots : q[t].ptid \in {r[t].ptid, NONE, REAPER}
         /\ \A t \in Slots : r[t].state # "DIED" /\ r[t].kind = "PROCESS" /\ r[t].ptid # g
              => q[t].ptid = r[t].ptid
         /\ \A h : Threads(q, h) = Threads(r, h)
         /\ \A t \in Slots : q[t].state \in {r[t].state, "EMPTY"}
<1> DEFINE C == {t \in Slots : InUse(r, t) /\ r[t].kind = "PROCESS" /\ r[t].ptid = g}
           T == {t \in Slots : InUse(r, t) /\ r[t].kind = "THREAD" /\ r[t].tgid \in C}
           D == {t \in C : r[t].state = "DIED"}
           m == [t \in Slots |-> IF t \in C \cup T THEN Orphaned(r[t]) ELSE r[t]]
<1>1. r \in [Slots -> Record] BY DEF Registry
<1>2. q = [t \in Slots |-> IF t \in D THEN Empty(t, m[t].gen) ELSE m[t]]
  BY DEF Reparent, Release, Orphaned
<1>3. /\ C \subseteq Slots /\ T \subseteq Slots
      /\ \A t \in C : InUse(r, t) /\ r[t].kind = "PROCESS" /\ r[t].ptid = g
      /\ \A t \in T : InUse(r, t) /\ r[t].kind = "THREAD"
      /\ \A t \in Slots : t \in D <=> t \in C /\ r[t].state = "DIED"
      /\ \A t \in Slots : InUse(r, t) /\ r[t].kind = "PROCESS" /\ r[t].ptid = g => t \in C
  OBVIOUS
<1>4. \A t \in Slots : /\ t \in C \cup T => m[t] = Orphaned(r[t])
                       /\ t \notin C \cup T => m[t] = r[t]
  OBVIOUS
<1>5. m \in [Slots -> Record] BY <1>1, OrphanedLemma
<1> HIDE DEF C, T, D, m
<1>6. q \in [Slots -> Record]
  <2>1. \A t \in Slots : Empty(t, m[t].gen) \in Record BY <1>5, EmptyRecord DEF Record
  <2> QED BY <1>2, <1>5, <2>1
<1>7. ASSUME NEW t \in Slots, t \in D
      PROVE  Freed(r, q, t) /\ q[t].ptid = NONE /\ q[t].kind = "PROCESS"
  <2>1. q[t] = Empty(t, m[t].gen) BY <1>2, <1>7
  <2>2. q[t].state = "EMPTY" /\ ~q[t].pend /\ q[t].ptid = NONE /\ q[t].kind = "PROCESS" BY <2>1 DEF Empty
  <2> QED BY <1>3, <1>7, <2>2 DEF Freed, Alive
<1>8. ASSUME NEW t \in Slots, t \notin D
      PROVE  /\ Stays(q[t], r[t])
             /\ t \in C \cup T => q[t].ptid = REAPER
             /\ t \notin C \cup T => q[t].ptid = r[t].ptid
  <2>1. q[t] = m[t] BY <1>2, <1>8
  <2>2. CASE t \in C \cup T BY <1>1, <1>4, <2>1, <2>2, OrphanedLemma DEF Stays
  <2>3. CASE t \notin C \cup T BY <1>4, <2>1, <2>3 DEF Stays, Alike
  <2> QED BY <2>2, <2>3
<1>9. ASSUME NEW t \in Slots, t \notin D PROVE Adjusted(r, q, P, t)
  BY <1>3, <1>8, <1>9 DEF Adjusted, Stays
<1>10. Registry(q, X, P, me, R)
  <2>1. ASSUME NEW w \in Slots \ X, r[w].state = "WAITING", r[w].call = "wait", ~r[w].pend,
               Alive(r, r[w].wtid)
        PROVE  q[r[w].wtid].ptid = r[r[w].wtid].ptid
    <3>1. Target(r, w) BY <2>1 DEF Registry, Sleepers
    <3>2. r[r[w].wtid].kind = "PROCESS" /\ r[r[w].wtid].ptid # g BY <2>1, <3>1 DEF Target
    <3>3. r[w].wtid \in Slots /\ r[r[w].wtid].state # "DIED" BY <2>1 DEF Alive, InUse
    <3> QED BY <1>3, <1>8, <3>2, <3>3
  <2>2. Registry(q, X, P, me, R \ D) BY <1>6, <1>7, <1>9, <2>1, TrimKeeps
  <2>3. \A t \in R : t \in Slots => t \notin D
    BY <1>3 DEF Registry, Leaving
  <2>4. Leaving(q, R) BY <2>2, <2>3 DEF Registry, Leaving
  <2> QED BY <2>2, <2>4 DEF Registry
<1>11. ASSUME NEW t \in Slots, InUse(q, t), q[t].kind = "PROCESS" PROVE q[t].ptid # g
  <2>1. t \notin D BY <1>7, <1>11 DEF Freed, InUse
  <2>2. g # REAPER BY LifecycleConstants DEF REAPER
  <2>3. InUse(r, t) /\ r[t].kind = "PROCESS" BY <1>8, <1>11, <2>1 DEF Stays, Alike, InUse
  <2> QED BY <1>3, <1>8, <2>1, <2>2, <2>3
<1>12. \A t \in Slots : r[t].state # "DIED" \/ r[t].kind = "THREAD" => Stays(q[t], r[t])
  BY <1>3, <1>8
<1>13. \A t \in Slots : q[t].ptid \in {r[t].ptid, NONE, REAPER} BY <1>7, <1>8
<1>14. ASSUME NEW h PROVE Threads(q, h) = Threads(r, h)
  <2>1. ASSUME NEW t \in Slots PROVE t \in Threads(q, h) <=> t \in Threads(r, h)
    <3>1. CASE t \in D BY <1>3, <1>7, <3>1 DEF Threads
    <3>2. CASE t \notin D BY <1>8, <3>2 DEF Threads, Stays, Alike, InUse
    <3> QED BY <3>1, <3>2
  <2> QED BY <2>1 DEF Threads
<1>15. \A t \in Slots : r[t].state # "DIED" /\ r[t].kind = "PROCESS" /\ r[t].ptid # g
              => q[t].ptid = r[t].ptid
  BY <1>3, <1>8
<1>16. \A t \in Slots : q[t].state \in {r[t].state, "EMPTY"}
  BY <1>7, <1>8 DEF Freed, Stays, Alike
<1> QED BY <1>10, <1>11, <1>12, <1>13, <1>14, <1>15, <1>16

\* What task_finish_pending leaves in the record of a leader that it defers.
LEMMA DeferredLemma ==
  ASSUME NEW x \in Record
  PROVE  /\ Deferred(x) \in Record
         /\ Deferred(x).gen = x.gen /\ Deferred(x).kind = x.kind /\ Deferred(x).tgid = x.tgid
         /\ Deferred(x).ptid = x.ptid /\ Deferred(x).joinable = x.joinable
         /\ Deferred(x).mem = x.mem /\ Deferred(x).call = x.call
         /\ Deferred(x).owner = x.owner /\ Deferred(x).depth = x.depth
         /\ Deferred(x).lgen = x.lgen /\ Deferred(x).pgen = x.pgen
         /\ Deferred(x).pend /\ Deferred(x).state = "WAITING" /\ Deferred(x).reason = "child"
         /\ Deferred(x).wtid = NONE
<1>1. Deferred(x) \in Record
  <2>1. NONE \in Slots \cup {NONE} /\ 0 \in 0..MaxGen /\ "WAITING" \in States
    BY LifecycleConstants DEF States
  <2> QED BY <2>1 DEF Deferred, Record
<1>2. /\ Deferred(x).gen = x.gen /\ Deferred(x).kind = x.kind /\ Deferred(x).tgid = x.tgid
      /\ Deferred(x).ptid = x.ptid /\ Deferred(x).call = x.call
      /\ Deferred(x).owner = x.owner /\ Deferred(x).depth = x.depth
      /\ Deferred(x).lgen = x.lgen /\ Deferred(x).pgen = x.pgen
  BY DEF Deferred, Record
<1>3. Deferred(x).joinable = x.joinable /\ Deferred(x).mem = x.mem BY DEF Deferred, Record
<1>4. /\ Deferred(x).pend /\ Deferred(x).state = "WAITING" /\ Deferred(x).reason = "child"
      /\ Deferred(x).wtid = NONE
  BY DEF Deferred, Record
<1> QED BY <1>1, <1>2, <1>3, <1>4

\* A leader that waits for its threads: all of them are on other CPUs and asked to
\* terminate, so the last of them runs the leader again.
LEMMA DeferredKeeps ==
  ASSUME NEW r, NEW X, NEW P, NEW me, NEW R, Registry(r, X, P, me, R), NEW p,
         IsProcess(r, p), OnCpu(p) => p = me, HasThreads(r, p),
         \A s \in Threads(r, p) : r[s].state # "DIED" => r[s].pend /\ OnCpu(s),
         NEW q, q = [r EXCEPT ![p] = Deferred(@)]
  PROVE  Registry(q, X \ {p}, P \cup {p}, me, R)
<1>1. r \in [Slots -> Record] /\ p \in Slots BY DEF Registry, IsProcess, Alive, InUse
<1>2. /\ q \in [Slots -> Record]
      /\ \A t \in Slots : t # p => q[t] = r[t]
      /\ q[p] = Deferred(r[p])
  BY <1>1, DeferredLemma
<1>3. /\ q[p].gen = r[p].gen /\ q[p].kind = r[p].kind /\ q[p].tgid = r[p].tgid
      /\ q[p].ptid = r[p].ptid /\ q[p].mem = r[p].mem /\ q[p].call = r[p].call
      /\ q[p].owner = r[p].owner /\ q[p].depth = r[p].depth
      /\ q[p].lgen = r[p].lgen /\ q[p].pgen = r[p].pgen
      /\ q[p].pend /\ q[p].state = "WAITING" /\ q[p].reason = "child" /\ q[p].wtid = NONE
  BY <1>1, <1>2, DeferredLemma
<1>4. q[p].joinable = r[p].joinable BY <1>1, <1>2, DeferredLemma
<1>5. \A t : /\ InUse(q, t) <=> InUse(r, t)
             /\ Alive(q, t) <=> Alive(r, t)
  BY <1>2, <1>3 DEF InUse, Alive, IsProcess
<1>6. \A t \in Slots :
      /\ q[t].gen = r[t].gen /\ q[t].kind = r[t].kind /\ q[t].tgid = r[t].tgid
      /\ q[t].ptid = r[t].ptid /\ q[t].mem = r[t].mem /\ q[t].call = r[t].call
      /\ q[t].owner = r[t].owner /\ q[t].depth = r[t].depth
      /\ q[t].lgen = r[t].lgen /\ q[t].pgen = r[t].pgen /\ q[t].joinable = r[t].joinable
      /\ q[t].state = "DIED" <=> r[t].state = "DIED"
  BY <1>2, <1>3, <1>4 DEF IsProcess, Alive
<1>7. \A t : IsProcess(q, t) <=> IsProcess(r, t) BY <1>5, <1>6 DEF IsProcess, Alive, InUse
<1>8. Groups(q)
  <2> SUFFICES ASSUME NEW t \in Slots, InUse(q, t)
               PROVE /\ q[t].mem <=> q[t].state # "DIED"
                     /\ q[t].kind = "PROCESS" => q[t].tgid = t /\ ~q[t].joinable
                     /\ q[t].kind = "THREAD" => IsProcess(q, q[t].tgid) /\ q[q[t].tgid].gen = q[t].lgen
    BY DEF Groups
  <2>1. /\ r[t].mem <=> r[t].state # "DIED"
        /\ r[t].kind = "PROCESS" => r[t].tgid = t /\ ~r[t].joinable
        /\ r[t].kind = "THREAD" => IsProcess(r, r[t].tgid) /\ r[r[t].tgid].gen = r[t].lgen
    BY <1>5 DEF Registry, Groups
  <2>2. q[t].mem <=> q[t].state # "DIED" BY <1>6, <2>1
  <2>3. r[t].tgid \in Slots BY <1>1 DEF Record
  <2>4. q[t].kind = r[t].kind /\ q[t].tgid = r[t].tgid /\ q[t].lgen = r[t].lgen
    BY <1>6
  <2>5. q[t].kind = "PROCESS" => ~q[t].joinable BY <1>6, <2>1, <2>4
  <2>6. q[r[t].tgid].gen = r[r[t].tgid].gen BY <1>6, <2>3
  <2> QED BY <1>7, <2>1, <2>2, <2>4, <2>5, <2>6
<1>9. Parents(q)
  <2> SUFFICES ASSUME NEW t \in Slots, InUse(q, t)
               PROVE /\ q[t].kind = "PROCESS" /\ q[t].ptid \notin Nobody =>
                           IsProcess(q, q[t].ptid) /\ q[q[t].ptid].gen = q[t].pgen
                     /\ q[t].state = "DIED" =>
                          IF q[t].kind = "THREAD" THEN q[t].joinable ELSE q[t].ptid \notin Nobody
    BY DEF Parents
  <2>1. /\ r[t].kind = "PROCESS" /\ r[t].ptid \notin Nobody =>
              IsProcess(r, r[t].ptid) /\ r[r[t].ptid].gen = r[t].pgen
        /\ r[t].state = "DIED" =>
             IF r[t].kind = "THREAD" THEN r[t].joinable ELSE r[t].ptid \notin Nobody
    BY <1>5 DEF Registry, Parents
  <2>2. r[t].ptid \notin Nobody => r[t].ptid \in Slots BY <1>1 DEF Record, Nobody
  <2>3. q[t].kind = r[t].kind /\ q[t].ptid = r[t].ptid /\ q[t].pgen = r[t].pgen
    BY <1>6
  <2>4. q[t].joinable = r[t].joinable /\ (q[t].state = "DIED" <=> r[t].state = "DIED") BY <1>6
  <2>5. r[t].ptid \notin Nobody => q[r[t].ptid].gen = r[r[t].ptid].gen BY <1>6, <2>2
  <2> QED BY <1>7, <2>1, <2>3, <2>4, <2>5
<1>10. Locks(q)
  <2> SUFFICES ASSUME NEW t \in Slots, InUse(q, t)
               PROVE /\ q[t].owner # NONE => Alive(q, q[t].owner) /\ q[q[t].owner].tgid = t
                                               /\ q[t].depth > 0
                     /\ q[t].owner = NONE => q[t].depth = 0
                     /\ q[t].call = "lock" => MaxDepth > 0 /\ q[q[t].tgid].owner # t
    BY DEF Locks
  <2>1. /\ r[t].owner # NONE => Alive(r, r[t].owner) /\ r[r[t].owner].tgid = t /\ r[t].depth > 0
        /\ r[t].owner = NONE => r[t].depth = 0
        /\ r[t].call = "lock" => MaxDepth > 0 /\ r[r[t].tgid].owner # t
    BY <1>5 DEF Registry, Locks
  <2>2. r[t].owner # NONE => r[t].owner \in Slots BY <1>1 DEF Record
  <2>3. r[t].tgid \in Slots BY <1>1 DEF Record
  <2>4. q[t].owner = r[t].owner /\ q[t].depth = r[t].depth /\ q[t].call = r[t].call
        /\ q[t].tgid = r[t].tgid
    BY <1>6
  <2>5. r[t].owner # NONE => q[r[t].owner].tgid = r[r[t].owner].tgid BY <1>6, <2>2
  <2>6. q[r[t].tgid].owner = r[r[t].tgid].owner BY <1>6, <2>3
  <2> QED BY <1>5, <2>1, <2>4, <2>5, <2>6
<1>11. ASSUME NEW w \in Slots, HasThreads(r, w) PROVE HasThreads(q, w)
  <2>1. PICK s \in Slots \ {w} : /\ InUse(r, s) /\ r[s].kind = "THREAD" /\ r[s].tgid = r[w].tgid
                                 /\ r[s].mem
    BY <1>11 DEF HasThreads
  <2>2. InUse(q, s) /\ q[s].kind = "THREAD" /\ q[s].tgid = q[w].tgid /\ q[s].mem
    <3>1. InUse(q, s) /\ q[s].kind = "THREAD" /\ q[s].tgid = q[w].tgid BY <1>5, <1>6, <2>1
    <3>2. q[s].mem BY <1>6, <2>1
    <3> QED BY <3>1, <3>2
  <2> QED BY <2>2 DEF HasThreads
<1>12. Sleepers(q, X \ {p})
  <2> SUFFICES ASSUME NEW w \in Slots, q[w].state = "WAITING"
               PROVE  IF q[w].pend \/ q[w].call = "group"
                      THEN q[w].reason = "child" /\ q[w].wtid = NONE /\ HasThreads(q, w)
                      ELSE IF q[w].call = "lock"
                      THEN q[w].reason = "lock" /\ q[q[w].tgid].owner \notin {NONE, w}
                      ELSE /\ q[w].call \in {"wait", "join"} /\ q[w].reason = "child"
                           /\ w \notin X \ {p} => Target(q, w)
    BY DEF Sleepers
  <2>1. CASE w = p BY <1>1, <1>3, <1>11, <2>1
  <2>2. CASE w # p
    <3>1. q[w] = r[w] BY <1>2, <2>2
    <3>2. IF r[w].pend \/ r[w].call = "group"
          THEN r[w].reason = "child" /\ r[w].wtid = NONE /\ HasThreads(r, w)
          ELSE IF r[w].call = "lock"
          THEN r[w].reason = "lock" /\ r[r[w].tgid].owner \notin {NONE, w}
          ELSE /\ r[w].call \in {"wait", "join"} /\ r[w].reason = "child"
               /\ w \notin X => Target(r, w)
      BY <3>1 DEF Registry, Sleepers
    <3>3. Target(r, w) => Target(q, w)
      BY <1>5, <1>6, <3>1 DEF Target, Alive, InUse
    <3>4. r[w].tgid \in Slots BY <1>1 DEF Record
    <3>5. HasThreads(r, w) => HasThreads(q, w) BY <1>11
    <3>6. q[r[w].tgid].owner = r[r[w].tgid].owner BY <1>6, <3>4
    <3> QED BY <2>2, <3>1, <3>2, <3>3, <3>5, <3>6
  <2> QED BY <2>1, <2>2
<1>13. \A h : Threads(q, h) = Threads(r, h) BY <1>5, <1>6 DEF Threads
<1>14. Pending(q, P \cup {p})
  <2> SUFFICES ASSUME NEW t \in Slots, q[t].pend
               PROVE  /\ Alive(q, t)
                      /\ \/ OnCpu(t) /\ q[t].state = "RUNNING" /\ t \notin P \cup {p}
                         \/ /\ q[t].kind = "PROCESS"
                            /\ \A s \in Threads(q, t) : q[s].state # "DIED" => q[s].pend /\ OnCpu(s)
    BY DEF Pending
  <2>1. ASSUME NEW s \in Slots, r[s].kind = "THREAD" PROVE q[s] = r[s]
    BY <1>2, <2>1 DEF IsProcess
  <2>2. \A s \in Threads(r, t) : s \in Slots /\ q[s] = r[s] BY <2>1 DEF Threads
  <2>3. CASE t = p
    <3>1. Alive(q, p) /\ q[p].kind = "PROCESS" BY <1>5, <1>3 DEF IsProcess
    <3> QED BY <1>13, <2>2, <2>3, <3>1
  <2>4. CASE t # p
    <3>1. /\ Alive(r, t)
          /\ \/ OnCpu(t) /\ r[t].state = "RUNNING" /\ t \notin P
             \/ /\ r[t].kind = "PROCESS"
                /\ \A s \in Threads(r, t) : r[s].state # "DIED" => r[s].pend /\ OnCpu(s)
      BY <1>2, <2>4 DEF Registry, Pending
    <3> QED BY <1>2, <1>5, <1>13, <2>2, <2>4, <3>1
  <2> QED BY <2>3, <2>4
<1>15. Running(q, me) BY <1>1, <1>2 DEF Registry, Running
<1>16. Leaving(q, R)
  <2>1. r[p].state \notin {"WILL_EMPTY", "READY"} BY DEF IsProcess, Alive, InUse
  <2> QED BY <1>2, <1>3, <2>1 DEF Registry, Leaving
<1> QED BY <1>2, <1>8, <1>9, <1>10, <1>12, <1>14, <1>15, <1>16 DEF Registry

\* The parts of the invariant for fewer exemptions give those for more.
LEMMA WeakenKeeps ==
  ASSUME NEW r, NEW X, NEW P, NEW me, NEW R, Registry(r, X, P, me, R), NEW Y, NEW Q,
         X \subseteq Y, Q \subseteq P
  PROVE  Registry(r, Y, Q, me, R)
<1>1. Sleepers(r, Y) BY DEF Registry, Sleepers
<1>2. Pending(r, Q)
  <2> SUFFICES ASSUME NEW t \in Slots, r[t].pend
               PROVE  /\ Alive(r, t)
                      /\ \/ OnCpu(t) /\ r[t].state = "RUNNING" /\ t \notin Q
                         \/ /\ r[t].kind = "PROCESS"
                            /\ \A s \in Threads(r, t) : r[s].state # "DIED" => r[s].pend /\ OnCpu(s)
    BY DEF Pending
  <2> QED BY DEF Registry, Pending
<1> QED BY <1>1, <1>2 DEF Registry

\* A task that neither sleeps nor is to terminate needs no exemption.
LEMMA DropKeeps ==
  ASSUME NEW r, NEW X, NEW P, NEW me, NEW R, Registry(r, X, P, me, R), NEW p,
         p \in Slots => (p \in X => r[p].state # "WAITING") /\ ~r[p].pend
  PROVE  Registry(r, X \ {p}, P \cup {p}, me, R)
<1>1. Sleepers(r, X \ {p}) BY DEF Registry, Sleepers
<1>2. Pending(r, P \cup {p})
  <2> SUFFICES ASSUME NEW t \in Slots, r[t].pend
               PROVE  /\ Alive(r, t)
                      /\ \/ OnCpu(t) /\ r[t].state = "RUNNING" /\ t \notin P \cup {p}
                         \/ /\ r[t].kind = "PROCESS"
                            /\ \A s \in Threads(r, t) : r[s].state # "DIED" => r[s].pend /\ OnCpu(s)
    BY DEF Pending
  <2> QED BY DEF Registry, Pending
<1> QED BY <1>1, <1>2 DEF Registry

\* What a teardown leaves of a task that it does not end.
Bystander(y, x) ==
  /\ Awake(y, x) /\ y.gen = x.gen /\ y.kind = x.kind /\ y.tgid = x.tgid
  /\ y.joinable = x.joinable /\ y.pend = x.pend

\* finish_task of a single thread that lives, or that is already leaving.
LEMMA FinishThreadKeeps ==
  ASSUME NEW r, NEW X, NEW P, NEW me, NEW R, Registry(r, X, P, me, R), NEW p \in Slots,
         me \in Slots => OnCpu(me), OnCpu(p) => p = me, r[p].kind = "THREAD",
         Alive(r, p) \/ (r[p].state = "WILL_EMPTY" /\ ~r[p].joinable),
         NEW q, q = Finish(r, {p}, me, r[p].joinable)
  PROVE  /\ Registry(q, X \ {p}, P \cup {p}, me, R)
         /\ \A u \in Slots \ {p} : Bystander(q[u], r[u])
<1>1. r \in [Slots -> Record] /\ r[p].joinable \in BOOLEAN BY DEF Registry, Record
<1>2. Finishable(r, {p}, me, r[p].joinable)
  <2>1. r[p].state # "READY" /\ (OnCpu(p) <=> p = me) BY DEF Alive, InUse
  <2>2. r[p].joinable => InUse(r, p) BY DEF Alive
  <2> QED BY <2>1, <2>2 DEF Finishable
<1>3. Registry(q, X, P, me, R) BY <1>1, <1>2, FinishKeeps
<1>4. /\ \A t \in Slots \ {p} : Spared(r, q, {p}, t)
      /\ Finished(r, q, me, r[p].joinable, p)
  BY <1>1, FinishLemma
<1>5. q[p].state # "WAITING" /\ ~q[p].pend BY <1>4 DEF Finished
<1>6. ASSUME NEW u \in Slots \ {p} PROVE Bystander(q[u], r[u])
  <2>1. Like(q[u], r[u]) /\ Awake(q[u], r[u]) BY <1>4 DEF Spared
  <2>2. q[u].joinable = r[u].joinable /\ q[u].pend = r[u].pend BY <2>1 DEF Like
  <2> QED BY <2>1, <2>2 DEF Bystander, Like
<1> QED BY <1>3, <1>5, <1>6, DropKeeps

\* A thread whose end was its group's, and that its CPU has not left yet.
LeavingThread(x) == x.state = "WILL_EMPTY" /\ ~x.joinable /\ x.kind = "THREAD"

\* Nobody but those in E is disturbed, and only the current task is left on its
\* way out.
Disturbs(r, q, E, me) ==
  /\ \A u \in Slots \ E : r[u].state # "DIED" => Bystander(q[u], r[u])
  /\ \A u \in Slots : q[u].state = "WILL_EMPTY" /\ r[u].state # "WILL_EMPTY"
       => u = me /\ u \in E /\ r[u].state # "DIED"

\* task_finish_pending of a process.
LEMMA FinishProcessKeeps ==
  ASSUME NEW r, NEW X, NEW P, NEW me, NEW R, Registry(r, X, P, me, R), NEW p,
         me \in Slots => OnCpu(me), P \subseteq {me}, OnCpu(p) => p = me, IsProcess(r, p),
         NEW q, q = FinishPending(r, p, me)
  PROVE  /\ Registry(q, X \ {p}, P \cup {p}, me, R)
         /\ Disturbs(r, q, {p} \cup Threads(r, p), me)
         /\ me \in Threads(r, p) /\ r[me].state # "DIED"
              => LeavingThread(q[me])
<1> DEFINE r1 == GroupEnd(r, p, p, me)
           r2 == Reparent(r1, p)
           Y == X \cup {p}
<1>1. /\ p \in Slots /\ r \in [Slots -> Record] /\ r[p].kind = "PROCESS" /\ r[p].tgid = p
      /\ InUse(r, p) /\ r[p].state # "DIED"
  BY DEF IsProcess, Alive, InUse, Registry, Groups
<1>2. p \notin Threads(r, p) BY <1>1 DEF Threads
<1>3. q = IF HasThreads(r1, p) THEN [r1 EXCEPT ![p] = Deferred(@)]
          ELSE Finish(r2, {p}, me, r2[p].joinable \/ r2[p].ptid \notin {NONE, REAPER})
  BY <1>1 DEF FinishPending
<1>4. Registry(r, Y, P, me, R) BY WeakenKeeps
<1>5. /\ Registry(r1, Y, P, me, R)
      /\ \A t \in Threads(r1, p) \ {p} : r1[t].pend /\ OnCpu(t) /\ t # me
      /\ \A t \in Slots : t \notin Threads(r, p) \ {p} => Like(r1[t], r[t]) /\ Awake(r1[t], r[t])
      /\ Threads(r1, p) \subseteq Threads(r, p)
      /\ me \in Threads(r, p) \ {p} /\ r[me].state # "DIED"
           => /\ r1[me].state = "WILL_EMPTY" /\ ~r1[me].joinable
              /\ r1[me].kind = r[me].kind /\ r1[me].tgid = r[me].tgid
      /\ \A t \in Threads(r, p) \ {p} : r1[t].state = "WILL_EMPTY" => t = me /\ r[t].state # "DIED"
  BY <1>4, GroupEndKeeps
<1> HIDE DEF r1, Y
<1>6. IsProcess(r1, p) /\ r1 \in [Slots -> Record]
  <2>1. Like(r1[p], r[p]) /\ Awake(r1[p], r[p]) BY <1>1, <1>2, <1>5
  <2> QED BY <1>1, <1>5, <2>1 DEF Like, Awake, IsProcess, Alive, InUse, Registry
<1>7. \A t \in Threads(r1, p) : t # p /\ r1[t].pend /\ OnCpu(t) /\ t # me BY <1>2, <1>5
<1>8. ASSUME NEW u \in Slots, u \notin Threads(r, p) PROVE Bystander(r1[u], r[u])
  <2>1. Like(r1[u], r[u]) /\ Awake(r1[u], r[u]) BY <1>5, <1>8
  <2>2. r1[u].joinable = r[u].joinable /\ r1[u].pend = r[u].pend BY <2>1 DEF Like
  <2> QED BY <2>1, <2>2 DEF Bystander, Like
<1>9. ASSUME NEW u \in Slots, r1[u].state = "WILL_EMPTY", r[u].state # "WILL_EMPTY"
      PROVE  u = me /\ u \in Threads(r, p) /\ r[u].state # "DIED"
  BY <1>5, <1>8, <1>9, <1>2 DEF Bystander, Awake
<1>10. ASSUME me \in Threads(r, p), r[me].state # "DIED"
       PROVE  LeavingThread(r1[me]) /\ me \in Slots /\ me # p
  BY <1>2, <1>5, <1>10 DEF Threads, LeavingThread
<1>11. CASE HasThreads(r1, p)
  <2>1. q = [r1 EXCEPT ![p] = Deferred(@)] BY <1>3, <1>11
  <2>2. Registry(q, Y \ {p}, P \cup {p}, me, R) BY <1>5, <1>6, <1>7, <1>11, <2>1, DeferredKeeps
  <2>3. Y \ {p} = X \ {p} BY DEF Y
  <2>4. \A u \in Slots : u # p => q[u] = r1[u] BY <1>6, <2>1
  <2>5. q[p].state = "WAITING" BY <1>1, <1>6, <2>1, DeferredLemma
  <2>6. Disturbs(r, q, {p} \cup Threads(r, p), me) BY <1>8, <1>9, <2>4, <2>5 DEF Disturbs
  <2> QED BY <1>10, <2>2, <2>3, <2>4, <2>6
<1>12. CASE ~HasThreads(r1, p)
  <2> DEFINE wt == r2[p].joinable \/ r2[p].ptid \notin Nobody
  <2>1. q = Finish(r2, {p}, me, wt) BY <1>3, <1>12 DEF Nobody
  <2>2. Threads(r1, p) = {}
    <3> SUFFICES ASSUME NEW s \in Threads(r1, p) PROVE FALSE OBVIOUS
    <3>1. s \in Slots /\ s # p /\ InUse(r1, s) /\ r1[s].kind = "THREAD" /\ r1[s].tgid = p
      BY <1>7 DEF Threads
    <3>2. Alive(r1, s) BY <1>5, <1>7, <3>1 DEF Registry, Pending
    <3>3. r1[s].mem BY <1>5, <3>1, <3>2 DEF Registry, Groups, Alive
    <3>4. r1[p].tgid = p BY <1>5, <1>6 DEF Registry, Groups, IsProcess, Alive, InUse
    <3> QED BY <1>12, <3>1, <3>3, <3>4 DEF HasThreads
  <2>3. ASSUME NEW w \in Slots \ Y, r1[w].state = "WAITING" PROVE r1[w].tgid # p
    <3>1. w # p BY DEF Y
    <3>2. InUse(r1, w) /\ r1[w].kind \in {"PROCESS", "THREAD"} BY <1>6, <2>3 DEF InUse, Record
    <3>3. CASE r1[w].kind = "PROCESS" BY <1>5, <3>1, <3>2, <3>3 DEF Registry, Groups
    <3>4. CASE r1[w].kind = "THREAD" BY <2>2, <3>2, <3>4 DEF Threads
    <3> QED BY <3>2, <3>3, <3>4
  <2>4. /\ Registry(r2, Y, P, me, R)
        /\ \A t \in Slots : InUse(r2, t) /\ r2[t].kind = "PROCESS" => r2[t].ptid # p
        /\ \A t \in Slots : r1[t].state # "DIED" \/ r1[t].kind = "THREAD" => Stays(r2[t], r1[t])
        /\ Threads(r2, p) = {}
        /\ \A t \in Slots : r2[t].state \in {r1[t].state, "EMPTY"}
    BY <1>1, <1>5, <2>2, <2>3, ReparentKeeps
  <2> HIDE DEF r2
  <2>5. IsProcess(r2, p) /\ ~r2[p].joinable /\ wt \in BOOLEAN /\ r2 \in [Slots -> Record]
    <3>1. Stays(r2[p], r1[p]) BY <1>1, <1>6, <2>4 DEF IsProcess, Alive
    <3>2. IsProcess(r2, p) BY <1>6, <3>1 DEF Stays, Alike, IsProcess, Alive, InUse
    <3>3. ~r2[p].joinable BY <2>4, <3>2 DEF Registry, Groups, IsProcess, Alive, InUse
    <3> QED BY <2>4, <3>2, <3>3 DEF Registry
  <2>6. wt => r2[p].ptid \notin Nobody BY <2>5
  <2> HIDE DEF wt
  <2>7. Finishable(r2, {p}, me, wt)
    <3>1. r2[p].state # "READY" /\ (OnCpu(p) <=> p = me) BY <1>1, <2>5 DEF IsProcess, Alive, InUse
    <3>2. InUse(r2, p) /\ r2[p].kind = "PROCESS" BY <2>5 DEF IsProcess, Alive
    <3> QED BY <2>4, <2>6, <3>1, <3>2 DEF Finishable
  <2>8. Registry(q, Y, P, me, R) BY <1>1, <2>1, <2>4, <2>5, <2>7, FinishKeeps
  <2>9. /\ \A t \in Slots \ {p} : Spared(r2, q, {p}, t)
        /\ Finished(r2, q, me, wt, p)
    BY <1>1, <2>1, <2>5, FinishLemma
  <2>10. q[p].state # "WAITING" /\ ~q[p].pend BY <2>9 DEF Finished
  <2>11. Registry(q, X \ {p}, P \cup {p}, me, R)
    <3>1. Y \ {p} = X \ {p} BY DEF Y
    <3> QED BY <2>8, <2>10, <3>1, DropKeeps
  <2>12. ASSUME NEW u \in Slots, u # p, r1[u].state # "DIED" \/ r1[u].kind = "THREAD"
         PROVE  Bystander(q[u], r1[u])
    <3>1. Stays(r2[u], r1[u]) BY <2>4, <2>12
    <3>2. Like(q[u], r2[u]) /\ Awake(q[u], r2[u]) BY <2>9, <2>12 DEF Spared
    <3>3. q[u].joinable = r1[u].joinable /\ q[u].pend = r1[u].pend BY <3>1, <3>2 DEF Like, Stays
    <3> QED BY <3>1, <3>2, <3>3 DEF Bystander, Like, Stays, Alike, Awake
  <2>13. ASSUME NEW u \in Slots, u # p, u \notin Threads(r, p), r[u].state # "DIED"
         PROVE  Bystander(q[u], r[u])
    <3>1. Bystander(r1[u], r[u]) BY <1>8, <2>13
    <3>2. r1[u].state # "DIED" BY <2>13, <3>1 DEF Bystander, Awake
    <3>3. Bystander(q[u], r1[u]) BY <2>12, <2>13, <3>2
    <3>4. q[u].joinable = r[u].joinable /\ q[u].pend = r[u].pend BY <3>1, <3>3 DEF Bystander
    <3> QED BY <3>1, <3>3, <3>4 DEF Bystander, Awake
  <2>14. ASSUME NEW u \in Slots, q[u].state = "WILL_EMPTY", r[u].state # "WILL_EMPTY"
         PROVE  u = me /\ (u = p \/ u \in Threads(r, p)) /\ r[u].state # "DIED"
    <3>1. CASE u = p BY <1>1, <2>9, <2>14, <3>1 DEF Finished
    <3>2. CASE u # p
      <4>1. CASE r1[u].state # "DIED" \/ r1[u].kind = "THREAD"
        <5>1. Bystander(q[u], r1[u]) BY <2>12, <3>2, <4>1
        <5>2. r1[u].state = "WILL_EMPTY" BY <2>14, <5>1 DEF Bystander, Awake
        <5> QED BY <1>9, <2>14, <5>2
      <4>2. CASE r1[u].state = "DIED" /\ r1[u].kind # "THREAD"
        <5>1. u \in Slots /\ Awake(q[u], r2[u]) BY <2>9, <3>2 DEF Spared
        <5>2. r2[u].state = "WILL_EMPTY" BY <2>14, <5>1 DEF Awake
        <5> QED BY <2>4, <4>2, <5>2
      <4> QED BY <4>1, <4>2
    <3> QED BY <3>1, <3>2
  <2>15. ASSUME me \in Threads(r, p), r[me].state # "DIED"
         PROVE  LeavingThread(q[me])
    <3>1. Bystander(q[me], r1[me]) BY <1>10, <2>12, <2>15 DEF LeavingThread
    <3>2. q[me].joinable = r1[me].joinable BY <3>1 DEF Bystander
    <3> QED BY <1>10, <2>15, <3>1, <3>2 DEF Bystander, Awake, LeavingThread
  <2>16. Disturbs(r, q, {p} \cup Threads(r, p), me) BY <2>13, <2>14 DEF Disturbs
  <2> QED BY <2>11, <2>15, <2>16
<1> QED BY <1>11, <1>12

\* The tasks that the end of p ends.
Ended(r, p) == IF r[p].kind = "THREAD" THEN {p} ELSE {p} \cup Threads(r, p)

\* A task whose record is unchanged is not disturbed.
LEMMA SameBystander == ASSUME NEW x PROVE Bystander(x, x)
BY DEF Bystander, Awake

\* task_finish_pending
LEMMA FinishPendingKeeps ==
  ASSUME NEW r, NEW X, NEW P, NEW me, NEW R, Registry(r, X, P, me, R), NEW p,
         me \in Slots => OnCpu(me), P \subseteq {me}, OnCpu(p) => p = me, Alive(r, p),
         NEW q, q = FinishPending(r, p, me)
  PROVE  Registry(q, X \ {p}, P \cup {p}, me, R) /\ Disturbs(r, q, Ended(r, p), me)
<1>1. p \in Slots /\ r \in [Slots -> Record] /\ r[p].kind \in {"PROCESS", "THREAD"}
  BY DEF Alive, InUse, Registry, Record
<1>2. CASE r[p].kind = "THREAD"
  <2>1. q = Finish(r, {p}, me, r[p].joinable) BY <1>2 DEF FinishPending
  <2>2. /\ Registry(q, X \ {p}, P \cup {p}, me, R)
        /\ \A u \in Slots \ {p} : Bystander(q[u], r[u])
    BY <1>1, <1>2, <2>1, FinishThreadKeeps
  <2>3. q[p].state = "WILL_EMPTY" => p = me
    BY <1>1, <2>2 DEF Registry, Leaving
  <2>4. Ended(r, p) = {p} BY <1>2 DEF Ended
  <2>5. r[p].state # "DIED" BY DEF Alive
  <2> QED BY <2>2, <2>3, <2>4, <2>5 DEF Disturbs, Bystander, Awake
<1>3. CASE r[p].kind = "PROCESS"
  <2>1. IsProcess(r, p) BY <1>3 DEF IsProcess
  <2>2. Ended(r, p) = {p} \cup Threads(r, p) BY <1>3 DEF Ended
  <2>3. Registry(q, X \ {p}, P \cup {p}, me, R) /\ Disturbs(r, q, {p} \cup Threads(r, p), me)
    BY <2>1, FinishProcessKeeps
  <2> QED BY <2>2, <2>3
<1> QED BY <1>1, <1>2, <1>3

Asked(x) == [x EXCEPT !.pend = TRUE]
\* request_task_termination changes only the request.
LEMMA AskedLemma ==
  ASSUME NEW x \in Record
  PROVE  /\ Asked(x) \in Record /\ Alike(Asked(x), x) /\ Asked(x).ptid = x.ptid
         /\ Asked(x).joinable = x.joinable /\ Asked(x).pend
<1>1. Asked(x) \in Record BY DEF Asked, Record
<1>2. Alike(Asked(x), x) /\ Asked(x).ptid = x.ptid BY DEF Asked, Record, Alike
<1>3. Asked(x).joinable = x.joinable BY DEF Asked, Record
<1>4. Asked(x).pend BY DEF Asked, Record
<1> QED BY <1>1, <1>2, <1>3, <1>4

\* request_task_termination
LEMMA TerminateKeeps ==
  ASSUME NEW r, NEW X, NEW P, NEW me, NEW R, Registry(r, X, P, me, R), NEW p,
         me \in Slots => OnCpu(me), P \subseteq {me}, Alive(r, p),
         NEW q, q = Terminate(r, p, me)
  PROVE  Registry(q, X \ {p}, P, me, R) /\ Disturbs(r, q, Ended(r, p), me)
<1>1. p \in Slots /\ r \in [Slots -> Record] BY DEF Alive, InUse, Registry
<1>2. CASE OnCpu(p) /\ p # me
  <2>1. q = [t \in Slots |-> IF t = p THEN Asked(r[t]) ELSE r[t]]
    BY <1>1, <1>2 DEF Terminate, Asked
  <2>2. q \in [Slots -> Record] BY <1>1, <2>1, AskedLemma
  <2>3. \A t \in Slots : t # p => q[t] = r[t] BY <2>1
  <2>4. /\ Alike(q[p], r[p]) /\ q[p].ptid = r[p].ptid /\ q[p].joinable = r[p].joinable /\ q[p].pend
    <3>1. q[p] = Asked(r[p]) BY <1>1, <2>1
    <3> QED BY <1>1, <3>1, AskedLemma
  <2>5. r[p].state = "RUNNING"
    <3>1. r[p].state \in Executing BY <1>1, <1>2 DEF Registry, Running
    <3> QED BY <3>1 DEF Executing, Alive, InUse
  <2>6. \A t \in Slots : Adjusted(r, q, P, t)
    <3> SUFFICES ASSUME NEW t \in Slots PROVE Adjusted(r, q, P, t) OBVIOUS
    <3>1. CASE t = p
      <4>1. t \notin P BY <1>2, <3>1
      <4> QED BY <1>2, <2>4, <2>5, <3>1, <4>1 DEF Adjusted
    <3>2. CASE t # p BY <2>3, <3>2 DEF Adjusted, Alike
    <3> QED BY <3>1, <3>2
  <2>7. \A t : Alive(r, t) => q[t].ptid = r[t].ptid BY <2>3, <2>4 DEF Alive, InUse
  <2>8. Registry(q, X, P, me, R \ {}) BY <2>2, <2>6, <2>7, TrimKeeps
  <2>9. R \ {} = R OBVIOUS
  <2>10. q[p].state = "RUNNING" BY <2>4, <2>5 DEF Alike
  <2>11. Sleepers(q, X \ {p}) BY <2>8, <2>10 DEF Registry, Sleepers
  <2>12. Registry(q, X \ {p}, P, me, R) BY <2>8, <2>9, <2>11 DEF Registry
  <2>13. p \in Ended(r, p) BY DEF Ended
  <2> QED BY <2>3, <2>10, <2>12, <2>13, SameBystander DEF Disturbs
<1>3. CASE ~(OnCpu(p) /\ p # me)
  <2>1. q = FinishPending(r, p, me) BY <1>3 DEF Terminate
  <2>2. Registry(q, X \ {p}, P \cup {p}, me, R) /\ Disturbs(r, q, Ended(r, p), me)
    BY <1>3, <2>1, FinishPendingKeeps
  <2> QED BY <2>2, WeakenKeeps
<1> QED BY <1>2, <1>3

\* task_exit_process: the leader is asked to end first and may already take the
\* caller with it; the caller is then finished once more.
LEMMA ExitProcessKeeps ==
  ASSUME NEW r, NEW R, NEW me \in Slots, Registry(r, {}, {}, me, R), OnCpu(me),
         r[me].state = "RUNNING", NEW g, g = r[me].tgid,
         NEW r1, r1 = Reparent(GroupEnd(r, g, me, me), g),
         NEW r2, r2 = IF InUse(r, g) /\ g # me THEN Terminate(r1, g, me) ELSE r1,
         NEW q, q = FinishPending(r2, me, me)
  PROVE  Registry(q, {}, {}, me, R)
<1> DEFINE r0 == GroupEnd(r, g, me, me)
<1>1. r \in [Slots -> Record] /\ InUse(r, me) /\ r[me].kind \in {"PROCESS", "THREAD"} /\ g \in Slots
  BY DEF Registry, Record, InUse
<1>2. IsProcess(r, g) /\ (g # me => r[me].kind = "THREAD")
  BY <1>1 DEF Registry, Groups, IsProcess, Alive
<1>3. g \notin Threads(r, g) BY <1>2 DEF Threads, IsProcess
<1>4. Registry(r, {g}, {}, me, R) BY WeakenKeeps
<1>5. /\ Registry(r0, {g}, {}, me, R)
      /\ \A t \in Threads(r0, g) \ {me} : r0[t].pend /\ OnCpu(t) /\ t # me
      /\ \A t \in Slots : t \notin Threads(r, g) \ {me} => Like(r0[t], r[t]) /\ Awake(r0[t], r[t])
  <2>1. {} \subseteq {me} OBVIOUS
  <2> QED BY <1>4, <2>1, GroupEndKeeps
<1> HIDE DEF r0
<1>6. r0[me].state = "RUNNING" /\ r0[me].kind = r[me].kind /\ r0[me].tgid = g
  <2>1. Like(r0[me], r[me]) /\ Awake(r0[me], r[me]) BY <1>5
  <2> QED BY <2>1 DEF Like, Awake
<1>7. IsProcess(r0, g)
  <2>1. Like(r0[g], r[g]) /\ Awake(r0[g], r[g]) BY <1>1, <1>3, <1>5
  <2> QED BY <1>2, <2>1 DEF Like, Awake, IsProcess, Alive, InUse
<1>8. ASSUME NEW w \in Slots \ {g}, r0[w].state = "WAITING", ~r0[w].pend PROVE r0[w].tgid # g
  <2>1. InUse(r0, w) /\ r0[w].kind \in {"PROCESS", "THREAD"} BY <1>5, <1>8 DEF InUse, Registry, Record
  <2>2. CASE r0[w].kind = "PROCESS" BY <1>5, <2>1, <2>2 DEF Registry, Groups
  <2>3. CASE r0[w].kind = "THREAD" BY <1>5, <1>6, <1>8, <2>1, <2>3 DEF Threads
  <2> QED BY <2>1, <2>2, <2>3
<1>9. /\ Registry(r1, {g}, {}, me, R)
      /\ \A t \in Slots : r0[t].state # "DIED" \/ r0[t].kind = "THREAD" => Stays(r1[t], r0[t])
  <2>1. r1 = Reparent(r0, g) BY DEF r0
  <2> QED BY <1>1, <1>5, <1>8, <2>1, ReparentKeeps
<1>10. r1[me].state = "RUNNING" /\ r1[me].kind = r[me].kind /\ r1[me].tgid = g /\ IsProcess(r1, g)
  <2>1. Stays(r1[me], r0[me]) /\ Stays(r1[g], r0[g]) BY <1>1, <1>6, <1>7, <1>9 DEF IsProcess, Alive
  <2> QED BY <1>1, <1>6, <1>7, <2>1 DEF Stays, Alike, IsProcess, Alive, InUse
<1>11. CASE g = me
  <2>1. r2 = r1 BY <1>11
  <2>2. Alive(r1, me) BY <1>10, <1>11 DEF IsProcess
  <2>3. Registry(q, {g} \ {me}, {} \cup {me}, me, R) BY <1>9, <2>1, <2>2, FinishPendingKeeps
  <2> QED BY <1>11, <2>3, WeakenKeeps
<1>12. CASE g # me
  <2>1. r2 = Terminate(r1, g, me) BY <1>2, <1>12 DEF IsProcess, Alive
  <2>2. CASE OnCpu(g)
    <3>1. r2 = [r1 EXCEPT ![g].pend = TRUE] BY <1>12, <2>1, <2>2 DEF Terminate
    <3>2. r2[me] = r1[me] BY <1>12, <3>1, <1>9 DEF Registry
    <3>3. Alive(r2, me) BY <1>10, <3>2 DEF Alive, InUse
    <3>4. Registry(r2, {g} \ {g}, {}, me, R)
      <4>1. Alive(r1, g) BY <1>10 DEF IsProcess
      <4> QED BY <1>9, <2>1, <4>1, TerminateKeeps
    <3>5. Registry(q, ({g} \ {g}) \ {me}, {} \cup {me}, me, R) BY <3>3, <3>4, FinishPendingKeeps
    <3> QED BY <3>5, WeakenKeeps
  <2>3. CASE ~OnCpu(g)
    <3>1. r2 = FinishPending(r1, g, me) BY <2>1, <2>3 DEF Terminate
    <3>2. me \in Threads(r1, g) BY <1>2, <1>10, <1>12 DEF Threads, InUse
    <3>3. /\ Registry(r2, {g} \ {g}, {} \cup {g}, me, R)
          /\ r2[me].state = "WILL_EMPTY" /\ ~r2[me].joinable /\ r2[me].kind = "THREAD"
      <4>1. {} \subseteq {me} /\ r1[me].state # "DIED" BY <1>10
      <4>2. me \in Slots => OnCpu(me) OBVIOUS
      <4>3. OnCpu(g) => g = me BY <2>3
      <4>4. IsProcess(r1, g) /\ Registry(r1, {g}, {}, me, R) BY <1>9, <1>10
      <4> DEFINE X == {g}
                 P == {}
      <4>5. P \subseteq {me} /\ Registry(r1, X, P, me, R) BY <4>4
      <4> HIDE DEF X, P
      <4>6. /\ Registry(r2, X \ {g}, P \cup {g}, me, R)
            /\ me \in Threads(r1, g) /\ r1[me].state # "DIED" => LeavingThread(r2[me])
        BY ONLY <3>1, <4>2, <4>3, <4>4, <4>5, FinishProcessKeeps
      <4> QED BY <3>2, <4>1, <4>6 DEF LeavingThread, X, P
    <3>4. q = Finish(r2, {me}, me, r2[me].joinable) BY <3>3 DEF FinishPending
    <3>5. Registry(q, ({g} \ {g}) \ {me}, ({} \cup {g}) \cup {me}, me, R)
      BY <3>3, <3>4, FinishThreadKeeps
    <3> QED BY <3>5, WeakenKeeps
  <2> QED BY <2>2, <2>3
<1> QED BY <1>11, <1>12

\* A step in which tasks only start and stop to wait: y is the record x of a
\* task afterwards.
Core(y, x) ==
  /\ y.gen = x.gen /\ y.kind = x.kind /\ y.tgid = x.tgid /\ y.ptid = x.ptid
  /\ y.joinable = x.joinable /\ y.mem = x.mem /\ y.pend = x.pend
  /\ y.lgen = x.lgen /\ y.pgen = x.pgen

\* A record that has been blocked or run.
Moved(y, x) ==
  /\ Core(y, x)
  /\ \/ y.state = x.state
     \/ x.state = "WAITING" /\ y.state = "RUNNING"
     \/ x.state = "RUNNING" /\ ~x.pend /\ y.state = "WAITING"

\* A step that blocks or runs tasks changes nobody's family.
LEMMA MovedFacts ==
  ASSUME NEW r \in [Slots -> Record], NEW q \in [Slots -> Record],
         \A t \in Slots : Moved(q[t], r[t])
  PROVE  /\ \A t : InUse(q, t) <=> InUse(r, t)
         /\ \A t : Alive(q, t) <=> Alive(r, t)
         /\ \A t : IsProcess(q, t) <=> IsProcess(r, t)
         /\ \A h : Threads(q, h) = Threads(r, h)
         /\ \A t \in Slots : HasThreads(q, t) <=> HasThreads(r, t)
<1>1. \A t : InUse(q, t) <=> InUse(r, t) BY DEF Moved, InUse
<1>2. \A t : Alive(q, t) <=> Alive(r, t) BY DEF Moved, InUse, Alive
<1>3. \A t : IsProcess(q, t) <=> IsProcess(r, t)
  BY <1>2 DEF Moved, Core, IsProcess, Alive, InUse
<1>4. \A h : Threads(q, h) = Threads(r, h) BY <1>1 DEF Moved, Core, Threads
<1>5. ASSUME NEW t \in Slots PROVE HasThreads(q, t) <=> HasThreads(r, t)
  <2>1. \A s \in Slots : q[s].mem = r[s].mem BY DEF Moved, Core
  <2>2. \A s \in Slots : q[s].kind = r[s].kind /\ q[s].tgid = r[s].tgid BY DEF Moved, Core
  <2> QED BY <1>1, <2>1, <2>2 DEF HasThreads
<1> QED BY <1>1, <1>2, <1>3, <1>4, <1>5

\* A step that blocks or runs tasks leaves the target of a sleeper where it is.
LEMMA MovedTarget ==
  ASSUME NEW r \in [Slots -> Record], NEW q \in [Slots -> Record],
         \A t \in Slots : Moved(q[t], r[t]),
         NEW w \in Slots, q[w].wtid = r[w].wtid, q[w].wgen = r[w].wgen, q[w].call = r[w].call,
         Target(r, w)
  PROVE  Target(q, w)
<1>1. Alive(q, r[w].wtid) BY MovedFacts DEF Target
<1>2. Core(q[w], r[w]) /\ Core(q[r[w].wtid], r[r[w].wtid]) BY <1>1 DEF Alive, InUse, Moved
<1> QED BY <1>1, <1>2 DEF Target, Core

\* A step that blocks or runs tasks keeps the parts of the invariant when the locks and
\* the sleepers are in order.
LEMMA MovedKeeps ==
  ASSUME NEW r, NEW X, NEW P, NEW me, NEW R, Registry(r, X, P, me, R),
         NEW q \in [Slots -> Record], \A t \in Slots : Moved(q[t], r[t]),
         \A t \in Slots : q[t].state = "WAITING" /\ r[t].state = "RUNNING" => t = me,
         Locks(q), Sleepers(q, X)
  PROVE  Registry(q, X, P, me, R)
<1>1. r \in [Slots -> Record] BY DEF Registry
<1>2. /\ \A t : InUse(q, t) <=> InUse(r, t)
      /\ \A t : Alive(q, t) <=> Alive(r, t)
      /\ \A t : IsProcess(q, t) <=> IsProcess(r, t)
      /\ \A h : Threads(q, h) = Threads(r, h)
  BY <1>1, MovedFacts
<1>3. Groups(q)
  <2> SUFFICES ASSUME NEW t \in Slots, InUse(q, t)
               PROVE /\ q[t].mem <=> q[t].state # "DIED"
                     /\ q[t].kind = "PROCESS" => q[t].tgid = t /\ ~q[t].joinable
                     /\ q[t].kind = "THREAD" => IsProcess(q, q[t].tgid) /\ q[q[t].tgid].gen = q[t].lgen
    BY DEF Groups
  <2>1. /\ r[t].mem <=> r[t].state # "DIED"
        /\ r[t].kind = "PROCESS" => r[t].tgid = t /\ ~r[t].joinable
        /\ r[t].kind = "THREAD" => IsProcess(r, r[t].tgid) /\ r[r[t].tgid].gen = r[t].lgen
    BY <1>2 DEF Registry, Groups
  <2>2. q[t].mem <=> q[t].state # "DIED" BY <2>1 DEF Moved, Core
  <2>3. q[t].kind = r[t].kind /\ q[t].tgid = r[t].tgid /\ q[t].lgen = r[t].lgen
    BY DEF Moved, Core
  <2>4. q[t].kind = "PROCESS" => ~q[t].joinable BY <2>1 DEF Moved, Core
  <2>5. q[r[t].tgid].gen = r[r[t].tgid].gen
    <3>1. r[t].tgid \in Slots BY <1>1 DEF Record
    <3> QED BY <3>1 DEF Moved, Core
  <2> QED BY <1>2, <2>1, <2>2, <2>3, <2>4, <2>5
<1>4. Parents(q)
  <2> SUFFICES ASSUME NEW t \in Slots, InUse(q, t)
               PROVE /\ q[t].kind = "PROCESS" /\ q[t].ptid \notin Nobody =>
                           IsProcess(q, q[t].ptid) /\ q[q[t].ptid].gen = q[t].pgen
                     /\ q[t].state = "DIED" =>
                          IF q[t].kind = "THREAD" THEN q[t].joinable ELSE q[t].ptid \notin Nobody
    BY DEF Parents
  <2>1. /\ r[t].kind = "PROCESS" /\ r[t].ptid \notin Nobody =>
              IsProcess(r, r[t].ptid) /\ r[r[t].ptid].gen = r[t].pgen
        /\ r[t].state = "DIED" =>
             IF r[t].kind = "THREAD" THEN r[t].joinable ELSE r[t].ptid \notin Nobody
    BY <1>2 DEF Registry, Parents
  <2>2. q[t].kind = r[t].kind /\ q[t].ptid = r[t].ptid /\ q[t].pgen = r[t].pgen
    BY DEF Moved, Core
  <2>3. q[t].joinable = r[t].joinable /\ (q[t].state = "DIED" <=> r[t].state = "DIED")
    BY DEF Moved, Core
  <2>4. IsProcess(r, r[t].ptid) => q[r[t].ptid].gen = r[r[t].ptid].gen
    BY DEF Moved, Core, IsProcess, Alive, InUse
  <2> QED BY <1>2, <2>1, <2>2, <2>3, <2>4
<1>5. Pending(q, P)
  <2> SUFFICES ASSUME NEW t \in Slots, q[t].pend
               PROVE  /\ Alive(q, t)
                      /\ \/ OnCpu(t) /\ q[t].state = "RUNNING" /\ t \notin P
                         \/ /\ q[t].kind = "PROCESS"
                            /\ \A s \in Threads(q, t) : q[s].state # "DIED" => q[s].pend /\ OnCpu(s)
    BY DEF Pending
  <2>1. r[t].pend BY DEF Moved, Core
  <2>2. /\ Alive(r, t)
        /\ \/ OnCpu(t) /\ r[t].state = "RUNNING" /\ t \notin P
           \/ /\ r[t].kind = "PROCESS"
              /\ \A s \in Threads(r, t) : r[s].state # "DIED" => r[s].pend /\ OnCpu(s)
    BY <2>1 DEF Registry, Pending
  <2>3. r[t].state = "RUNNING" => q[t].state = "RUNNING" BY <2>1 DEF Moved
  <2>4. q[t].kind = r[t].kind BY DEF Moved, Core
  <2>5. ASSUME NEW s \in Threads(r, t)
        PROVE  (q[s].state # "DIED" => r[s].state # "DIED") /\ (r[s].pend => q[s].pend)
    <3>1. s \in Slots BY DEF Threads
    <3>2. q[s].pend = r[s].pend BY <3>1 DEF Moved, Core
    <3> QED BY <3>1, <3>2 DEF Moved
  <2> QED BY <1>2, <2>2, <2>3, <2>4, <2>5
<1>6. Running(q, me)
  <2> SUFFICES ASSUME NEW t \in Slots, OnCpu(t), t # me PROVE q[t].state \in Executing
    BY DEF Running
  <2>1. r[t].state \in Executing BY DEF Registry, Running
  <2> QED BY <2>1 DEF Moved, Executing
<1>7. Leaving(q, R)
  BY DEF Moved, Core, Registry, Leaving
<1> QED BY <1>3, <1>4, <1>5, <1>6, <1>7 DEF Registry

\* The caller goes to sleep, or returns to user mode.
LEMMA SelfKeeps ==
  ASSUME NEW r, NEW P, NEW me \in Slots, NEW R, Registry(r, {}, P, me, R),
         r[me].state = "RUNNING", ~r[me].pend,
         NEW y \in Record, Core(y, r[me]), y.owner = r[me].owner, y.depth = r[me].depth,
         y.state \in {"RUNNING", "WAITING"},
         y.call = "lock" => MaxDepth > 0 /\ r[r[me].tgid].owner # me,
         NEW q, q = [r EXCEPT ![me] = y],
         y.state = "WAITING" =>
           \/ y.call = "group" /\ y.reason = "child" /\ y.wtid = NONE /\ HasThreads(r, me)
           \/ y.call = "lock" /\ y.reason = "lock" /\ r[r[me].tgid].owner # NONE
           \/ y.call \in {"wait", "join"} /\ y.reason = "child" /\ Target(q, me)
  PROVE  Registry(q, {}, P, me, R)
<1>1. r \in [Slots -> Record] BY DEF Registry
<1>2. q \in [Slots -> Record] /\ q[me] = y /\ \A t \in Slots : t # me => q[t] = r[t] BY <1>1
<1>3. \A t \in Slots : Moved(q[t], r[t]) BY <1>2 DEF Moved, Core
<1>4. /\ \A t : InUse(q, t) <=> InUse(r, t)
      /\ \A t : Alive(q, t) <=> Alive(r, t)
      /\ \A t \in Slots : HasThreads(q, t) <=> HasThreads(r, t)
  BY <1>1, <1>2, <1>3, MovedFacts
<1>5. \A t \in Slots : /\ q[t].owner = r[t].owner /\ q[t].depth = r[t].depth /\ q[t].tgid = r[t].tgid
                       /\ r[t].tgid \in Slots /\ r[t].owner \in Slots \cup {NONE}
  BY <1>1, <1>2 DEF Core, Record
<1>6. Locks(q)
  <2> SUFFICES ASSUME NEW t \in Slots, InUse(q, t)
               PROVE /\ q[t].owner # NONE => Alive(q, q[t].owner) /\ q[q[t].owner].tgid = t
                                               /\ q[t].depth > 0
                     /\ q[t].owner = NONE => q[t].depth = 0
                     /\ q[t].call = "lock" => MaxDepth > 0 /\ q[q[t].tgid].owner # t
    BY DEF Locks
  <2>1. /\ r[t].owner # NONE => Alive(r, r[t].owner) /\ r[r[t].owner].tgid = t /\ r[t].depth > 0
        /\ r[t].owner = NONE => r[t].depth = 0
        /\ r[t].call = "lock" => MaxDepth > 0 /\ r[r[t].tgid].owner # t
    BY <1>4 DEF Registry, Locks
  <2>2. q[t].owner = r[t].owner /\ q[t].depth = r[t].depth BY <1>5
  <2>3. r[t].owner # NONE => q[r[t].owner].tgid = r[r[t].owner].tgid BY <1>5
  <2>4. ASSUME q[t].call = "lock" PROVE MaxDepth > 0 /\ q[q[t].tgid].owner # t
    <3>1. q[q[t].tgid].owner = r[r[t].tgid].owner BY <1>5
    <3> QED BY <1>2, <2>1, <2>4, <3>1
  <2> QED BY <1>4, <2>1, <2>2, <2>3, <2>4
<1>7. Sleepers(q, {})
  <2> SUFFICES ASSUME NEW w \in Slots, q[w].state = "WAITING"
               PROVE  IF q[w].pend \/ q[w].call = "group"
                      THEN q[w].reason = "child" /\ q[w].wtid = NONE /\ HasThreads(q, w)
                      ELSE IF q[w].call = "lock"
                      THEN q[w].reason = "lock" /\ q[q[w].tgid].owner \notin {NONE, w}
                      ELSE /\ q[w].call \in {"wait", "join"} /\ q[w].reason = "child"
                           /\ w \notin {} => Target(q, w)
    BY DEF Sleepers
  <2>1. CASE w = me
    <3>1. ~q[w].pend BY <1>2, <2>1 DEF Core
    <3>2. q[q[w].tgid].owner = r[r[w].tgid].owner BY <1>5
    <3> QED BY <1>2, <1>4, <2>1, <3>1, <3>2
  <2>2. CASE w # me
    <3>1. q[w] = r[w] BY <1>2, <2>2
    <3>2. IF r[w].pend \/ r[w].call = "group"
          THEN r[w].reason = "child" /\ r[w].wtid = NONE /\ HasThreads(r, w)
          ELSE IF r[w].call = "lock"
          THEN r[w].reason = "lock" /\ r[r[w].tgid].owner \notin {NONE, w}
          ELSE /\ r[w].call \in {"wait", "join"} /\ r[w].reason = "child"
               /\ w \notin {} => Target(r, w)
      BY <3>1 DEF Registry, Sleepers
    <3>3. Target(r, w) => Target(q, w) BY <1>1, <1>2, <1>3, <3>1, MovedTarget
    <3>4. q[q[w].tgid].owner = r[r[w].tgid].owner BY <1>5
    <3> QED BY <1>4, <3>1, <3>2, <3>3, <3>4
  <2> QED BY <2>1, <2>2
<1>8. \A t \in Slots : q[t].state = "WAITING" /\ r[t].state = "RUNNING" => t = me BY <1>2
<1> QED BY <1>2, <1>3, <1>6, <1>7, <1>8, MovedKeeps

\* The caller takes or gives up the group lock of its leader l.
LEMMA LockKeeps ==
  ASSUME NEW r, NEW P, NEW me \in Slots, NEW R, Registry(r, {}, P, me, R),
         r[me].state = "RUNNING", r[me].call # "lock", NEW l \in Slots, r[me].tgid = l,
         NEW q \in [Slots -> Record],
         \A t \in Slots : Like(q[t], r[t]) /\ Awake(q[t], r[t]),
         \A t \in Slots : r[t].reason # "lock" => q[t].state = r[t].state,
         \A t \in Slots : t # l => q[t].owner = r[t].owner /\ q[t].depth = r[t].depth,
         \/ /\ q[l].owner = NONE /\ q[l].depth = 0
            /\ \A w \in Slots : r[w].tgid = l /\ r[w].state = "WAITING" /\ r[w].reason = "lock"
                                  => q[w].state # "WAITING"
         \/ q[l].owner = me /\ q[l].depth > 0 /\ r[l].owner \in {NONE, me}
  PROVE  Registry(q, {}, P, me, R)
<1>1. r \in [Slots -> Record] BY DEF Registry
<1>2. \A t \in Slots : Core(q[t], r[t])
  <2> SUFFICES ASSUME NEW t \in Slots PROVE Core(q[t], r[t]) OBVIOUS
  <2>1. Like(q[t], r[t]) OBVIOUS
  <2>2. q[t].joinable = r[t].joinable /\ q[t].mem = r[t].mem /\ q[t].pend = r[t].pend
    BY <2>1 DEF Like
  <2> QED BY <2>1, <2>2 DEF Core, Like
<1>3. \A t \in Slots : Moved(q[t], r[t]) BY <1>2 DEF Moved, Awake
<1>4. /\ \A t : InUse(q, t) <=> InUse(r, t)
      /\ \A t : Alive(q, t) <=> Alive(r, t)
      /\ \A t \in Slots : HasThreads(q, t) <=> HasThreads(r, t)
  BY <1>1, <1>3, MovedFacts
<1>5. \A t \in Slots : /\ q[t].tgid = r[t].tgid /\ q[t].call = r[t].call
                       /\ q[t].wtid = r[t].wtid /\ q[t].wgen = r[t].wgen
                       /\ r[t].tgid \in Slots /\ r[t].owner \in Slots \cup {NONE}
  BY <1>1 DEF Like, Record
<1>6. Alive(r, me) /\ me # NONE BY LifecycleConstants DEF Alive, InUse, NONE
<1>7. Locks(q)
  <2> SUFFICES ASSUME NEW t \in Slots, InUse(q, t)
               PROVE /\ q[t].owner # NONE => Alive(q, q[t].owner) /\ q[q[t].owner].tgid = t
                                               /\ q[t].depth > 0
                     /\ q[t].owner = NONE => q[t].depth = 0
                     /\ q[t].call = "lock" => MaxDepth > 0 /\ q[q[t].tgid].owner # t
    BY DEF Locks
  <2>1. /\ r[t].owner # NONE => Alive(r, r[t].owner) /\ r[r[t].owner].tgid = t /\ r[t].depth > 0
        /\ r[t].owner = NONE => r[t].depth = 0
        /\ r[t].call = "lock" => MaxDepth > 0 /\ r[r[t].tgid].owner # t
    BY <1>4 DEF Registry, Locks
  <2>2. /\ q[t].owner # NONE => Alive(q, q[t].owner) /\ q[q[t].owner].tgid = t
                                               /\ q[t].depth > 0
        /\ q[t].owner = NONE => q[t].depth = 0
    <3>1. CASE t = l BY <1>4, <1>5, <1>6, <3>1
    <3>2. CASE t # l BY <1>4, <1>5, <2>1, <3>2
    <3> QED BY <3>1, <3>2
  <2>3. ASSUME q[t].call = "lock" PROVE MaxDepth > 0 /\ q[q[t].tgid].owner # t
    <3>1. r[t].call = "lock" /\ t # me /\ t # NONE BY <1>5, <2>3, LifecycleConstants DEF NONE
    <3>2. CASE r[t].tgid = l BY <1>5, <2>1, <3>1, <3>2
    <3>3. CASE r[t].tgid # l BY <1>5, <2>1, <3>1, <3>3
    <3> QED BY <3>2, <3>3
  <2> QED BY <2>2, <2>3
<1>8. Sleepers(q, {})
  <2> SUFFICES ASSUME NEW w \in Slots, q[w].state = "WAITING"
               PROVE  IF q[w].pend \/ q[w].call = "group"
                      THEN q[w].reason = "child" /\ q[w].wtid = NONE /\ HasThreads(q, w)
                      ELSE IF q[w].call = "lock"
                      THEN q[w].reason = "lock" /\ q[q[w].tgid].owner \notin {NONE, w}
                      ELSE /\ q[w].call \in {"wait", "join"} /\ q[w].reason = "child"
                           /\ w \notin {} => Target(q, w)
    BY DEF Sleepers
  <2>1. r[w].state = "WAITING" /\ q[w].reason = r[w].reason BY DEF Awake
  <2>2. IF r[w].pend \/ r[w].call = "group"
        THEN r[w].reason = "child" /\ r[w].wtid = NONE /\ HasThreads(r, w)
        ELSE IF r[w].call = "lock"
        THEN r[w].reason = "lock" /\ r[r[w].tgid].owner \notin {NONE, w}
        ELSE /\ r[w].call \in {"wait", "join"} /\ r[w].reason = "child"
             /\ w \notin {} => Target(r, w)
    BY <2>1 DEF Registry, Sleepers
  <2>3. Target(r, w) => Target(q, w) BY <1>1, <1>3, <1>5, MovedTarget
  <2>4. q[w].pend = r[w].pend BY <1>2 DEF Core
  <2>5. ASSUME r[w].reason = "lock", r[r[w].tgid].owner \notin {NONE, w}
        PROVE  q[r[w].tgid].owner \notin {NONE, w}
    <3>1. CASE r[w].tgid = l BY <2>1, <2>5, <3>1
    <3>2. CASE r[w].tgid # l BY <1>5, <2>5, <3>2
    <3> QED BY <3>1, <3>2
  <2> QED BY <1>4, <1>5, <2>1, <2>2, <2>3, <2>4, <2>5
<1>9. \A t \in Slots : q[t].state = "WAITING" /\ r[t].state = "RUNNING" => t = me BY DEF Awake
<1> QED BY <1>3, <1>7, <1>8, <1>9, MovedKeeps

\* task_publish of record y in slot n.
Put(r, n, y) == [r EXCEPT ![n] = y]

\* What every new task starts with.
Fresh(y) ==
  /\ y.state = "RUNNING" /\ y.mem /\ ~y.pend /\ y.owner = NONE /\ y.depth = 0
  /\ y.call = "user"

\* It is a leader whose parent is a process or nobody, or a thread of a process.
Fits(r, P, y, n) ==
  /\ y.kind = "PROCESS" =>
       /\ y.tgid = n /\ ~y.joinable
       /\ y.ptid \notin Nobody => IsProcess(r, y.ptid) /\ r[y.ptid].gen = y.pgen
  /\ y.kind = "THREAD" =>
       /\ IsProcess(r, y.tgid) /\ r[y.tgid].gen = y.lgen
       /\ r[y.tgid].pend => OnCpu(y.tgid) /\ r[y.tgid].state = "RUNNING" /\ y.tgid \notin P

\* task_publish of a new process or of a new thread of a process that is not
\* waiting for its threads to end.
LEMMA NewKeeps ==
  ASSUME NEW r, NEW P, NEW me, NEW R, Registry(r, {}, P, me, R),
         NEW n \in Slots, r[n].state = "EMPTY",
         NEW y \in Record, Fresh(y), Fits(r, P, y, n), NEW q, q = Put(r, n, y)
  PROVE  Registry(q, {}, P, me, R)
<1>1. r \in [Slots -> Record] BY DEF Registry
<1>2. q \in [Slots -> Record] /\ q[n] = y /\ \A t \in Slots : t # n => q[t] = r[t]
  BY <1>1 DEF Put
<1>a. /\ y.state = "RUNNING" /\ y.mem /\ ~y.pend /\ y.owner = NONE /\ y.depth = 0
      /\ y.call = "user"
  BY DEF Fresh
<1>b. /\ y.kind = "PROCESS" =>
           /\ y.tgid = n /\ ~y.joinable
           /\ y.ptid \notin Nobody => IsProcess(r, y.ptid) /\ r[y.ptid].gen = y.pgen
      /\ y.kind = "THREAD" =>
           /\ IsProcess(r, y.tgid) /\ r[y.tgid].gen = y.lgen
           /\ r[y.tgid].pend => OnCpu(y.tgid) /\ r[y.tgid].state = "RUNNING" /\ y.tgid \notin P
  BY DEF Fits
<1> USE <1>a, <1>b
<1>3. ~InUse(r, n) /\ InUse(q, n) BY <1>2 DEF InUse
<1>4. \A t : InUse(r, t) => t \in Slots /\ t # n /\ q[t] = r[t] /\ InUse(q, t)
  BY <1>2, <1>3 DEF InUse
<1>5. \A t : InUse(q, t) => t = n \/ InUse(r, t) BY <1>2 DEF InUse
<1>6. \A t : Alive(r, t) => t \in Slots /\ t # n /\ q[t] = r[t] /\ Alive(q, t) BY <1>4 DEF Alive
<1>7. \A t : IsProcess(r, t) => t \in Slots /\ t # n /\ q[t] = r[t] /\ IsProcess(q, t)
  BY <1>6 DEF IsProcess
<1>8. y.kind \in {"PROCESS", "THREAD"} /\ n # NONE BY LifecycleConstants DEF Record, NONE
<1>9. Groups(q)
  <2> SUFFICES ASSUME NEW t \in Slots, InUse(q, t)
               PROVE /\ q[t].mem <=> q[t].state # "DIED"
                     /\ q[t].kind = "PROCESS" => q[t].tgid = t /\ ~q[t].joinable
                     /\ q[t].kind = "THREAD" => IsProcess(q, q[t].tgid) /\ q[q[t].tgid].gen = q[t].lgen
    BY DEF Groups
  <2>1. CASE t = n BY <1>2, <1>7, <2>1
  <2>2. CASE t # n
    <3>1. InUse(r, t) /\ q[t] = r[t] BY <1>4, <1>5, <2>2
    <3>2. /\ r[t].mem <=> r[t].state # "DIED"
          /\ r[t].kind = "PROCESS" => r[t].tgid = t /\ ~r[t].joinable
          /\ r[t].kind = "THREAD" => IsProcess(r, r[t].tgid) /\ r[r[t].tgid].gen = r[t].lgen
      BY <3>1 DEF Registry, Groups
    <3>3. r[t].kind = "THREAD" => IsProcess(q, r[t].tgid) /\ q[r[t].tgid] = r[r[t].tgid]
      BY <1>7, <3>2
    <3> QED BY <3>1, <3>2, <3>3
  <2> QED BY <2>1, <2>2
<1>10. Parents(q)
  <2> SUFFICES ASSUME NEW t \in Slots, InUse(q, t)
               PROVE /\ q[t].kind = "PROCESS" /\ q[t].ptid \notin Nobody =>
                           IsProcess(q, q[t].ptid) /\ q[q[t].ptid].gen = q[t].pgen
                     /\ q[t].state = "DIED" =>
                          IF q[t].kind = "THREAD" THEN q[t].joinable ELSE q[t].ptid \notin Nobody
    BY DEF Parents
  <2>1. CASE t = n BY <1>2, <1>7, <2>1
  <2>2. CASE t # n
    <3>1. InUse(r, t) /\ q[t] = r[t] BY <1>4, <1>5, <2>2
    <3>2. /\ r[t].kind = "PROCESS" /\ r[t].ptid \notin Nobody =>
                IsProcess(r, r[t].ptid) /\ r[r[t].ptid].gen = r[t].pgen
          /\ r[t].state = "DIED" =>
               IF r[t].kind = "THREAD" THEN r[t].joinable ELSE r[t].ptid \notin Nobody
      BY <3>1 DEF Registry, Parents
    <3> QED BY <1>7, <3>1, <3>2
  <2> QED BY <2>1, <2>2
<1>11. ASSUME NEW t \in Slots, InUse(r, t) PROVE r[t].tgid \in Slots \ {n} /\ q[r[t].tgid] = r[r[t].tgid]
  <2>1. r[t].kind \in {"PROCESS", "THREAD"} BY <1>1 DEF Record
  <2>2. InUse(r, r[t].tgid) BY <1>11, <2>1 DEF Registry, Groups, IsProcess, Alive
  <2> QED BY <1>4, <2>2
<1>12. Locks(q)
  <2> SUFFICES ASSUME NEW t \in Slots, InUse(q, t)
               PROVE /\ q[t].owner # NONE => Alive(q, q[t].owner) /\ q[q[t].owner].tgid = t
                                               /\ q[t].depth > 0
                     /\ q[t].owner = NONE => q[t].depth = 0
                     /\ q[t].call = "lock" => MaxDepth > 0 /\ q[q[t].tgid].owner # t
    BY DEF Locks
  <2>1. CASE t = n BY <1>2, <2>1
  <2>2. CASE t # n
    <3>1. InUse(r, t) /\ q[t] = r[t] BY <1>4, <1>5, <2>2
    <3>2. /\ r[t].owner # NONE => Alive(r, r[t].owner) /\ r[r[t].owner].tgid = t /\ r[t].depth > 0
          /\ r[t].owner = NONE => r[t].depth = 0
          /\ r[t].call = "lock" => MaxDepth > 0 /\ r[r[t].tgid].owner # t
      BY <3>1 DEF Registry, Locks
    <3>3. r[t].owner # NONE => Alive(q, r[t].owner) /\ q[r[t].owner] = r[r[t].owner]
      BY <1>6, <3>2
    <3>4. q[r[t].tgid] = r[r[t].tgid] BY <1>11, <3>1
    <3> QED BY <3>1, <3>2, <3>3, <3>4
  <2> QED BY <2>1, <2>2
<1>13. ASSUME NEW w \in Slots, w # n, HasThreads(r, w) PROVE HasThreads(q, w)
  <2>1. PICK s \in Slots \ {w} : /\ InUse(r, s) /\ r[s].kind = "THREAD" /\ r[s].tgid = r[w].tgid
                                 /\ r[s].mem
    BY <1>13 DEF HasThreads
  <2>2. InUse(q, s) /\ q[s] = r[s] /\ q[w] = r[w] BY <1>2, <1>4, <1>13, <2>1
  <2> QED BY <2>1, <2>2 DEF HasThreads
<1>14. Sleepers(q, {})
  <2> SUFFICES ASSUME NEW w \in Slots, q[w].state = "WAITING"
               PROVE  IF q[w].pend \/ q[w].call = "group"
                      THEN q[w].reason = "child" /\ q[w].wtid = NONE /\ HasThreads(q, w)
                      ELSE IF q[w].call = "lock"
                      THEN q[w].reason = "lock" /\ q[q[w].tgid].owner \notin {NONE, w}
                      ELSE /\ q[w].call \in {"wait", "join"} /\ q[w].reason = "child"
                           /\ w \notin {} => Target(q, w)
    BY DEF Sleepers
  <2>1. w # n /\ q[w] = r[w] BY <1>2
  <2>2. IF r[w].pend \/ r[w].call = "group"
        THEN r[w].reason = "child" /\ r[w].wtid = NONE /\ HasThreads(r, w)
        ELSE IF r[w].call = "lock"
        THEN r[w].reason = "lock" /\ r[r[w].tgid].owner \notin {NONE, w}
        ELSE /\ r[w].call \in {"wait", "join"} /\ r[w].reason = "child"
             /\ w \notin {} => Target(r, w)
    BY <2>1 DEF Registry, Sleepers
  <2>3. ASSUME Target(r, w) PROVE Target(q, w)
    <3>1. Alive(r, r[w].wtid) BY <2>3 DEF Target
    <3>2. Alive(q, r[w].wtid) /\ q[r[w].wtid] = r[r[w].wtid] BY <1>6, <3>1
    <3> QED BY <2>1, <2>3, <3>2 DEF Target
  <2>4. HasThreads(r, w) => HasThreads(q, w) BY <1>13, <2>1
  <2>5. q[r[w].tgid] = r[r[w].tgid] BY <1>11, <2>1 DEF InUse
  <2> QED BY <2>1, <2>2, <2>3, <2>4, <2>5
<1>15. Pending(q, P)
  <2> SUFFICES ASSUME NEW t \in Slots, q[t].pend
               PROVE  /\ Alive(q, t)
                      /\ \/ OnCpu(t) /\ q[t].state = "RUNNING" /\ t \notin P
                         \/ /\ q[t].kind = "PROCESS"
                            /\ \A s \in Threads(q, t) : q[s].state # "DIED" => q[s].pend /\ OnCpu(s)
    BY DEF Pending
  <2>1. t # n /\ q[t] = r[t] BY <1>2
  <2>2. /\ Alive(r, t)
        /\ \/ OnCpu(t) /\ r[t].state = "RUNNING" /\ t \notin P
           \/ /\ r[t].kind = "PROCESS"
              /\ \A s \in Threads(r, t) : r[s].state # "DIED" => r[s].pend /\ OnCpu(s)
    BY <2>1 DEF Registry, Pending
  <2>3. CASE y.kind = "THREAD" /\ y.tgid = t BY <1>6, <2>1, <2>2, <2>3
  <2>4. CASE ~(y.kind = "THREAD" /\ y.tgid = t)
    <3>1. ASSUME NEW s \in Threads(q, t) PROVE s \in Threads(r, t) /\ q[s] = r[s]
      <4>1. s \in Slots /\ InUse(q, s) /\ q[s].kind = "THREAD" /\ q[s].tgid = t BY DEF Threads
      <4>2. s # n BY <1>2, <2>4, <4>1
      <4>3. InUse(r, s) /\ q[s] = r[s] BY <1>4, <1>5, <4>1, <4>2
      <4> QED BY <4>1, <4>3 DEF Threads
    <3> QED BY <1>6, <2>1, <2>2, <3>1
  <2> QED BY <2>3, <2>4
<1>16. Running(q, me) BY <1>2 DEF Registry, Running, Executing
<1>17. Leaving(q, R) BY <1>2 DEF Registry, Leaving
<1> QED BY <1>2, <1>9, <1>10, <1>12, <1>14, <1>15, <1>16, <1>17 DEF Registry

\* The task that its CPU is leaving becomes ready to be retired.
LEMMA ReadyKeeps ==
  ASSUME NEW r, NEW X, NEW P, NEW me, NEW R, Registry(r, X, P, me, R),
         NEW q, q = [t \in Slots |-> IF t = me /\ r[t].state = "WILL_EMPTY"
                                     THEN [r[t] EXCEPT !.state = "READY"] ELSE r[t]]
  PROVE  /\ Registry(q, X, P, me, R \cup {t \in Slots : t = me /\ r[t].state = "WILL_EMPTY"})
         /\ me \in Slots => q[me].state # "WILL_EMPTY"
<1> DEFINE E == {t \in Slots : t = me /\ r[t].state = "WILL_EMPTY"}
<1>1. r \in [Slots -> Record] BY DEF Registry
<1>2. q = [t \in Slots |-> IF t = me /\ r[t].state = "WILL_EMPTY" THEN Entering(r[t], "READY")
                                                                  ELSE r[t]]
  BY DEF Entering
<1>3. q \in [Slots -> Record] BY <1>1, <1>2, EnteringLemma DEF States
<1>4. \A t \in Slots : t \notin E => q[t] = r[t] BY <1>2
<1>5. ASSUME NEW t \in Slots, t \in E
      PROVE  q[t].state = "READY" /\ ~InUse(r, t) /\ ~r[t].pend /\ ~q[t].pend /\ t = me
  <2>1. q[t] = Entering(r[t], "READY") /\ t = me /\ r[t].state = "WILL_EMPTY" BY <1>2, <1>5
  <2>2. ~InUse(r, t) BY <2>1 DEF InUse
  <2>3. ~r[t].pend BY <2>2 DEF Registry, Pending, Alive
  <2>4. Like(q[t], r[t]) /\ q[t].state = "READY" BY <1>1, <2>1, EnteringLemma DEF States
  <2>5. ~q[t].pend BY <2>3, <2>4 DEF Like
  <2> QED BY <2>1, <2>2, <2>3, <2>4, <2>5
<1> HIDE DEF E
<1>6. \A t : /\ InUse(q, t) <=> InUse(r, t)
             /\ InUse(r, t) => t \in Slots /\ t \notin E /\ q[t] = r[t]
  BY <1>4, <1>5 DEF InUse
<1>7. \A t : Alive(q, t) <=> Alive(r, t) BY <1>6 DEF Alive
<1>8. \A t : IsProcess(q, t) <=> IsProcess(r, t) BY <1>6 DEF IsProcess, Alive
<1>9. \A t : Threads(q, t) = Threads(r, t) BY <1>6 DEF Threads
<1>10. ASSUME NEW t, InUse(r, t) PROVE InUse(r, r[t].tgid)
  <2>1. t \in Slots /\ r[t].kind \in {"PROCESS", "THREAD"} BY <1>1, <1>10 DEF Record, InUse
  <2> QED BY <1>10, <2>1 DEF Registry, Groups, IsProcess, Alive
<1>11. Groups(q)
  <2> SUFFICES ASSUME NEW t \in Slots, InUse(r, t)
               PROVE /\ q[t].mem <=> q[t].state # "DIED"
                     /\ q[t].kind = "PROCESS" => q[t].tgid = t /\ ~q[t].joinable
                     /\ q[t].kind = "THREAD" => IsProcess(q, q[t].tgid) /\ q[q[t].tgid].gen = q[t].lgen
    BY <1>6 DEF Groups
  <2>1. /\ r[t].mem <=> r[t].state # "DIED"
        /\ r[t].kind = "PROCESS" => r[t].tgid = t /\ ~r[t].joinable
        /\ r[t].kind = "THREAD" => IsProcess(r, r[t].tgid) /\ r[r[t].tgid].gen = r[t].lgen
    BY DEF Registry, Groups
  <2>2. q[r[t].tgid] = r[r[t].tgid] /\ q[t] = r[t] BY <1>6, <1>10
  <2>3. r[t].kind = "THREAD" => IsProcess(q, r[t].tgid) BY <1>8, <2>1
  <2> QED BY <2>1, <2>2, <2>3
<1>12. Parents(q)
  <2> SUFFICES ASSUME NEW t \in Slots, InUse(r, t)
               PROVE /\ q[t].kind = "PROCESS" /\ q[t].ptid \notin Nobody =>
                           IsProcess(q, q[t].ptid) /\ q[q[t].ptid].gen = q[t].pgen
                     /\ q[t].state = "DIED" =>
                          IF q[t].kind = "THREAD" THEN q[t].joinable ELSE q[t].ptid \notin Nobody
    BY <1>6 DEF Parents
  <2>1. /\ r[t].kind = "PROCESS" /\ r[t].ptid \notin Nobody =>
              IsProcess(r, r[t].ptid) /\ r[r[t].ptid].gen = r[t].pgen
        /\ r[t].state = "DIED" =>
             IF r[t].kind = "THREAD" THEN r[t].joinable ELSE r[t].ptid \notin Nobody
    BY DEF Registry, Parents
  <2>2. IsProcess(r, r[t].ptid) => q[r[t].ptid] = r[r[t].ptid] BY <1>6 DEF IsProcess, Alive
  <2> QED BY <1>6, <1>8, <2>1, <2>2
<1>13. Locks(q)
  <2> SUFFICES ASSUME NEW t \in Slots, InUse(r, t)
               PROVE /\ q[t].owner # NONE => Alive(q, q[t].owner) /\ q[q[t].owner].tgid = t
                                               /\ q[t].depth > 0
                     /\ q[t].owner = NONE => q[t].depth = 0
                     /\ q[t].call = "lock" => MaxDepth > 0 /\ q[q[t].tgid].owner # t
    BY <1>6 DEF Locks
  <2>1. /\ r[t].owner # NONE => Alive(r, r[t].owner) /\ r[r[t].owner].tgid = t /\ r[t].depth > 0
        /\ r[t].owner = NONE => r[t].depth = 0
        /\ r[t].call = "lock" => MaxDepth > 0 /\ r[r[t].tgid].owner # t
    BY DEF Registry, Locks
  <2>2. Alive(r, r[t].owner) => q[r[t].owner] = r[r[t].owner] BY <1>6 DEF Alive
  <2>3. q[r[t].tgid] = r[r[t].tgid] /\ q[t] = r[t] BY <1>6, <1>10
  <2>4. Alive(r, r[t].owner) => Alive(q, r[t].owner) BY <1>7
  <2> QED BY <2>1, <2>2, <2>3, <2>4
<1>14. Sleepers(q, X)
  <2> SUFFICES ASSUME NEW w \in Slots, q[w].state = "WAITING"
               PROVE  IF q[w].pend \/ q[w].call = "group"
                      THEN q[w].reason = "child" /\ q[w].wtid = NONE /\ HasThreads(q, w)
                      ELSE IF q[w].call = "lock"
                      THEN q[w].reason = "lock" /\ q[q[w].tgid].owner \notin {NONE, w}
                      ELSE /\ q[w].call \in {"wait", "join"} /\ q[w].reason = "child"
                           /\ w \notin X => Target(q, w)
    BY DEF Sleepers
  <2>1. InUse(r, w) /\ q[w] = r[w] BY <1>6 DEF InUse
  <2>2. IF r[w].pend \/ r[w].call = "group"
        THEN r[w].reason = "child" /\ r[w].wtid = NONE /\ HasThreads(r, w)
        ELSE IF r[w].call = "lock"
        THEN r[w].reason = "lock" /\ r[r[w].tgid].owner \notin {NONE, w}
        ELSE /\ r[w].call \in {"wait", "join"} /\ r[w].reason = "child"
             /\ w \notin X => Target(r, w)
    BY <2>1 DEF Registry, Sleepers
  <2>3. Target(r, w) => Target(q, w) BY <1>6, <1>7, <2>1 DEF Target, Alive
  <2>4. HasThreads(r, w) => HasThreads(q, w) BY <1>6, <2>1 DEF HasThreads
  <2>5. q[r[w].tgid] = r[r[w].tgid] BY <1>6, <1>10, <2>1
  <2> QED BY <2>1, <2>2, <2>3, <2>4, <2>5
<1>15. Pending(q, P)
  <2> SUFFICES ASSUME NEW t \in Slots, q[t].pend
               PROVE  /\ Alive(q, t)
                      /\ \/ OnCpu(t) /\ q[t].state = "RUNNING" /\ t \notin P
                         \/ /\ q[t].kind = "PROCESS"
                            /\ \A s \in Threads(q, t) : q[s].state # "DIED" => q[s].pend /\ OnCpu(s)
    BY DEF Pending
  <2>1. q[t] = r[t] BY <1>4, <1>5
  <2>2. /\ Alive(r, t)
        /\ \/ OnCpu(t) /\ r[t].state = "RUNNING" /\ t \notin P
           \/ /\ r[t].kind = "PROCESS"
              /\ \A s \in Threads(r, t) : r[s].state # "DIED" => r[s].pend /\ OnCpu(s)
    BY <2>1 DEF Registry, Pending
  <2>3. \A s \in Threads(r, t) : q[s] = r[s] BY <1>6 DEF Threads
  <2> QED BY <1>7, <1>9, <2>1, <2>2, <2>3
<1>16. Running(q, me) BY <1>4, <1>5 DEF Registry, Running
<1>17. Leaving(q, R \cup E)
  <2> SUFFICES ASSUME NEW t \in Slots
               PROVE  /\ q[t].state = "WILL_EMPTY" => OnCpu(t) /\ ~q[t].mem
                      /\ q[t].state = "READY" <=> t \in R \cup E
    BY DEF Leaving
  <2>1. CASE t \in E BY <1>5, <2>1
  <2>2. CASE t \notin E BY <1>4, <2>2 DEF Registry, Leaving
  <2> QED BY <2>1, <2>2
<1>18. me \in Slots => q[me].state # "WILL_EMPTY" BY <1>4, <1>5 DEF E
<1> QED BY <1>3, <1>11, <1>12, <1>13, <1>14, <1>15, <1>16, <1>17, <1>18 DEF Registry, E

\* A nonempty set of naturals has its minimum, which is what Min chooses.
LEMMA MinNat ==
  ASSUME NEW S \in SUBSET Nat, S # {}
  PROVE  Min(S) \in S /\ \A y \in S : Min(S) <= y
<1>0. \A y \in S : y \in Nat OBVIOUS
<1> DEFINE Upto(x) == {y \in S : y <= x}
           T == {Upto(x) : x \in S}
<1>1. T \subseteq FiniteSubsetsOf(S)
  <2> SUFFICES ASSUME NEW x \in S PROVE Upto(x) \in SUBSET S /\ IsFiniteSet(Upto(x))
    BY DEF FiniteSubsetsOf
  <2>1. x \in Nat /\ Upto(x) \in SUBSET Nat /\ \A s \in Upto(x) : s <= x BY <1>0
  <2> QED BY <2>1, FS_BoundedSetOfNaturals
<1>2. T # {} OBVIOUS
<1>3. PICK U \in T : \A V \in T : ~ (<<V, U>> \in StrictSubsetOrdering(S))
  <2> HIDE DEF T
  <2> QED BY <1>1, <1>2, FS_StrictSubsetOrderingWellFounded, WFMin
<1>4. PICK x \in S : U = Upto(x) OBVIOUS
<1>5. ASSUME NEW y \in S, y < x PROVE FALSE
  <2>0. x \in Nat /\ y \in Nat BY <1>0
  <2>1. Upto(y) \subseteq U
    <3> SUFFICES ASSUME NEW z \in S, z <= y PROVE z <= x BY <1>4
    <3>1. z \in Nat BY <1>0
    <3> QED BY <1>5, <2>0, <3>1
  <2>2. x \in U /\ x \notin Upto(y) BY <1>0, <1>4, <1>5
  <2>3. <<Upto(y), U>> \in StrictSubsetOrdering(S) BY <2>1, <2>2, <1>4 DEF StrictSubsetOrdering
  <2> QED BY <1>3, <2>3
<1>6. \E z \in S : \A y \in S : z <= y
  BY <1>0, <1>5
<1> QED BY <1>6 DEF Min

\* task_slot_claim finds a free slot.
LEMMA ClaimedLemma ==
  ASSUME TypeOK, CanClaim
  PROVE  Claimed \in Slots /\ slot[Claimed].state = "EMPTY" /\ Claimed \in Nat
         /\ slot[Claimed].gen + 1 \in 0..MaxGen
<1>1. Free \in SUBSET Nat /\ Free # {} BY LifecycleConstants DEF Free, CanClaim
<1>2. Claimed \in Free BY <1>1, MinNat DEF Claimed
<1>3. Claimed \in Slots /\ slot[Claimed].state = "EMPTY" BY <1>2 DEF Free
<1>4. slot[Claimed].gen \in 0..MaxGen BY <1>3 DEF TypeOK, Record
<1> QED BY <1>3, <1>4, LifecycleConstants DEF CanClaim

\* free_hint stays a slot number.
LEMMA HintLemma == ASSUME TypeOK, NEW r PROVE Hint(r) \in Nat
<1> DEFINE S == {freeHint} \cup {t \in Slots : slot[t].state # "EMPTY" /\ r[t].state = "EMPTY"}
<1>1. S \in SUBSET Nat /\ S # {} BY LifecycleConstants DEF TypeOK
<1>2. Min(S) \in S BY <1>1, MinNat
<1> QED BY <1>1, <1>2 DEF Hint

\* The slots whose task is through and whose stack is still to be freed.
Ready == {t \in Slots : slot[t].state = "READY"}

\* The invariant, as the parts that a teardown keeps.
LEMMA LifeRegistry ==
  ASSUME LifeInv PROVE Registry(slot, {}, Picking, Busy, Ready)
<1>1. Leaving(slot, Ready) BY DEF LifeInv, Stacks, Leaving, Ready
<1> QED BY <1>1 DEF LifeInv, TypeOK, Stacks, Registry

\* The current task may be in any state that the others may be in.
LEMMA ExemptKeeps ==
  ASSUME NEW r, NEW X, NEW P, NEW R, NEW me, NEW you, Registry(r, X, P, me, R),
         me \in Slots /\ OnCpu(me) => me = you \/ r[me].state \in Executing
  PROVE  Registry(r, X, P, you, R)
BY DEF Registry, Running

\* A step that does not switch keeps the invariant when the registry it leaves
\* has the parts, for the place where it leaves the CPUs.
LEMMA StepInv ==
  ASSUME LifeInv, NEW P, NEW me, NEW R, Registry(slot', {}, P, me, R),
         cur' = cur, P = Picking', me = Busy', freeHint' \in Nat,
         holder' \in CPUs \cup {NoCpu}, phase' \in {"free", "begin", "pick"},
         holder' = NoCpu <=> phase' = "free", phase' = "pick" => retired' = {},
         retired' \subseteq retired, retired' \subseteq R, R \subseteq retired' \cup P,
         \A t \in P : slot'[t].state # "WILL_EMPTY"
  PROVE  LifeInv'
<1>1. \A t : OnCpu(t)' <=> OnCpu(t) BY DEF OnCpu
<1>2. slot' \in [Slots -> Record] BY DEF Registry
<1>3. TypeOK' BY <1>2 DEF LifeInv, TypeOK
<1>4. Groups(slot)' /\ Parents(slot)' /\ Locks(slot)' /\ Sleepers(slot, {})'
  BY DEF Registry, Groups, Parents, Locks, Sleepers, Target, HasThreads, IsProcess, Alive, InUse
<1>5. Pending(slot, Picking)'
  <2>1. Pending(slot', P) BY DEF Registry
  <2> QED BY <1>1, <2>1 DEF Pending, Threads, Alive, InUse
<1>6. Running(slot, Busy)'
  <2>1. Running(slot', me) BY DEF Registry
  <2> QED BY <1>1, <2>1 DEF Running, Executing
<1>7. Stacks'
  <2>1. \A c, d \in CPUs : cur'[c] = cur'[d] /\ cur'[c] # Idle => c = d BY DEF LifeInv, Stacks
  <2>2. \A c \in CPUs : cur'[c] \notin retired' BY DEF LifeInv, Stacks
  <2>3. Leaving(slot', R) BY DEF Registry
  <2>4. \A t \in Slots :
          /\ slot'[t].state = "WILL_EMPTY" => OnCpu(t)' /\ ~slot'[t].mem /\ t \notin Picking'
          /\ slot'[t].state = "READY" => t \in retired' \cup Picking'
          /\ t \in retired' => slot'[t].state = "READY"
    BY <1>1, <2>3 DEF Leaving
  <2> QED BY <1>6, <2>1, <2>2, <2>4 DEF Stacks
<1> QED BY <1>3, <1>4, <1>5, <1>7 DEF LifeInv

\* CPU c runs the kernel code of a system call of its current task.
InCall(c) == Caller(c) \/ (holder = c /\ phase = "resume")

\* What a system call may rely on: its caller runs, and its group has its leader.
LEMMA CallFacts ==
  ASSUME LifeInv, NEW c \in CPUs, InCall(c)
  PROVE  /\ cur[c] \in Slots /\ OnCpu(cur[c]) /\ slot[cur[c]].state = "RUNNING" /\ ~slot[cur[c]].pend
         /\ Registry(slot, {}, {}, cur[c], Ready) /\ Ready = retired
         /\ slot[cur[c]].kind \in {"PROCESS", "THREAD"}
         /\ Group(c) \in Slots /\ IsProcess(slot, Group(c)) /\ Leader(c) = Group(c)
<1>1. cur[c] \in Slots /\ slot[cur[c]].state = "RUNNING" /\ ~slot[cur[c]].pend
  BY DEF InCall, Caller, LifeInv, TypeOK, Stacks
<1>2. OnCpu(cur[c]) BY DEF OnCpu
<1>3. Picking = {} /\ Busy = Idle
  BY LifecycleConstants DEF InCall, Caller, LifeInv, Stacks, Picking, Busy
<1>4. Registry(slot, {}, {}, cur[c], Ready)
  <2>1. Registry(slot, {}, {}, Idle, Ready) BY <1>3, LifeRegistry
  <2>2. Idle \notin Slots BY LifecycleConstants
  <2> QED BY <2>1, <2>2, ExemptKeeps
<1>5. Ready = retired BY <1>3 DEF LifeInv, Stacks, TypeOK, Ready
<1>6. /\ slot[cur[c]].kind \in {"PROCESS", "THREAD"} /\ Group(c) \in Slots
      /\ IsProcess(slot, Group(c))
  <2>1. slot[cur[c]].kind \in {"PROCESS", "THREAD"} /\ slot[cur[c]].tgid \in Slots
    BY <1>1 DEF LifeInv, TypeOK, Record
  <2>2. InUse(slot, cur[c]) BY <1>1 DEF InUse
  <2>3. IsProcess(slot, slot[cur[c]].tgid)
    BY <1>1, <2>1, <2>2 DEF LifeInv, Groups, IsProcess, Alive
  <2> QED BY <2>1, <2>3 DEF Group
<1>7. Leader(c) = Group(c) BY <1>6 DEF Leader, IsProcess, Alive
<1> QED BY <1>1, <1>2, <1>4, <1>5, <1>6, <1>7

\* A call that returns keeps the invariant when the registry it leaves has the parts and
\* its caller still executes.
LEMMA ReturnStep ==
  ASSUME LifeInv, NEW c \in CPUs, InCall(c), Return, freeHint' \in Nat,
         Registry(slot', {}, {}, cur[c], Ready), slot'[cur[c]].state \in Executing
  PROVE  LifeInv'
<1>1. Ready = retired BY CallFacts
<1>2. cur' = cur /\ holder' = NoCpu /\ phase' = "free" /\ retired' = retired BY DEF Return
<1>3. Picking' = {} /\ Busy' = Idle BY <1>2, LifecycleConstants DEF Picking, Busy
<1>4. Registry(slot', {}, {}, Idle, Ready) BY ExemptKeeps
<1> DEFINE R == Ready
<1>5. Registry(slot', {}, {}, Idle, R) /\ R = retired BY <1>1, <1>4
<1> HIDE DEF R
<1> QED BY <1>2, <1>3, <1>5, StepInv

\* A call that ends in task_next keeps the invariant when the registry it leaves has the
\* parts.
LEMMA EnterStep ==
  ASSUME LifeInv, NEW c \in CPUs, InCall(c), EnterNext(c), freeHint' \in Nat,
         Registry(slot', {}, {}, cur[c], Ready)
  PROVE  LifeInv'
<1>1. Ready = retired BY CallFacts
<1>2. cur' = cur /\ holder' = c /\ phase' = "begin" /\ retired' = retired BY DEF EnterNext
<1>3. Picking' = {} /\ Busy' = cur[c] BY <1>2 DEF Picking, Busy
<1> DEFINE R == Ready
           me == cur[c]
<1>4. Registry(slot', {}, {}, me, R) /\ R = retired /\ me = Busy' BY <1>1, <1>3
<1> HIDE DEF R, me
<1>5. c # NoCpu BY LifecycleConstants
<1> QED BY <1>2, <1>3, <1>4, <1>5, StepInv

\* The records that task_publish can put into a slot.
NewProcess(n, gen, ptid, pgen) ==
  [[Empty(n, gen) EXCEPT !.state = "RUNNING", !.mem = TRUE, !.lgen = gen]
     EXCEPT !.ptid = ptid, !.pgen = pgen]
NewThread(n, gen, joinable, g, ptid, pgen, lgen) ==
  [[Empty(n, gen) EXCEPT !.state = "RUNNING", !.mem = TRUE, !.lgen = gen]
     EXCEPT !.kind = "THREAD", !.tgid = g, !.joinable = joinable, !.ptid = ptid,
            !.pgen = pgen, !.lgen = lgen]

\* task_publish of a child: a fresh record of a process with the parent it was given.
LEMMA NewProcessLemma ==
  ASSUME NEW n \in Slots, NEW gen \in 0..MaxGen, NEW ptid \in Slots \cup {NONE, REAPER},
         NEW pgen \in 0..MaxGen, NEW y, y = NewProcess(n, gen, ptid, pgen)
  PROVE  /\ y \in Record /\ Fresh(y) /\ y.gen = gen /\ y.kind = "PROCESS" /\ y.tgid = n
         /\ ~y.joinable /\ y.ptid = ptid /\ y.pgen = pgen
<1>1. y = [state |-> "RUNNING", gen |-> gen, kind |-> "PROCESS", tgid |-> n, ptid |-> ptid,
           joinable |-> FALSE, pend |-> FALSE, mem |-> TRUE, reason |-> "none",
           wtid |-> NONE, wgen |-> 0, call |-> "user", owner |-> NONE, depth |-> 0,
           lgen |-> gen, pgen |-> pgen]
  BY DEF NewProcess, Empty
<1>2. 0 \in 0..MaxGen /\ 0 \in 0..MaxDepth BY LifecycleConstants
<1>3. y \in Record BY <1>1, <1>2 DEF Record, States, Calls
<1>4. Fresh(y) /\ y.gen = gen BY <1>1 DEF Fresh
<1>5. y.kind = "PROCESS" /\ y.tgid = n /\ ~y.joinable /\ y.ptid = ptid /\ y.pgen = pgen BY <1>1
<1> QED BY <1>3, <1>4, <1>5

NewOrphan(n, gen) ==
  [[Empty(n, gen) EXCEPT !.state = "RUNNING", !.mem = TRUE, !.lgen = gen] EXCEPT !.ptid = REAPER]

\* task_publish of a process that the reaper owns.
LEMMA NewOrphanLemma ==
  ASSUME NEW n \in Slots, NEW gen \in 0..MaxGen, NEW y, y = NewOrphan(n, gen)
  PROVE  /\ y \in Record /\ Fresh(y) /\ y.gen = gen /\ y.kind = "PROCESS" /\ y.tgid = n
         /\ ~y.joinable /\ y.ptid = REAPER
<1>1. y = [state |-> "RUNNING", gen |-> gen, kind |-> "PROCESS", tgid |-> n, ptid |-> REAPER,
           joinable |-> FALSE, pend |-> FALSE, mem |-> TRUE, reason |-> "none",
           wtid |-> NONE, wgen |-> 0, call |-> "user", owner |-> NONE, depth |-> 0,
           lgen |-> gen, pgen |-> 0]
  BY DEF NewOrphan, Empty
<1>2. 0 \in 0..MaxGen /\ 0 \in 0..MaxDepth BY LifecycleConstants
<1>3. y \in Record BY <1>1, <1>2 DEF Record, States, Calls
<1>4. Fresh(y) /\ y.gen = gen BY <1>1 DEF Fresh
<1>5. y.kind = "PROCESS" /\ y.tgid = n /\ ~y.joinable /\ y.ptid = REAPER BY <1>1
<1> QED BY <1>3, <1>4, <1>5

\* A leader whose member runs a system call does not wait for its threads to end.
LEMMA LeaderNotDeferred ==
  ASSUME LifeInv, NEW c \in CPUs, InCall(c), slot[Group(c)].pend
  PROVE  OnCpu(Group(c)) /\ slot[Group(c)].state = "RUNNING"
<1> DEFINE me == cur[c]
           g == Group(c)
<1>1. /\ me \in Slots /\ slot[me].state = "RUNNING" /\ ~slot[me].pend /\ g \in Slots
      /\ slot[me].kind \in {"PROCESS", "THREAD"} /\ Registry(slot, {}, {}, me, Ready)
  BY CallFacts
<1>2. \/ OnCpu(g) /\ slot[g].state = "RUNNING"
      \/ \A s \in Threads(slot, g) : slot[s].state # "DIED" => slot[s].pend
  BY <1>1 DEF Registry, Pending
<1>3. me # g BY <1>1
<1>4. InUse(slot, me) /\ slot[me].tgid = g BY <1>1 DEF InUse, Group
<1>5. me \in Threads(slot, g) BY <1>1, <1>3, <1>4 DEF Registry, Groups, Threads
<1> QED BY <1>1, <1>2, <1>5

\* A new task is the leader of its own group, and a child of the caller's process
\* or of nobody, or it is a thread of the caller's group.
Kin(y, c) ==
  /\ y.kind = "PROCESS" =>
       /\ y.tgid = Claimed /\ ~y.joinable
       /\ y.ptid \notin Nobody => y.ptid = Group(c) /\ y.pgen = slot[Group(c)].gen
  /\ y.kind = "THREAD" => y.tgid = Group(c) /\ y.lgen = slot[Group(c)].gen

\* task_slot_claim and task_publish keep the parts of the invariant.
LEMMA PublishKeeps ==
  ASSUME LifeInv, NEW c \in CPUs, Caller(c), CanClaim, NEW y \in Record,
         Fresh(y), Kin(y, c), NEW q, q = Put(slot, Claimed, y)
  PROVE  /\ Registry(q, {}, {}, cur[c], Ready) /\ Claimed \in Slots
         /\ Claimed # cur[c] /\ q[cur[c]] = slot[cur[c]] /\ q[Claimed] = y /\ Claimed + 1 \in Nat
<1> DEFINE me == cur[c]
           g == Group(c)
           n == Claimed
           R == Ready
<1>0. InCall(c) BY DEF InCall
<1>1. /\ Registry(slot, {}, {}, me, R) /\ slot[me].state = "RUNNING" /\ me \in Slots
      /\ g \in Slots /\ IsProcess(slot, g)
  BY <1>0, CallFacts
<1>2. n \in Slots /\ slot[n].state = "EMPTY" /\ n \in Nat BY ClaimedLemma DEF LifeInv
<1>3. slot[g].pend => OnCpu(g) /\ slot[g].state = "RUNNING" BY <1>0, LeaderNotDeferred
<1>4. Fits(slot, {}, y, n) BY <1>1, <1>3 DEF Kin, Fits
<1>5. q = Put(slot, n, y) OBVIOUS
<1> HIDE DEF me, g, n, R
<1>6. Registry(q, {}, {}, me, R) BY <1>1, <1>2, <1>4, <1>5, NewKeeps
<1>7. slot \in [Slots -> Record] BY <1>1 DEF Registry
<1>8. n # me /\ q[me] = slot[me] /\ q[n] = y BY <1>1, <1>2, <1>5, <1>7 DEF Put
<1>9. n + 1 \in Nat BY <1>2
<1> QED BY <1>2, <1>6, <1>8, <1>9 DEF me, n, R

\* create_thread_task keeps the invariant.
LEMMA CreateThreadKeeps ==
  ASSUME LifeInv, NEW c \in CPUs, NEW j \in BOOLEAN, CreateThread(c, j) PROVE LifeInv'
<1> DEFINE n == Claimed
           gen == slot[n].gen + 1
           y == NewThread(n, gen, j, Group(c), slot[cur[c]].ptid, slot[cur[c]].pgen,
                          slot[Group(c)].gen)
<1>1. Caller(c) /\ CanClaim /\ InCall(c) BY DEF CreateThread, InCall
<1>2. slot' = Put(slot, n, y) /\ freeHint' = n + 1 /\ Return
  BY DEF CreateThread, Publish, New, NewThread, Put
<1>3. n \in Slots /\ gen \in 0..MaxGen BY <1>1, ClaimedLemma DEF LifeInv
<1>4. /\ Group(c) \in Slots /\ slot[cur[c]].ptid \in Slots \cup {NONE, REAPER}
      /\ slot[cur[c]].pgen \in 0..MaxGen /\ slot[Group(c)].gen \in 0..MaxGen
      /\ slot[cur[c]].state = "RUNNING"
  BY <1>1, CallFacts DEF LifeInv, TypeOK, Record
<1>5. y \in Record /\ Fresh(y) /\ y.kind = "THREAD" /\ y.tgid = Group(c)
        /\ y.lgen = slot[Group(c)].gen
  <2> DEFINE g == Group(c)
             p == slot[cur[c]].ptid
             pg == slot[cur[c]].pgen
             lg == slot[g].gen
  <2>1. y = NewThread(n, gen, j, g, p, pg, lg) OBVIOUS
  <2>2. /\ n \in Slots /\ gen \in 0..MaxGen /\ g \in Slots /\ p \in Slots \cup {NONE, REAPER}
        /\ pg \in 0..MaxGen /\ lg \in 0..MaxGen
    BY <1>3, <1>4
  <2> HIDE DEF y, gen, n, g, p, pg, lg
  <2>3. y = [state |-> "RUNNING", gen |-> gen, kind |-> "THREAD", tgid |-> g, ptid |-> p,
             joinable |-> j, pend |-> FALSE, mem |-> TRUE, reason |-> "none",
             wtid |-> NONE, wgen |-> 0, call |-> "user", owner |-> NONE, depth |-> 0,
             lgen |-> lg, pgen |-> pg]
    BY <2>1 DEF NewThread, Empty
  <2>4. 0 \in 0..MaxGen /\ 0 \in 0..MaxDepth BY LifecycleConstants
  <2>5. y \in Record BY <2>2, <2>3, <2>4 DEF Record, States, Calls
  <2>6. Fresh(y) BY <2>3 DEF Fresh
  <2>7. y.kind = "THREAD" /\ y.tgid = g /\ y.lgen = lg BY <2>3
  <2> QED BY <2>5, <2>6, <2>7 DEF g, lg
<1> HIDE DEF y
<1>6. /\ Registry(slot', {}, {}, cur[c], Ready)
      /\ slot'[cur[c]] = slot[cur[c]] /\ Claimed + 1 \in Nat
  <2>1. Kin(y, c) BY <1>5 DEF Kin
  <2> QED BY <1>1, <1>2, <1>5, <2>1, PublishKeeps
<1>7. slot'[cur[c]].state \in Executing BY <1>4, <1>6 DEF Executing
<1>8. freeHint' \in Nat BY <1>2, <1>6
<1> QED BY <1>1, <1>2, <1>6, <1>7, <1>8, ReturnStep

\* The child of task_fork is a fresh process whose parent is the caller's leader.
LEMMA ChildLemma ==
  ASSUME LifeInv, NEW c \in CPUs, Caller(c), CanClaim
  PROVE  /\ Child(c) \in Record /\ Fresh(Child(c)) /\ Kin(Child(c), c)
         /\ Child(c).gen = slot[Claimed].gen + 1 /\ Child(c).kind = "PROCESS"
         /\ Child(c).ptid = Group(c)
<1> DEFINE y == Child(c)
           n == Claimed
           gen == slot[Claimed].gen + 1
           g == Group(c)
           pg == slot[g].gen
<1>1. n \in Slots /\ gen \in 0..MaxGen BY ClaimedLemma DEF LifeInv
<1>2. g \in Slots BY CallFacts DEF InCall
<1>3. pg \in 0..MaxGen BY <1>2 DEF LifeInv, TypeOK, Record
<1>4. y = NewProcess(n, gen, g, pg) BY DEF Child, New, NewProcess
<1> HIDE DEF y, n, gen, g, pg
<1>5. g \in Slots \cup {NONE, REAPER} BY <1>2
<1>6. /\ y \in Record /\ Fresh(y) /\ y.gen = gen /\ y.kind = "PROCESS" /\ y.tgid = n
      /\ ~y.joinable /\ y.ptid = g /\ y.pgen = pg
  BY <1>1, <1>3, <1>4, <1>5, NewProcessLemma
<1>7. Kin(y, c) BY <1>6 DEF Kin, n, g, pg
<1> QED BY <1>6, <1>7 DEF y, gen, g

\* The program of os_execute_no_ret is a fresh process of the reaper.
LEMMA OrphanLemma ==
  ASSUME LifeInv, CanClaim, NEW c, NEW y, y = [New EXCEPT !.ptid = REAPER]
  PROVE  y \in Record /\ Fresh(y) /\ Kin(y, c)
<1> DEFINE n == Claimed
           gen == slot[Claimed].gen + 1
<1>1. n \in Slots /\ gen \in 0..MaxGen BY ClaimedLemma DEF LifeInv
<1>4. y = NewOrphan(n, gen) BY DEF New, NewOrphan
<1> HIDE DEF n, gen
<1>6. /\ y \in Record /\ Fresh(y) /\ y.gen = gen /\ y.kind = "PROCESS" /\ y.tgid = n
      /\ ~y.joinable /\ y.ptid = REAPER
  BY ONLY <1>1, <1>4, NewOrphanLemma
<1> QED BY <1>6 DEF Kin, n, Nobody

\* What task_wait and task_wait_threads leave in the record of a caller that sleeps.
Blocked(x, t, gen, call) ==
  [x EXCEPT !.state = "WAITING", !.reason = "child", !.wtid = t, !.wgen = gen, !.call = call]

\* A task that blocks in task_wait or task_wait_threads stays who it is.
LEMMA BlockedLemma ==
  ASSUME NEW x \in Record, NEW t \in Slots \cup {NONE}, NEW gen \in 0..MaxGen, NEW call \in Calls,
         NEW y, y = Blocked(x, t, gen, call)
  PROVE  /\ y \in Record /\ Core(y, x) /\ y.owner = x.owner /\ y.depth = x.depth
         /\ y.state = "WAITING" /\ y.reason = "child" /\ y.wtid = t /\ y.wgen = gen /\ y.call = call
<1>1. y \in Record
  <2>1. Blocked(x, t, gen, call) \in Record BY DEF Blocked, Record, States
  <2> QED BY <2>1
<1>2. Core(y, x) /\ y.owner = x.owner /\ y.depth = x.depth BY DEF Blocked, Record, Core
<1>3. y.state = "WAITING" /\ y.reason = "child" /\ y.wtid = t /\ y.wgen = gen /\ y.call = call
  BY DEF Blocked, Record
<1> QED BY <1>1, <1>2, <1>3

\* task_fork and os_execute_no_ret keep the invariant.
LEMMA ForkKeeps ==
  ASSUME LifeInv, NEW c \in CPUs, Fork(c) \/ ExecuteNoRet(c) PROVE LifeInv'
<1>1. Caller(c) /\ CanClaim /\ InCall(c) /\ Return BY DEF Fork, ExecuteNoRet, InCall
<1>2. PICK y \in Record : /\ Fresh(y) /\ Kin(y, c)
                          /\ slot' = Put(slot, Claimed, y) /\ freeHint' = Claimed + 1
  <2>1. CASE Fork(c)
    <3>1. slot' = Put(slot, Claimed, Child(c)) /\ freeHint' = Claimed + 1
      BY <2>1 DEF Fork, Publish, Put
    <3> QED BY <1>1, <3>1, ChildLemma
  <2>2. CASE ExecuteNoRet(c)
    <3> DEFINE y == [New EXCEPT !.ptid = REAPER]
    <3>1. slot' = Put(slot, Claimed, y) /\ freeHint' = Claimed + 1
      BY <2>2 DEF ExecuteNoRet, Publish, Put
    <3>2. y = [New EXCEPT !.ptid = REAPER] OBVIOUS
    <3> HIDE DEF y
    <3>3. y \in Record /\ Fresh(y) /\ Kin(y, c) BY <1>1, <3>2, OrphanLemma
    <3> QED BY <3>1, <3>3
  <2> QED BY <2>1, <2>2
<1>7. /\ Registry(slot', {}, {}, cur[c], Ready)
      /\ slot'[cur[c]] = slot[cur[c]] /\ Claimed + 1 \in Nat
  BY <1>1, <1>2, PublishKeeps
<1>8. slot[cur[c]].state = "RUNNING" BY <1>1, CallFacts
<1>9. slot'[cur[c]].state \in Executing BY <1>7, <1>8 DEF Executing
<1>10. freeHint' \in Nat BY <1>2, <1>7
<1> QED BY <1>1, <1>7, <1>9, <1>10, ReturnStep

\* A step that only frees slots of tasks that are gone.
LEMMA ReleaseKeeps ==
  ASSUME NEW r, NEW X, NEW P, NEW me, NEW R, Registry(r, X, P, me, R),
         NEW q \in [Slots -> Record], NEW D,
         \A t \in Slots : IF t \in D THEN Freed(r, q, t) ELSE q[t] = r[t]
  PROVE  Registry(q, X, P, me, R \ D)
<1>1. \A t \in Slots : IF t \in D THEN Freed(r, q, t) ELSE Adjusted(r, q, P, t)
  BY DEF Adjusted, Alike
<1>2. \A t : Alive(r, t) => q[t].ptid = r[t].ptid BY DEF Freed, Alive, InUse
<1> QED BY <1>1, <1>2, TrimKeeps

Aged(x) == [x EXCEPT !.gen = @ + 1]
\* A creation that fails moves only the generation.
LEMMA AgedLemma ==
  ASSUME NEW x \in Record, x.gen + 1 \in 0..MaxGen
  PROVE  Aged(x) \in Record /\ Aged(x).state = x.state /\ Aged(x).pend = x.pend
<1>1. Aged(x) = [x EXCEPT !.gen = x.gen + 1] BY DEF Aged, Record
<1>2. [x EXCEPT !.gen = x.gen + 1] \in Record BY DEF Record
<1>3. Aged(x).state = x.state BY DEF Aged, Record
<1>4. Aged(x).pend = x.pend BY DEF Aged, Record
<1> QED BY <1>1, <1>2, <1>3, <1>4

\* task_abort_creation keeps the invariant.
LEMMA CreateFailsKeeps ==
  ASSUME LifeInv, NEW c \in CPUs, CreateFails(c) PROVE LifeInv'
<1> DEFINE n == Claimed
           me == cur[c]
           R == Ready
<1>1. Caller(c) /\ CanClaim /\ InCall(c) /\ Return /\ freeHint' = n BY DEF CreateFails, InCall
<1>2. n \in Slots /\ slot[n].state = "EMPTY" /\ n \in Nat /\ slot[n].gen + 1 \in 0..MaxGen
  BY <1>1, ClaimedLemma DEF LifeInv
<1>3. Registry(slot, {}, {}, me, R) /\ slot[me].state = "RUNNING" /\ me \in Slots
  BY <1>1, CallFacts
<1>4. slot \in [Slots -> Record] BY <1>3 DEF Registry
<1>5. slot' = [t \in Slots |-> IF t = n THEN Aged(slot[t]) ELSE slot[t]]
  BY <1>2, <1>4 DEF CreateFails, Aged
<1>6. R = Ready /\ me = cur[c] /\ n \notin R BY <1>2 DEF Ready
<1> HIDE DEF n, me, R
<1>7. slot' \in [Slots -> Record] BY <1>2, <1>4, <1>5, AgedLemma
<1>8. Freed(slot, slot', n)
  <2>1. ~Alive(slot, n) BY <1>2 DEF Alive, InUse
  <2>2. ~slot[n].pend BY <1>2, <1>3, <2>1 DEF Registry, Pending
  <2>3. slot'[n].state = "EMPTY" /\ ~slot'[n].pend BY <1>2, <1>4, <1>5, <2>2, AgedLemma
  <2> QED BY <1>2, <2>1, <2>3 DEF Freed
<1>9. Registry(slot', {}, {}, me, R \ {n}) BY <1>3, <1>5, <1>7, <1>8, ReleaseKeeps
<1>10. R \ {n} = R BY <1>6
<1>11. slot'[me].state \in Executing BY <1>2, <1>3, <1>5 DEF Executing
<1> QED BY <1>1, <1>2, <1>6, <1>9, <1>10, <1>11, ReturnStep

\* os_execute, whose caller sleeps on the new child, keeps the invariant.
LEMMA ExecuteKeeps ==
  ASSUME LifeInv, NEW c \in CPUs, Execute(c) PROVE LifeInv'
<1> DEFINE n == Claimed
           me == cur[c]
           R == Ready
           y == Child(c)
           m == Put(slot, n, y)
           gen == slot[n].gen + 1
           b == Blocked(slot[me], n, gen, "wait")
<1>1. Caller(c) /\ CanClaim /\ InCall(c) /\ EnterNext(c) /\ freeHint' = n + 1
  BY DEF Execute, InCall, Publish
<1>2. n \in Slots /\ slot[n].state = "EMPTY" /\ gen \in 0..MaxGen
  BY <1>1, ClaimedLemma DEF LifeInv
<1>3. /\ slot[me].state = "RUNNING" /\ me \in Slots /\ ~slot[me].pend
      /\ slot \in [Slots -> Record]
  BY <1>1, CallFacts DEF Registry
<1>4. /\ y \in Record /\ Fresh(y) /\ Kin(y, c) /\ y.gen = gen /\ y.kind = "PROCESS"
      /\ y.ptid = slot[me].tgid
  BY <1>1, ChildLemma DEF Group
<1>5. Registry(m, {}, {}, me, R) /\ n # me /\ m[me] = slot[me] /\ m[n] = y /\ n + 1 \in Nat
  BY <1>1, <1>4, PublishKeeps
<1>6. New.gen = gen BY DEF New, Empty
<1>7. slot' = [[slot EXCEPT ![me] = b] EXCEPT ![n] = y]
  BY <1>3, <1>6 DEF Execute, Publish, Waiting, Blocked
<1>8. n \in Slots \cup {NONE} /\ "wait" \in Calls BY <1>2 DEF Calls
<1>9. me = cur[c] /\ R = Ready /\ b = Blocked(slot[me], n, gen, "wait") OBVIOUS
<1> HIDE DEF n, me, R, y, gen, b
<1>10. slot' = [m EXCEPT ![me] = b]
  BY <1>2, <1>3, <1>5, <1>7 DEF Put
<1> HIDE DEF m
<1>11. /\ b \in Record /\ Core(b, slot[me]) /\ b.owner = slot[me].owner /\ b.depth = slot[me].depth
       /\ b.state = "WAITING" /\ b.reason = "child" /\ b.wtid = n /\ b.wgen = gen /\ b.call = "wait"
  BY <1>2, <1>3, <1>8, <1>9, BlockedLemma
<1>12. slot'[me] = b /\ slot'[n] = y
  BY <1>2, <1>3, <1>5, <1>10 DEF Registry
<1>13. Target(slot', me)
  <2>1. Alive(slot', n) BY <1>2, <1>4, <1>12 DEF Alive, InUse, Fresh
  <2> QED BY <1>4, <1>11, <1>12, <2>1 DEF Target, Core
<1>14. Registry(slot', {}, {}, me, R)
  BY <1>3, <1>5, <1>10, <1>11, <1>13, SelfKeeps
<1> QED BY <1>1, <1>5, <1>9, <1>14, EnterStep

\* What task_wait leaves in the record of a caller it returns to.
Back(x) == [x EXCEPT !.reason = "none", !.wtid = NONE, !.wgen = 0, !.call = "user"]

\* A task that task_wait returns to stays who it is.
LEMMA BackLemma ==
  ASSUME NEW x \in Record, NEW y, y = Back(x)
  PROVE  /\ y \in Record /\ Core(y, x) /\ y.owner = x.owner /\ y.depth = x.depth
         /\ y.state = x.state /\ y.call = "user"
<1>1. y \in Record
  <2>1. 0 \in 0..MaxGen BY LifecycleConstants
  <2>2. Back(x) \in Record BY <2>1 DEF Back, Record, Calls
  <2> QED BY <2>2
<1>2. Core(y, x) /\ y.owner = x.owner /\ y.depth = x.depth BY DEF Back, Record, Core
<1>3. y.state = x.state /\ y.call = "user" BY DEF Back, Record
<1> QED BY <1>1, <1>2, <1>3

\* task_slot_release of a task that died.
LEMMA ReapKeeps ==
  ASSUME NEW r, NEW me, NEW R, Registry(r, {}, {}, me, R),
         NEW t \in Slots, r[t].state = "DIED", NEW q, q = Release(r, {t})
  PROVE  Registry(q, {}, {}, me, R) /\ \A u \in Slots \ {t} : q[u] = r[u]
<1>1. r \in [Slots -> Record] BY DEF Registry
<1>2. q = [u \in Slots |-> IF u \in {t} THEN Empty(u, r[u].gen) ELSE r[u]] BY DEF Release
<1>3. \A u \in Slots : r[u].gen \in 0..MaxGen BY <1>1 DEF Record
<1>4. q \in [Slots -> Record] BY <1>1, <1>2, <1>3, EmptyRecord
<1>5. q[t] = Empty(t, r[t].gen) BY <1>2
<1>6. q[t].state = "EMPTY" /\ ~q[t].pend BY <1>5 DEF Empty
<1>7. Freed(r, q, t) BY <1>6 DEF Freed, Alive
<1>8. Registry(q, {}, {}, me, R \ {t}) BY <1>2, <1>4, <1>7, ReleaseKeeps
<1>9. t \notin R BY DEF Registry, Leaving
<1>10. R \ {t} = R BY <1>9
<1> QED BY <1>2, <1>8, <1>10

\* task_wait: the caller goes back, frees the task that died, or blocks.
LEMMA WaitRoundKeeps ==
  ASSUME LifeInv, NEW c \in CPUs, InCall(c), NEW t \in Slots \cup {NONE}, NEW gen \in 0..MaxGen,
         NEW call \in {"wait", "join"}, WaitRound(c, t, gen, call)
  PROVE  LifeInv'
<1> DEFINE me == cur[c]
           R == Ready
           y == Back(slot[me])
           back == [slot EXCEPT ![me] = y]
           b == Blocked(slot[me], t, gen, call)
<1>1. /\ me \in Slots /\ slot[me].state = "RUNNING" /\ ~slot[me].pend
      /\ Registry(slot, {}, {}, me, R) /\ slot \in [Slots -> Record]
  BY CallFacts DEF Registry
<1>2. \/ slot' = back /\ Return
      \/ slot' = Release(back, {t}) /\ slot[t].state = "DIED" /\ CanJoin(me, t, call) /\ Return
      \/ slot' = [slot EXCEPT ![me] = b] /\ slot[t].state # "DIED" /\ CanJoin(me, t, call)
           /\ slot[t].gen = gen /\ EnterNext(c)
  BY DEF WaitRound, Become, Back, Blocked, Waiting
<1>3. freeHint' \in Nat
  <2>1. PICK r : freeHint' = Hint(r) BY DEF WaitRound, Become
  <2> QED BY <2>1, HintLemma DEF LifeInv
<1>4. me = cur[c] /\ R = Ready /\ b = Blocked(slot[me], t, gen, call)
      /\ back = [slot EXCEPT ![me] = y] /\ y = Back(slot[me]) OBVIOUS
<1> HIDE DEF me, R, b, y, back
<1>5. /\ Registry(back, {}, {}, me, R) /\ back[me].state = "RUNNING"
      /\ \A u \in Slots \ {me} : back[u] = slot[u]
  <2>1. slot \in [Slots -> Record] /\ slot[me] \in Record BY <1>1
  <2>2. /\ y \in Record /\ Core(y, slot[me]) /\ y.owner = slot[me].owner
        /\ y.depth = slot[me].depth /\ y.state = "RUNNING" /\ y.call = "user"
    BY <1>1, <1>4, <2>1, BackLemma
  <2>3. Registry(back, {}, {}, me, R) BY <1>1, <1>4, <2>2, SelfKeeps
  <2> QED BY <1>1, <1>4, <2>2, <2>3
<1>6. CASE slot' = back /\ Return
  <2>1. slot'[me].state \in Executing BY <1>5, <1>6 DEF Executing
  <2> QED BY <1>3, <1>4, <1>5, <1>6, <2>1, ReturnStep
<1>7. CASE slot' = Release(back, {t}) /\ slot[t].state = "DIED" /\ CanJoin(me, t, call) /\ Return
  <2>1. t \in Slots /\ t # me BY <1>7 DEF CanJoin, InUse
  <2>2. back[t].state = "DIED" BY <1>5, <1>7, <2>1
  <2>3. Registry(slot', {}, {}, me, R) /\ \A u \in Slots \ {t} : slot'[u] = back[u]
    BY <1>5, <1>7, <2>1, <2>2, ReapKeeps
  <2>4. slot'[me].state \in Executing BY <1>1, <1>5, <2>1, <2>3 DEF Executing
  <2> QED BY <1>3, <1>4, <1>7, <2>3, <2>4, ReturnStep
<1>8. CASE slot' = [slot EXCEPT ![me] = b] /\ slot[t].state # "DIED" /\ CanJoin(me, t, call)
             /\ slot[t].gen = gen /\ EnterNext(c)
  <2>1. t \in Slots /\ t # me /\ Alive(slot, t) BY <1>8 DEF CanJoin, InUse, Alive
  <2>2. call \in Calls BY DEF Calls
  <2>3. /\ b \in Record /\ Core(b, slot[me]) /\ b.owner = slot[me].owner
        /\ b.depth = slot[me].depth /\ b.state = "WAITING" /\ b.reason = "child"
        /\ b.wtid = t /\ b.wgen = gen /\ b.call = call
    BY <1>1, <1>4, <2>1, <2>2, BlockedLemma
  <2>4. slot'[me] = b /\ slot'[t] = slot[t] BY <1>1, <1>8, <2>1
  <2>5. b.tgid = slot[me].tgid BY <2>3 DEF Core
  <2>6. IF call = "join" THEN slot[t].kind = "THREAD" /\ slot[t].tgid = slot[me].tgid
                         ELSE slot[t].kind = "PROCESS" /\ slot[t].ptid = slot[me].tgid
    BY <1>8 DEF CanJoin
  <2>7. Target(slot', me)
    BY <1>8, <2>1, <2>3, <2>4, <2>5, <2>6 DEF Target, Alive, InUse
  <2>8. Registry(slot', {}, {}, me, R) BY <1>1, <1>8, <2>3, <2>7, SelfKeeps
  <2> QED BY <1>3, <1>4, <1>8, <2>8, EnterStep
<1> QED BY <1>2, <1>6, <1>7, <1>8

\* waittid and task_join_thread keep the invariant.
LEMMA WaitChildKeeps ==
  ASSUME LifeInv, NEW c \in CPUs, NEW t \in Slots, NEW call \in {"wait", "join"},
         WaitChild(c, t, call)
  PROVE  LifeInv'
<1>1. InCall(c) /\ WaitRound(c, t, slot[t].gen, call) BY DEF WaitChild, InCall
<1>2. slot[t].gen \in 0..MaxGen BY DEF LifeInv, TypeOK, Record
<1> QED BY <1>1, <1>2, WaitRoundKeeps

\* free_hint stays a slot number.
LEMMA BecomeHint == ASSUME TypeOK, NEW r, Become(r) PROVE slot' = r /\ freeHint' \in Nat
BY HintLemma DEF Become

\* task_detach_thread of a thread that lives.
Detached(x) == [x EXCEPT !.joinable = FALSE]
\* task_detach_thread changes only joinable.
LEMMA DetachedLemma ==
  ASSUME NEW x \in Record
  PROVE  /\ Detached(x) \in Record /\ Alike(Detached(x), x) /\ Detached(x).ptid = x.ptid
         /\ ~Detached(x).joinable /\ Detached(x).pend = x.pend
<1>1. Detached(x) \in Record BY DEF Detached, Record
<1>2. Alike(Detached(x), x) BY DEF Detached, Record, Alike
<1>3. Detached(x).ptid = x.ptid /\ ~Detached(x).joinable BY DEF Detached, Record
<1>4. Detached(x).pend = x.pend BY DEF Detached, Record
<1> QED BY <1>1, <1>2, <1>3, <1>4

\* task_detach_thread
LEMMA DetachKeeps ==
  ASSUME LifeInv, NEW c \in CPUs, NEW t \in Slots, Detach(c, t) PROVE LifeInv'
<1> DEFINE me == cur[c]
           R == Ready
           live == [u \in Slots |-> IF u = t THEN Detached(slot[u]) ELSE slot[u]]
<1>1. InCall(c) /\ Return BY DEF Detach, InCall
<1>2. /\ me \in Slots /\ slot[me].state = "RUNNING"
      /\ Registry(slot, {}, {}, me, R) /\ slot \in [Slots -> Record]
  BY <1>1, CallFacts DEF Registry
<1>3. freeHint' \in Nat
  <2>1. PICK r : freeHint' = Hint(r) BY DEF Detach, Become
  <2> QED BY <2>1, HintLemma DEF LifeInv
<1>4. slot' = IF slot[t].state = "DIED" THEN Release(slot, {t}) ELSE live
  <2>1. live = [slot EXCEPT ![t].joinable = FALSE] BY <1>2 DEF Detached
  <2> QED BY <2>1 DEF Detach, Become
<1>5. me = cur[c] /\ R = Ready /\ (slot[t].state # "DIED" => slot' = live) BY <1>4
<1> HIDE DEF me, R
<1>6. Registry(slot', {}, {}, me, R) /\ slot'[me].state = "RUNNING"
  <2>1. CASE slot[t].state = "DIED"
    <3>1. slot' = Release(slot, {t}) BY <1>4, <2>1
    <3>2. Registry(slot', {}, {}, me, R) /\ \A u \in Slots \ {t} : slot'[u] = slot[u]
      BY <1>2, <2>1, <3>1, ReapKeeps
    <3> QED BY <1>2, <2>1, <3>2
  <2>2. CASE slot[t].state # "DIED"
    <3>1. slot' = live BY <1>5, <2>2
    <3>2. slot' \in [Slots -> Record] BY <1>2, <3>1, DetachedLemma
    <3>3. \A u \in Slots : IF u \in {} THEN Freed(slot, slot', u) ELSE Adjusted(slot, slot', {}, u)
      <4> TAKE u \in Slots
      <4>1. CASE u = t
        <5>1. slot'[t] = Detached(slot[t]) /\ slot[t] \in Record BY <1>2, <3>1
        <5>2. /\ Alike(slot'[t], slot[t]) /\ slot'[t].ptid = slot[t].ptid
              /\ ~slot'[t].joinable /\ slot'[t].pend = slot[t].pend
          BY <5>1, DetachedLemma
        <5> QED BY <2>2, <4>1, <5>2 DEF Adjusted
      <4>2. CASE u # t
        <5>1. slot'[u] = slot[u] BY <3>1, <4>2
        <5> QED BY <5>1 DEF Adjusted, Alike
      <4> QED BY <4>1, <4>2
    <3>4. \A u \in Slots : slot'[u].ptid = slot[u].ptid /\ slot'[u].state = slot[u].state
      <4> TAKE u \in Slots
      <4>1. slot[u] \in Record BY <1>2
      <4>2. slot'[u] = slot[u] \/ slot'[u] = Detached(slot[u]) BY <3>1
      <4> QED BY <4>1, <4>2, DetachedLemma DEF Alike
    <3>5. \A w : Alive(slot, slot[w].wtid) => slot'[slot[w].wtid].ptid = slot[slot[w].wtid].ptid
      BY <3>4 DEF Alive, InUse
    <3>6. Registry(slot', {}, {}, me, R \ {}) BY <1>2, <3>2, <3>3, <3>5, TrimKeeps
    <3>7. R \ {} = R OBVIOUS
    <3> QED BY <1>2, <3>4, <3>6, <3>7
  <2> QED BY <2>1, <2>2
<1>7. slot'[me].state \in Executing BY <1>6 DEF Executing
<1> QED BY <1>1, <1>3, <1>5, <1>6, <1>7, ReturnStep

\* task_kill of another task leaves the caller running, or on its way out when
\* it killed its own process.
LEMMA KillCaller ==
  ASSUME NEW r, NEW me \in Slots, NEW R, Registry(r, {}, {}, me, R), OnCpu(me),
         r[me].state = "RUNNING", NEW t, t # me, Alive(r, t),
         NEW q, q = Terminate(r, t, me), Disturbs(r, q, Ended(r, t), me)
  PROVE  q[me].state \in Executing
<1>1. r \in [Slots -> Record] /\ r[t].kind \in {"PROCESS", "THREAD"}
  BY DEF Registry, Record, Alive, InUse
<1>2. CASE me \notin Ended(r, t)
  <2>1. Bystander(q[me], r[me]) BY <1>2 DEF Disturbs
  <2> QED BY <2>1 DEF Bystander, Awake, Executing
<1>3. CASE me \in Ended(r, t)
  <2>1. me \in Threads(r, t) /\ r[t].kind = "PROCESS" BY <1>1, <1>3 DEF Ended
  <2>3. CASE OnCpu(t)
    <3>1. q = [r EXCEPT ![t].pend = TRUE] BY <2>3 DEF Terminate
    <3>2. q[me] = r[me] BY <1>1, <3>1
    <3> QED BY <3>2 DEF Executing
  <2>4. CASE ~OnCpu(t)
    <3>1. q = FinishPending(r, t, me) BY <2>4 DEF Terminate
    <3>2. IsProcess(r, t) BY <2>1 DEF IsProcess
    <3> DEFINE X == {}
               P == {}
    <3>3. Registry(r, X, P, me, R) /\ P \subseteq {me} OBVIOUS
    <3> HIDE DEF X, P
    <3>4. OnCpu(t) => t = me BY <2>4
    <3>5. /\ Registry(q, X \ {t}, P \cup {t}, me, R)
          /\ me \in Threads(r, t) /\ r[me].state # "DIED" => LeavingThread(q[me])
      BY ONLY OnCpu(me), <3>1, <3>2, <3>3, <3>4, FinishProcessKeeps
    <3> QED BY <2>1, <3>5 DEF LeavingThread, Executing
  <2> QED BY <2>3, <2>4
<1> QED BY <1>2, <1>3

\* task_kill
LEMMA KillKeeps ==
  ASSUME LifeInv, NEW c \in CPUs, NEW t, InCall(c), Alive(slot, t), KillStep(c, t)
  PROVE  LifeInv'
<1> DEFINE me == cur[c]
           R == Ready
           q == Terminate(slot, t, me)
           X == {}
<1>1. /\ me \in Slots /\ slot[me].state = "RUNNING" /\ OnCpu(me)
      /\ Registry(slot, X, X, me, R) /\ Group(c) = slot[me].tgid
  BY CallFacts DEF Group
<1>2. slot' = q /\ freeHint' \in Nat BY BecomeHint DEF KillStep, LifeInv
<1>3. me = cur[c] /\ R = Ready /\ q = Terminate(slot, t, me) /\ X = {} /\ X \ {t} = X
      /\ X \subseteq {me} OBVIOUS
<1> HIDE DEF me, R, q, X
<1>4. Registry(q, X \ {t}, X, me, R) /\ Disturbs(slot, q, Ended(slot, t), me)
  BY <1>1, <1>3, TerminateKeeps
<1>5. Registry(slot', {}, {}, me, R) BY <1>2, <1>3, <1>4
<1>6. CASE t = me
  <2>1. EnterNext(c) BY <1>3, <1>6 DEF KillStep
  <2> QED BY <1>2, <1>3, <1>5, <2>1, EnterStep
<1>7. CASE t # me
  <2>1. Return BY <1>3, <1>7 DEF KillStep
  <2>2. q[me].state \in Executing
    <3>1. Registry(slot, {}, {}, me, R) BY <1>1, <1>3
    <3> QED BY <1>1, <1>3, <1>4, <1>7, <3>1, KillCaller
  <2> QED BY <1>2, <1>3, <1>5, <2>1, <2>2, ReturnStep
<1> QED BY <1>6, <1>7

\* task_terminate_thread keeps the invariant.
LEMMA TerminateThreadKeeps ==
  ASSUME LifeInv, NEW c \in CPUs, NEW t \in Slots, TerminateThread(c, t) PROVE LifeInv'
<1>1. InCall(c) /\ Alive(slot, t) /\ KillStep(c, t)
  BY DEF TerminateThread, InCall
<1> QED BY <1>1, KillKeeps

\* user_signal_send with SIGKILL keeps the invariant.
LEMMA KillProcessKeeps ==
  ASSUME LifeInv, NEW c \in CPUs, NEW t \in Slots, KillProcess(c, t) PROVE LifeInv'
<1>1. InCall(c) /\ Alive(slot, t) /\ KillStep(c, t)
  BY DEF KillProcess, InCall
<1> QED BY <1>1, KillKeeps

\* task_exit
LEMMA ExitKeeps ==
  ASSUME LifeInv, NEW c \in CPUs, Exit(c) PROVE LifeInv'
<1> DEFINE me == cur[c]
           R == Ready
           q == FinishPending(slot, me, me)
           X == {}
<1>1. InCall(c) /\ EnterNext(c) BY DEF Exit, InCall
<1>2. /\ me \in Slots /\ OnCpu(me) /\ Alive(slot, me) /\ Registry(slot, X, X, me, R)
  BY <1>1, CallFacts DEF Alive, InUse
<1>3. slot' = q /\ freeHint' \in Nat BY BecomeHint DEF Exit, LifeInv
<1>4. me = cur[c] /\ R = Ready /\ q = FinishPending(slot, me, me) /\ X = {} /\ X \ {me} = X
      /\ X \subseteq {me} OBVIOUS
<1> HIDE DEF me, R, q, X
<1>5. Registry(q, X \ {me}, X \cup {me}, me, R) BY <1>2, <1>4, FinishPendingKeeps
<1>6. Registry(q, X, X, me, R) BY <1>4, <1>5, WeakenKeeps
<1>7. Registry(slot', {}, {}, me, R) BY <1>3, <1>4, <1>6
<1> QED BY <1>1, <1>3, <1>4, <1>7, EnterStep

\* task_exit_process
LEMMA ExitProcessStep ==
  ASSUME LifeInv, NEW c \in CPUs, ExitProcess(c) PROVE LifeInv'
<1> DEFINE me == cur[c]
           R == Ready
           g == Group(c)
           r1 == Reparent(GroupEnd(slot, g, me, me), g)
           r2 == IF InUse(slot, g) /\ g # me THEN Terminate(r1, g, me) ELSE r1
           q == FinishPending(r2, me, me)
<1>1. InCall(c) /\ EnterNext(c) BY DEF ExitProcess, InCall
<1>2. /\ me \in Slots /\ OnCpu(me) /\ slot[me].state = "RUNNING" /\ g = slot[me].tgid
      /\ Registry(slot, {}, {}, me, R)
  BY <1>1, CallFacts DEF Group
<1>3. slot' = q /\ freeHint' \in Nat BY BecomeHint DEF ExitProcess, LifeInv
<1>4. /\ me = cur[c] /\ R = Ready /\ r1 = Reparent(GroupEnd(slot, g, me, me), g)
      /\ r2 = IF InUse(slot, g) /\ g # me THEN Terminate(r1, g, me) ELSE r1
      /\ q = FinishPending(r2, me, me)
  OBVIOUS
<1> HIDE DEF me, R, g, r1, r2, q
<1>5. Registry(q, {}, {}, me, R) BY <1>2, <1>4, ExitProcessKeeps
<1> QED BY <1>1, <1>3, <1>4, <1>5, EnterStep

\* task_lock takes the lock of the group whose leader has record x.
Owned(x, o) == [x EXCEPT !.owner = o, !.depth = @ + 1]
\* task_lock changes only the owner and the depth of the group lock.
LEMMA OwnedLemma ==
  ASSUME NEW x \in Record, NEW o \in Slots, x.depth + 1 \in 0..MaxDepth, NEW y, y = Owned(x, o)
  PROVE  /\ y \in Record /\ Like(y, x) /\ y.state = x.state /\ y.reason = x.reason
         /\ y.owner = o /\ y.depth = x.depth + 1
<1>1. y = [x EXCEPT !.owner = o, !.depth = x.depth + 1] BY DEF Owned, Record
<1>2. y \in Record
  <2>1. [x EXCEPT !.owner = o, !.depth = x.depth + 1] \in Record BY DEF Record
  <2> QED BY <1>1, <2>1
<1>3. Like(y, x) BY <1>1 DEF Record, Like
<1>4. y.state = x.state /\ y.reason = x.reason /\ y.owner = o /\ y.depth = x.depth + 1
  BY <1>1 DEF Record
<1> QED BY <1>2, <1>3, <1>4

\* A call that goes back to its caller.
Called(x) == [x EXCEPT !.call = "user"]
\* A call that goes back to its caller changes only the call.
LEMMA CalledLemma ==
  ASSUME NEW x \in Record, NEW y, y = Called(x)
  PROVE  /\ y \in Record /\ Core(y, x) /\ y.owner = x.owner /\ y.depth = x.depth
         /\ y.state = x.state /\ y.reason = x.reason /\ y.wtid = x.wtid /\ y.wgen = x.wgen
         /\ y.call = "user"
<1>1. y \in Record
  <2>1. Called(x) \in Record BY DEF Called, Record, Calls
  <2> QED BY <2>1
<1>2. Core(y, x) /\ y.owner = x.owner /\ y.depth = x.depth BY DEF Called, Record, Core
<1>3. y.state = x.state /\ y.reason = x.reason /\ y.wtid = x.wtid /\ y.wgen = x.wgen
      /\ y.call = "user"
  BY DEF Called, Record
<1> QED BY <1>1, <1>2, <1>3

\* The step in which a call goes back to its caller.
LEMMA CalledKeeps ==
  ASSUME NEW r, NEW me \in Slots, NEW R, Registry(r, {}, {}, me, R),
         r[me].state = "RUNNING", ~r[me].pend,
         NEW y, y = Called(r[me]), NEW q, q = [r EXCEPT ![me] = y]
  PROVE  Registry(q, {}, {}, me, R)
<1>1. r \in [Slots -> Record] BY DEF Registry
<1>2. /\ y \in Record /\ Core(y, r[me]) /\ y.owner = r[me].owner /\ y.depth = r[me].depth
      /\ y.state = "RUNNING" /\ y.call = "user"
  BY <1>1, CalledLemma
<1> QED BY <1>2, SelfKeeps

\* task_lock takes the lock of the group of leader l.
TakeLock(r, l, me) == [r EXCEPT ![l].owner = me, ![l].depth = @ + 1, ![me].call = "user"]

\* What task_lock leaves when it takes the lock: the caller is back in user mode
\* and the leader's record names it.
LEMMA LockTaken ==
  ASSUME NEW r \in [Slots -> Record], NEW me \in Slots, NEW l \in Slots,
         r[l].depth + 1 \in 0..MaxDepth,
         NEW y, y = Called(r[me]), NEW m, m = [r EXCEPT ![me] = y],
         NEW q, q = TakeLock(r, l, me)
  PROVE  /\ q \in [Slots -> Record]
         /\ \A t \in Slots : Like(q[t], m[t]) /\ Awake(q[t], m[t]) /\ q[t].state = m[t].state
         /\ \A t \in Slots : t # l => q[t].owner = m[t].owner /\ q[t].depth = m[t].depth
         /\ q[l].owner = me /\ q[l].depth = r[l].depth + 1
<1>1. /\ y \in Record /\ Core(y, r[me]) /\ y.owner = r[me].owner /\ y.depth = r[me].depth
      /\ y.state = r[me].state /\ y.reason = r[me].reason /\ y.wtid = r[me].wtid
      /\ y.wgen = r[me].wgen /\ y.call = "user"
  BY CalledLemma
<1> DEFINE o == Owned(r[l], me)
           z == Called(o)
<1>2. /\ o \in Record /\ Like(o, r[l]) /\ o.state = r[l].state /\ o.reason = r[l].reason
      /\ o.owner = me /\ o.depth = r[l].depth + 1
  BY OwnedLemma
<1>3. /\ z \in Record /\ Core(z, o) /\ z.owner = o.owner /\ z.depth = o.depth
      /\ z.state = o.state /\ z.reason = o.reason /\ z.wtid = o.wtid /\ z.wgen = o.wgen
      /\ z.call = "user"
  BY <1>2, CalledLemma
<1>4. q = IF l = me THEN [r EXCEPT ![l] = z] ELSE [r EXCEPT ![l] = o, ![me] = y]
  BY DEF Owned, Called, TakeLock
<1> HIDE DEF o, z
<1>5. CASE l = me
  <2>1. q = [r EXCEPT ![l] = z] BY <1>4, <1>5
  <2>2. q \in [Slots -> Record] /\ q[l] = z /\ m[l] = y
    BY ONLY <1>3, <1>5, <2>1, r \in [Slots -> Record], l \in Slots, m = [r EXCEPT ![me] = y]
  <2>3. \A t \in Slots \ {l} : q[t] = r[t] /\ m[t] = r[t] BY <1>5, <2>1
  <2>4. Like(z, y)
    <3>1. Core(z, y) BY <1>1, <1>2, <1>3, <1>5 DEF Like, Core
    <3>2. z.wtid = y.wtid /\ z.wgen = y.wgen /\ z.call = y.call BY <1>1, <1>2, <1>3, <1>5 DEF Like
    <3> QED BY <3>1, <3>2 DEF Like, Core
  <2>5. \A t \in Slots : Like(q[t], m[t]) 
    <3> TAKE t \in Slots
    <3>1. CASE t = l BY <2>2, <2>4, <3>1
    <3>2. CASE t # l
      <4>1. q[t] = m[t] BY <2>3, <3>2
      <4> QED BY <4>1 DEF Like
    <3> QED BY <3>1, <3>2
  <2>6. \A t \in Slots : q[t].state = m[t].state /\ q[t].reason = m[t].reason
    BY <1>1, <1>2, <1>3, <1>5, <2>2, <2>3
  <2>7. q[l].owner = me /\ q[l].depth = r[l].depth + 1 BY <1>2, <1>3, <2>2
  <2> QED BY <2>2, <2>3, <2>5, <2>6, <2>7 DEF Awake
<1>6. CASE l # me
  <2>1. q = [r EXCEPT ![l] = o, ![me] = y] BY <1>4, <1>6
  <2>2. q \in [Slots -> Record] /\ q[l] = o /\ m[l] = r[l] /\ q[me] = y /\ m[me] = y
    BY <1>1, <1>2, <1>6, <2>1
  <2>3. \A t \in Slots \ {l} : q[t] = m[t] BY <1>6, <2>1
  <2>4. \A t \in Slots : Like(q[t], m[t]) BY <1>2, <2>2, <2>3 DEF Like
  <2>5. \A t \in Slots : q[t].state = m[t].state /\ q[t].reason = m[t].reason
    BY <1>2, <2>2, <2>3
  <2>6. q[l].owner = me /\ q[l].depth = r[l].depth + 1 BY <1>2, <2>2
  <2> QED BY <2>2, <2>3, <2>4, <2>5, <2>6 DEF Awake
<1> QED BY <1>5, <1>6

\* task_lock puts its caller to sleep.
LockWait(x) == [x EXCEPT !.state = "WAITING", !.reason = "lock", !.call = "lock"]
\* A task that sleeps in task_lock stays who it is.
LEMMA LockWaitLemma ==
  ASSUME NEW x \in Record, NEW y, y = LockWait(x)
  PROVE  /\ y \in Record /\ Core(y, x) /\ y.owner = x.owner /\ y.depth = x.depth
         /\ y.state = "WAITING" /\ y.reason = "lock" /\ y.call = "lock"
<1>1. y \in Record
  <2>1. LockWait(x) \in Record BY DEF LockWait, Record, Calls, States
  <2> QED BY <2>1
<1>2. Core(y, x) /\ y.owner = x.owner /\ y.depth = x.depth BY DEF LockWait, Record, Core
<1>3. y.state = "WAITING" /\ y.reason = "lock" /\ y.call = "lock" BY DEF LockWait, Record
<1> QED BY <1>1, <1>2, <1>3

\* task_lock: one round of its loop.
LEMMA LockRoundKeeps ==
  ASSUME LifeInv, NEW c \in CPUs, InCall(c), LockRound(c),
         slot[Leader(c)].depth < MaxDepth \/ slot[cur[c]].call = "lock"
  PROVE  LifeInv'
<1> DEFINE me == cur[c]
           R == Ready
           l == Group(c)
           y == Called(slot[me])
           m == [slot EXCEPT ![me] = y]
           b == LockWait(slot[me])
<1>1. /\ me \in Slots /\ slot[me].state = "RUNNING" /\ ~slot[me].pend
      /\ Registry(slot, {}, {}, me, R) /\ slot \in [Slots -> Record]
      /\ l \in Slots /\ IsProcess(slot, l) /\ Leader(c) = l /\ l = slot[me].tgid
  BY CallFacts DEF Registry, Group
<1>2. freeHint' \in Nat
  <2>1. PICK r : freeHint' = Hint(r) BY DEF LockRound, Become
  <2> QED BY <2>1, HintLemma DEF LifeInv
<1>3. \/ /\ slot[l].owner \in {NONE, me} /\ Return
         /\ slot' = TakeLock(slot, l, me)
      \/ /\ slot[l].owner \notin {NONE, me} /\ EnterNext(c)
         /\ slot' = [slot EXCEPT ![me] = b]
  BY <1>1 DEF LockRound, Become, LockWait, TakeLock
<1>4. slot[l].depth < MaxDepth \/ slot[me].call = "lock" BY <1>1
<1>5. slot[l].depth \in 0..MaxDepth BY <1>1 DEF Record
<1>6. slot[me].call = "lock" => MaxDepth > 0 /\ slot[l].owner # me
  BY <1>1 DEF Registry, Locks, InUse
<1>7. slot[l].owner = NONE => slot[l].depth = 0
  BY <1>1 DEF Registry, Locks, IsProcess, Alive
<1>8. MaxDepth > 0 BY <1>4, <1>5, <1>6, LifecycleConstants
<1>9. /\ me = cur[c] /\ R = Ready /\ y = Called(slot[me]) /\ m = [slot EXCEPT ![me] = y]
      /\ b = LockWait(slot[me])
  OBVIOUS
<1> HIDE DEF me, R, l, y, m, b
<1>10. CASE /\ slot[l].owner \in {NONE, me} /\ Return
            /\ slot' = TakeLock(slot, l, me)
  <2>1. slot[l].depth + 1 \in 0..MaxDepth
    BY <1>4, <1>5, <1>6, <1>7, <1>8, <1>10, LifecycleConstants
  <2>2. /\ slot' \in [Slots -> Record]
        /\ \A t \in Slots : Like(slot'[t], m[t]) /\ Awake(slot'[t], m[t])
                              /\ slot'[t].state = m[t].state
        /\ \A t \in Slots : t # l => slot'[t].owner = m[t].owner /\ slot'[t].depth = m[t].depth
        /\ slot'[l].owner = me /\ slot'[l].depth = slot[l].depth + 1
    BY <1>1, <1>9, <1>10, <2>1, LockTaken
  <2>3. Registry(m, {}, {}, me, R) BY <1>1, <1>9, CalledKeeps
  <2>4. /\ m[me] = y /\ y.state = "RUNNING" /\ y.call = "user" /\ y.tgid = l
        /\ y.owner = slot[me].owner
    BY <1>1, <1>9, CalledLemma DEF Core
  <2>5. m[l].owner \in {NONE, me}
    <3>1. m[l].owner = slot[l].owner BY <1>1, <1>9, <2>4
    <3> QED BY <1>10, <3>1
  <2>6. slot'[l].depth > 0 BY <1>5, <2>2
  <2>7. Registry(slot', {}, {}, me, R)
    BY <1>1, <2>2, <2>3, <2>4, <2>5, <2>6, LockKeeps
  <2>8. slot'[me].state \in Executing BY <1>1, <2>2, <2>4 DEF Executing
  <2> QED BY <1>2, <1>9, <1>10, <2>7, <2>8, ReturnStep
<1>11. CASE /\ slot[l].owner \notin {NONE, me} /\ EnterNext(c)
            /\ slot' = [slot EXCEPT ![me] = b]
  <2>1. /\ b \in Record /\ Core(b, slot[me]) /\ b.owner = slot[me].owner
        /\ b.depth = slot[me].depth /\ b.state = "WAITING" /\ b.reason = "lock" /\ b.call = "lock"
    BY <1>1, <1>9, LockWaitLemma
  <2>2. slot[slot[me].tgid].owner # me /\ slot[slot[me].tgid].owner # NONE BY <1>1, <1>11
  <2>3. Registry(slot', {}, {}, me, R) BY <1>1, <1>8, <1>11, <2>1, <2>2, SelfKeeps
  <2> QED BY <1>2, <1>9, <1>11, <2>3, EnterStep
<1> QED BY <1>3, <1>10, <1>11

\* task_lock keeps the invariant.
LEMMA TaskLockKeeps == ASSUME LifeInv, NEW c \in CPUs, TaskLock(c) PROVE LifeInv'
<1>1. InCall(c) /\ LockRound(c) /\ slot[Leader(c)].depth < MaxDepth BY DEF TaskLock, InCall
<1> QED BY <1>1, LockRoundKeeps

Shallower(x) == [x EXCEPT !.depth = x.depth - 1]
\* A nested task_unlock changes only the depth.
LEMMA ShallowerLemma ==
  ASSUME NEW x \in Record, x.depth - 1 \in 0..MaxDepth, NEW y, y = Shallower(x)
  PROVE  /\ y \in Record /\ Like(y, x) /\ y.state = x.state /\ y.reason = x.reason
         /\ y.owner = x.owner /\ y.depth = x.depth - 1
<1>1. y \in Record
  <2>1. Shallower(x) \in Record BY DEF Shallower, Record
  <2> QED BY <2>1
<1>2. Like(y, x) BY DEF Shallower, Record, Like
<1>3. y.state = x.state /\ y.reason = x.reason /\ y.owner = x.owner /\ y.depth = x.depth - 1
  BY DEF Shallower, Record
<1> QED BY <1>1, <1>2, <1>3

\* The last task_unlock of a group: every task that slept in task_lock is run.
LEMMA UnlockedLemma ==
  ASSUME TypeOK, NEW l \in Slots, NEW q, q = Unlocked(l)
  PROVE  /\ q \in [Slots -> Record]
         /\ \A t \in Slots : Like(q[t], slot[t]) /\ Awake(q[t], slot[t])
         /\ \A t \in Slots : slot[t].reason # "lock" => q[t].state = slot[t].state
         /\ \A t \in Slots : t # l => q[t].owner = slot[t].owner /\ q[t].depth = slot[t].depth
         /\ q[l].owner = NONE /\ q[l].depth = 0
         /\ \A w \in Slots : slot[w].tgid = l /\ slot[w].state = "WAITING" /\ slot[w].reason = "lock"
                               => q[w].state # "WAITING"
<1> DEFINE W == {w \in Slots : InUse(slot, w) /\ slot[w].tgid = l /\ slot[w].state = "WAITING"
                                /\ slot[w].reason = "lock"}
           m == [t \in Slots |-> IF t = l THEN Unowned(slot[t]) ELSE slot[t]]
<1>1. slot \in [Slots -> Record] BY DEF TypeOK
<1>2. q = Run(m, W)
  <2>1. m = [slot EXCEPT ![l].owner = NONE, ![l].depth = 0] BY <1>1 DEF Unowned
  <2> QED BY <2>1 DEF Unlocked
<1>3. m \in [Slots -> Record] BY <1>1, UnownedLemma
<1>4. /\ q \in [Slots -> Record]
      /\ \A t \in Slots : /\ t \notin W => q[t] = m[t]
                          /\ t \in W => q[t] = Ran(m[t])
  BY <1>2, <1>3, RunLemma
<1>5. \A t \in Slots : /\ Like(m[t], slot[t]) /\ m[t].state = slot[t].state
                       /\ m[t].reason = slot[t].reason
  <2> TAKE t \in Slots
  <2>1. slot[t] \in Record BY <1>1
  <2>2. CASE t = l BY <2>1, <2>2, UnownedLemma
  <2>3. CASE t # l BY <2>3 DEF Like
  <2> QED BY <2>2, <2>3
<1>6. m[l].owner = NONE /\ m[l].depth = 0 BY <1>1, UnownedLemma
<1>7. \A t \in Slots : t # l => m[t].owner = slot[t].owner /\ m[t].depth = slot[t].depth OBVIOUS
<1>8. \A t \in W : slot[t].state = "WAITING" /\ slot[t].reason = "lock" OBVIOUS
<1>9. \A w \in Slots : slot[w].tgid = l /\ slot[w].state = "WAITING" /\ slot[w].reason = "lock"
        => w \in W
  BY DEF InUse
<1> HIDE DEF W, m
<1>10. \A t \in Slots : /\ Like(q[t], slot[t]) /\ Awake(q[t], slot[t])
                        /\ q[t].owner = m[t].owner /\ q[t].depth = m[t].depth
                        /\ t \notin W => q[t].state = slot[t].state
                        /\ t \in W => q[t].state = "RUNNING"
  <2> TAKE t \in Slots
  <2>1. m[t] \in Record BY <1>3
  <2>2. CASE t \in W
    <3>1. /\ Like(q[t], m[t]) /\ q[t].owner = m[t].owner /\ q[t].depth = m[t].depth
          /\ q[t].state = "RUNNING" /\ q[t].reason = "none"
      BY <1>4, <2>1, <2>2, RanLemma
    <3>2. Like(q[t], slot[t]) BY <1>5, <3>1 DEF Like
    <3> QED BY <1>8, <2>2, <3>1, <3>2 DEF Awake
  <2>3. CASE t \notin W
    <3>1. q[t] = m[t] BY <1>4, <2>3
    <3> QED BY <1>5, <2>3, <3>1 DEF Awake
  <2> QED BY <2>2, <2>3
<1> QED BY <1>4, <1>6, <1>7, <1>8, <1>9, <1>10

\* task_unlock
LEMMA TaskUnlockKeeps == ASSUME LifeInv, NEW c \in CPUs, TaskUnlock(c) PROVE LifeInv'
<1> DEFINE me == cur[c]
           R == Ready
           l == Group(c)
           y == Shallower(slot[l])
<1>1. InCall(c) /\ Return BY DEF TaskUnlock, InCall
<1>2. /\ me \in Slots /\ slot[me].state = "RUNNING" /\ ~slot[me].pend
      /\ Registry(slot, {}, {}, me, R) /\ slot \in [Slots -> Record]
      /\ l \in Slots /\ IsProcess(slot, l) /\ Leader(c) = l /\ l = slot[me].tgid
  BY <1>1, CallFacts DEF Registry, Group
<1>3. freeHint' \in Nat
  <2>1. PICK r : freeHint' = Hint(r) BY DEF TaskUnlock, Become
  <2> QED BY <2>1, HintLemma DEF LifeInv
<1>4. slot[l].owner = me BY <1>2 DEF TaskUnlock
<1>5. \/ slot[l].depth = 1 /\ slot' = Unlocked(l)
      \/ slot[l].depth # 1 /\ slot' = [slot EXCEPT ![l] = y]
  BY <1>2 DEF TaskUnlock, Become, Shallower
<1>6. slot[me].call # "lock" BY <1>2, <1>4 DEF Registry, Locks, InUse
<1>7. slot[l].depth > 0 /\ slot[l].depth \in 0..MaxDepth
  <2>1. me # NONE BY <1>2, LifecycleConstants DEF NONE
  <2> QED BY <1>2, <1>4, <2>1 DEF Registry, Locks, IsProcess, Alive, Record
<1>8. me = cur[c] /\ R = Ready /\ y = Shallower(slot[l]) OBVIOUS
<1>9. TypeOK BY DEF LifeInv
<1> HIDE DEF me, R, l, y
<1>10. Registry(slot', {}, {}, me, R) /\ slot'[me].state = "RUNNING"
  <2>1. CASE slot[l].depth = 1 /\ slot' = Unlocked(l)
    <3>1. /\ slot' \in [Slots -> Record]
          /\ \A t \in Slots : Like(slot'[t], slot[t]) /\ Awake(slot'[t], slot[t])
          /\ \A t \in Slots : slot[t].reason # "lock" => slot'[t].state = slot[t].state
          /\ \A t \in Slots : t # l => slot'[t].owner = slot[t].owner /\ slot'[t].depth = slot[t].depth
          /\ slot'[l].owner = NONE /\ slot'[l].depth = 0
          /\ \A w \in Slots : slot[w].tgid = l /\ slot[w].state = "WAITING" /\ slot[w].reason = "lock"
                               => slot'[w].state # "WAITING"
      BY <1>2, <1>9, <2>1, UnlockedLemma
    <3>2. Registry(slot', {}, {}, me, R) BY <1>2, <1>6, <3>1, LockKeeps
    <3>3. slot'[me].state = "RUNNING" BY <1>2, <3>1 DEF Awake
    <3> QED BY <3>2, <3>3
  <2>2. CASE slot[l].depth # 1 /\ slot' = [slot EXCEPT ![l] = y]
    <3>1. slot[l].depth - 1 \in 0..MaxDepth /\ slot[l].depth - 1 > 0
      BY <1>7, <2>2, LifecycleConstants
    <3>2. /\ y \in Record /\ Like(y, slot[l]) /\ y.state = slot[l].state /\ y.reason = slot[l].reason
          /\ y.owner = slot[l].owner /\ y.depth = slot[l].depth - 1
      BY <1>2, <1>8, <3>1, ShallowerLemma
    <3>3. slot' \in [Slots -> Record] /\ slot'[l] = y /\ \A t \in Slots \ {l} : slot'[t] = slot[t]
      BY <1>2, <2>2, <3>2
    <3>4. \A t \in Slots : Like(slot'[t], slot[t]) /\ Awake(slot'[t], slot[t])
                             /\ slot'[t].state = slot[t].state
      <4> TAKE t \in Slots
      <4>1. CASE t = l BY <3>2, <3>3, <4>1 DEF Awake
      <4>2. CASE t # l
        <5>1. slot'[t] = slot[t] BY <3>3, <4>2
        <5> QED BY <5>1 DEF Awake, Like
      <4> QED BY <4>1, <4>2
    <3>5. \A t \in Slots : t # l => slot'[t].owner = slot[t].owner /\ slot'[t].depth = slot[t].depth
      BY <3>3
    <3>6. slot'[l].owner = me /\ slot'[l].depth > 0 BY <1>4, <3>1, <3>2, <3>3
    <3>7. Registry(slot', {}, {}, me, R) BY <1>2, <1>4, <1>6, <3>3, <3>4, <3>5, <3>6, LockKeeps
    <3> QED BY <1>2, <3>4, <3>7
  <2> QED BY <1>5, <2>1, <2>2
<1>11. slot'[me].state \in Executing BY <1>10 DEF Executing
<1> QED BY <1>1, <1>3, <1>8, <1>10, <1>11, ReturnStep

\* A task that blocks in task_wait_threads stays who it is.
LEMMA GroupBlockedLemma ==
  ASSUME NEW x \in Record, NEW y, y = Blocked(x, NONE, 0, "group")
  PROVE  /\ y \in Record /\ Core(y, x) /\ y.owner = x.owner /\ y.depth = x.depth
         /\ y.state = "WAITING" /\ y.reason = "child" /\ y.wtid = NONE /\ y.call = "group"
<1>1. y \in Record
  <2>1. 0 \in 0..MaxGen BY LifecycleConstants
  <2>2. Blocked(x, NONE, 0, "group") \in Record BY <2>1 DEF Blocked, Record, States, Calls
  <2> QED BY <2>2
<1>2. Core(y, x) /\ y.owner = x.owner /\ y.depth = x.depth BY DEF Blocked, Record, Core
<1>3. y.state = "WAITING" /\ y.reason = "child" /\ y.wtid = NONE /\ y.call = "group"
  BY DEF Blocked, Record
<1> QED BY <1>1, <1>2, <1>3

\* task_wait_threads: one round of its loop.
LEMMA GroupRoundKeeps ==
  ASSUME LifeInv, NEW c \in CPUs, InCall(c), GroupRound(c) PROVE LifeInv'
<1> DEFINE me == cur[c]
           R == Ready
           y == Called(slot[me])
           b == Blocked(slot[me], NONE, 0, "group")
<1>1. /\ me \in Slots /\ slot[me].state = "RUNNING" /\ ~slot[me].pend
      /\ Registry(slot, {}, {}, me, R) /\ slot \in [Slots -> Record]
  BY CallFacts DEF Registry
<1>2. freeHint' \in Nat
  <2>1. PICK r : freeHint' = Hint(r) BY DEF GroupRound, Become
  <2> QED BY <2>1, HintLemma DEF LifeInv
<1>3. \/ HasThreads(slot, me) /\ slot' = [slot EXCEPT ![me] = b] /\ EnterNext(c)
      \/ slot' = [slot EXCEPT ![me] = y] /\ Return
  BY DEF GroupRound, Become, Waiting, Blocked, Called
<1>4. me = cur[c] /\ R = Ready /\ y = Called(slot[me]) /\ b = Blocked(slot[me], NONE, 0, "group")
  OBVIOUS
<1> HIDE DEF me, R, y, b
<1>5. CASE HasThreads(slot, me) /\ slot' = [slot EXCEPT ![me] = b] /\ EnterNext(c)
  <2>2. /\ b \in Record /\ Core(b, slot[me]) /\ b.owner = slot[me].owner
        /\ b.depth = slot[me].depth /\ b.state = "WAITING" /\ b.reason = "child"
        /\ b.wtid = NONE /\ b.call = "group"
    <3>1. slot[me] \in Record BY <1>1
    <3> QED BY ONLY <1>4, <3>1, GroupBlockedLemma
  <2>3. Registry(slot', {}, {}, me, R) BY <1>1, <1>5, <2>2, SelfKeeps
  <2> QED BY <1>2, <1>4, <1>5, <2>3, EnterStep
<1>6. CASE slot' = [slot EXCEPT ![me] = y] /\ Return
  <2>1. y.state = "RUNNING" BY <1>1, <1>4, CalledLemma
  <2>2. Registry(slot', {}, {}, me, R) BY <1>1, <1>4, <1>6, CalledKeeps
  <2>3. slot'[me].state \in Executing BY <1>1, <1>6, <2>1 DEF Executing
  <2> QED BY <1>2, <1>4, <1>6, <2>2, <2>3, ReturnStep
<1> QED BY <1>3, <1>5, <1>6

\* task_wait_threads keeps the invariant.
LEMMA WaitThreadsKeeps == ASSUME LifeInv, NEW c \in CPUs, WaitThreads(c) PROVE LifeInv'
<1>1. InCall(c) /\ GroupRound(c) BY DEF WaitThreads, InCall
<1> QED BY <1>1, GroupRoundKeeps

\* A task that blocked inside a call goes on with it.
LEMMA ResumeKeeps == ASSUME LifeInv, NEW c \in CPUs, Resume(c) PROVE LifeInv'
<1> DEFINE self == slot[cur[c]]
<1>1. InCall(c) BY DEF Resume, InCall
<1>2. self \in Record BY <1>1, CallFacts DEF Registry
<1>3. /\ self.wtid \in Slots \cup {NONE} /\ self.wgen \in 0..MaxGen BY <1>2 DEF Record
<1>4. CASE self.call \in {"wait", "join"} /\ WaitRound(c, self.wtid, self.wgen, self.call)
  <2> DEFINE t == self.wtid
             gen == self.wgen
             call == self.call
  <2>1. t \in Slots \cup {NONE} /\ gen \in 0..MaxGen /\ call \in {"wait", "join"}
        /\ WaitRound(c, t, gen, call)
    BY <1>3, <1>4
  <2> HIDE DEF t, gen, call
  <2> QED BY <1>1, <2>1, WaitRoundKeeps
<1>5. CASE self.call = "lock" /\ LockRound(c) BY <1>1, <1>5, LockRoundKeeps
<1>6. CASE self.call = "group" /\ GroupRound(c) BY <1>1, <1>6, GroupRoundKeeps
<1> QED BY <1>4, <1>5, <1>6 DEF Resume

\* A tick: nothing but the place of the CPU changes.
LEMMA PreemptKeeps == ASSUME LifeInv, NEW c \in CPUs, Preempt(c) PROVE LifeInv'
<1> DEFINE me == cur[c]
           R == Ready
<1>1. holder = NoCpu /\ phase = "free" BY DEF Preempt, LifeInv, Stacks
<1>2. /\ slot' = slot /\ freeHint' = freeHint /\ retired' = retired /\ cur' = cur
      /\ holder' = c /\ phase' = "begin" /\ c # NoCpu
  BY LifecycleConstants DEF Preempt, EnterNext
<1>3. Picking = {} /\ Busy = Idle BY <1>1, LifecycleConstants DEF Picking, Busy
<1>4. Picking' = {} /\ Busy' = me BY <1>2 DEF Picking, Busy
<1>5. R = retired BY <1>3 DEF LifeInv, Stacks, TypeOK, Ready
<1>6. Registry(slot, {}, {}, me, R)
  <2>1. Registry(slot, {}, {}, Idle, R) BY <1>3, LifeRegistry
  <2>2. Idle \notin Slots BY LifecycleConstants
  <2> HIDE DEF me, R
  <2> QED BY <2>1, <2>2, ExemptKeeps
<1>7. freeHint' \in Nat BY <1>2 DEF LifeInv, TypeOK
<1> HIDE DEF me, R
<1> QED BY <1>2, <1>4, <1>5, <1>6, <1>7, StepInv

\* task_next frees the retired stacks, carries out a pending termination of the
\* current task and marks it when it is through.
LEMMA BeginKeeps ==
  ASSUME NEW r, NEW X, X = {}, NEW me \in Slots \cup {Idle}, NEW R, R \subseteq Slots,
         Registry(r, X, X, me, R), me \in Slots => OnCpu(me), me \notin R,
         NEW r1, r1 = Release(r, R),
         NEW r2, r2 = IF me # Idle /\ r1[me].pend THEN FinishPending(r1, me, me) ELSE r1,
         NEW r3, r3 = [t \in Slots |-> IF t = me /\ r2[t].state = "WILL_EMPTY"
                                       THEN [r2[t] EXCEPT !.state = "READY"] ELSE r2[t]],
         NEW E, E = {t \in Slots : t = me /\ r2[t].state = "WILL_EMPTY"}
  PROVE  /\ Registry(r3, X, {me}, me, E)
         /\ me \in Slots => r3[me].state # "WILL_EMPTY"
<1>1. r \in [Slots -> Record] BY DEF Registry
<1>2. r1 \in [Slots -> Record]
  <2>1. \A u \in Slots : r[u].gen \in 0..MaxGen BY <1>1 DEF Record
  <2> QED BY <1>1, <2>1, EmptyRecord DEF Release
<1>3. \A t \in Slots : IF t \in R THEN Freed(r, r1, t) ELSE r1[t] = r[t]
  <2> TAKE t \in Slots
  <2>1. CASE t \in R
    <3>1. r1[t] = Empty(t, r[t].gen) BY <2>1 DEF Release
    <3>2. r1[t].state = "EMPTY" /\ ~r1[t].pend BY <3>1 DEF Empty
    <3>3. r[t].state = "READY" BY <2>1 DEF Registry, Leaving
    <3> QED BY <2>1, <3>2, <3>3 DEF Freed, Alive, InUse
  <2>2. CASE t \notin R BY <2>2 DEF Release
  <2> QED BY <2>1, <2>2
<1>4. Registry(r1, X, X, me, R \ R)
  BY ONLY <1>2, <1>3, Registry(r, X, X, me, R), ReleaseKeeps
<1> DEFINE N == R \ R
<1>5. Registry(r1, X, X, me, N) /\ N = {} BY <1>4
<1> HIDE DEF N
<1>6. Idle \notin Slots BY LifecycleConstants
<1>7. Registry(r2, X \ {me}, X \cup {me}, me, N)
  <2>1. CASE me # Idle /\ r1[me].pend
    <3>1. r2 = FinishPending(r1, me, me) BY <2>1
    <3>2. me \in Slots /\ Alive(r1, me) /\ OnCpu(me) BY <1>5, <2>1 DEF Registry, Pending
    <3>3. X \subseteq {me} OBVIOUS
    <3> QED BY ONLY <1>5, <3>1, <3>2, <3>3, FinishPendingKeeps
  <2>2. CASE ~(me # Idle /\ r1[me].pend)
    <3>1. r2 = r1 BY <2>2
    <3>2. me \in Slots => (me \in X => r1[me].state # "WAITING") /\ ~r1[me].pend BY <1>6, <2>2
    <3>3. Registry(r1, X \ {me}, X \cup {me}, me, N) BY ONLY <1>5, <3>2, DropKeeps
    <3> QED BY <3>1, <3>3
  <2> QED BY <2>1, <2>2
<1>8. X \ {me} = X /\ X \cup {me} = {me} OBVIOUS
<1> DEFINE P == {me}
<1>9. Registry(r2, X, P, me, N) BY <1>7, <1>8
<1> HIDE DEF P
<1>10. /\ Registry(r3, X, P, me, N \cup {t \in Slots : t = me /\ r2[t].state = "WILL_EMPTY"})
       /\ me \in Slots => r3[me].state # "WILL_EMPTY"
  BY <1>9, ReadyKeeps
<1>11. N \cup {t \in Slots : t = me /\ r2[t].state = "WILL_EMPTY"} = E BY <1>5
<1> QED BY <1>10, <1>11 DEF P

\* The first part of task_next keeps the invariant.
LEMMA NextBeginKeeps == ASSUME LifeInv, NEW c \in CPUs, NextBegin(c) PROVE LifeInv'
<1> DEFINE me == cur[c]
           R == Ready
           X == {}
           r1 == Release(slot, R)
           r2 == IF me # Idle /\ r1[me].pend THEN FinishPending(r1, me, me) ELSE r1
           r3 == [t \in Slots |-> IF t = me /\ r2[t].state = "WILL_EMPTY"
                                  THEN [r2[t] EXCEPT !.state = "READY"] ELSE r2[t]]
           E == {t \in Slots : t = me /\ r2[t].state = "WILL_EMPTY"}
           P == {t \in Slots : t = me}
<1>1. holder = c /\ phase = "begin" BY DEF NextBegin
<1>2. Picking = {} /\ Busy = me BY <1>1 DEF Picking, Busy
<1>3. R = retired /\ R \subseteq Slots BY <1>2 DEF LifeInv, Stacks, TypeOK, Ready
<1>4. Registry(slot, X, X, me, R) BY <1>2, LifeRegistry
<1>5. me \in Slots \cup {Idle} /\ me \notin R /\ OnCpu(me)
  BY <1>3 DEF LifeInv, TypeOK, Stacks, OnCpu
<1>6. Become(r3) /\ retired' = {} /\ phase' = "pick" /\ cur' = cur /\ holder' = c
  BY <1>1, <1>3 DEF NextBegin
<1>7. slot' = r3 /\ freeHint' \in Nat
  <2> HIDE DEF r3
  <2> QED BY <1>6, BecomeHint DEF LifeInv
<1>8. Picking' = P /\ Busy' = me BY <1>6 DEF Picking, Busy
<1>9. /\ X = {} /\ r1 = Release(slot, R)
      /\ r2 = IF me # Idle /\ r1[me].pend THEN FinishPending(r1, me, me) ELSE r1
      /\ r3 = [t \in Slots |-> IF t = me /\ r2[t].state = "WILL_EMPTY"
                               THEN [r2[t] EXCEPT !.state = "READY"] ELSE r2[t]]
      /\ E = {t \in Slots : t = me /\ r2[t].state = "WILL_EMPTY"}
      /\ E \subseteq P /\ P \subseteq {me} /\ P \subseteq Slots
  OBVIOUS
<1> HIDE DEF me, R, X, r1, r2, r3, E, P
<1>10. Registry(r3, X, {me}, me, E) /\ (me \in Slots => r3[me].state # "WILL_EMPTY")
  BY ONLY <1>3, <1>4, <1>5, <1>9, BeginKeeps
<1>11. Registry(r3, X, P, me, E) BY <1>9, <1>10, WeakenKeeps
<1>12. Registry(slot', {}, P, me, E) BY <1>7, <1>9, <1>11
<1>13. \A t \in P : slot'[t].state # "WILL_EMPTY" BY <1>7, <1>9, <1>10
<1>14. retired' \subseteq retired /\ retired' \subseteq E /\ E \subseteq retired' \cup P
  BY <1>6, <1>9
<1>15. c # NoCpu BY LifecycleConstants
<1> QED BY <1>6, <1>7, <1>8, <1>12, <1>13, <1>14, <1>15, StepInv

\* While task_next picks, the task it leaves is not a thread that is to terminate.
LEMMA LeftNotPending ==
  ASSUME LifeInv, NEW t \in Picking, slot[t].pend PROVE slot[t].kind = "PROCESS"
BY DEF LifeInv, Pending, Picking

\* scheduler_pick_next finishes a queued task that is to terminate: it never
\* takes the stack that task_next still runs on.
LEMMA FinishCandidateKeeps ==
  ASSUME LifeInv, NEW c \in CPUs, NEW t \in Slots, FinishCandidate(c, t) PROVE LifeInv'
<1> DEFINE me == cur[c]
           R == Ready
           X == {}
           P == {u \in Slots : u = me}
           q == FinishPending(slot, t, me)
<1>1. holder = c /\ phase = "pick" BY DEF FinishCandidate
<1>2. Picking = P /\ Busy = me BY <1>1 DEF Picking, Busy
<1>3. retired = {} /\ R \subseteq P BY <1>1, <1>2 DEF LifeInv, Stacks, TypeOK, Ready
<1>4. Registry(slot, X, P, me, R) BY <1>2, LifeRegistry
<1>5. slot' = q /\ freeHint' \in Nat BY BecomeHint DEF FinishCandidate, LifeInv
<1>6. retired' = retired /\ phase' = phase /\ cur' = cur /\ holder' = holder
  BY DEF FinishCandidate
<1>7. Picking' = P /\ Busy' = me BY <1>1, <1>6 DEF Picking, Busy
<1>8. Alive(slot, t) /\ ~OnCpu(t) /\ slot[t].pend BY DEF FinishCandidate, Candidate, Alive, InUse
<1>9. OnCpu(me) BY DEF OnCpu
<1>10. P \subseteq {me} /\ X = {} /\ X \ {t} = X /\ q = FinishPending(slot, t, me) OBVIOUS
<1> HIDE DEF me, R, X, P, q
<1>11. Registry(q, X \ {t}, P \cup {t}, me, R) /\ Disturbs(slot, q, Ended(slot, t), me)
  BY <1>4, <1>8, <1>9, <1>10, FinishPendingKeeps
<1>12. Registry(slot', {}, P, me, R)
  <2>1. Registry(q, X, P, me, R) BY <1>10, <1>11, WeakenKeeps
  <2> QED BY <1>5, <1>10, <2>1
<1>13. \A u \in P : slot'[u].state # "WILL_EMPTY"
  <2> SUFFICES ASSUME NEW u \in P, q[u].state = "WILL_EMPTY" PROVE FALSE BY <1>5
  <2>1. u = me /\ u \in Slots /\ u \in Picking BY <1>2, <1>10 DEF Picking
  <2>2. slot[u].state # "WILL_EMPTY" BY <2>1 DEF LifeInv, Stacks
  <2>3. u \in Ended(slot, t) /\ slot[u].state # "DIED" BY <1>11, <2>1, <2>2 DEF Disturbs
  <2>4. u # t BY <1>8, <1>9, <2>1
  <2>5. u \in Threads(slot, t) BY <2>3, <2>4 DEF Ended
  <2>6. slot[u].pend BY <1>8, <2>3, <2>5 DEF LifeInv, Pending
  <2> QED BY <2>1, <2>5, <2>6, LeftNotPending DEF Threads
<1>14. c # NoCpu BY LifecycleConstants
<1>15. retired' \subseteq retired /\ retired' \subseteq R /\ R \subseteq retired' \cup P
  BY <1>3, <1>6
<1> QED BY <1>1, <1>3, <1>5, <1>6, <1>7, <1>12, <1>13, <1>14, <1>15, StepInv

\* The switch: the task that is left is retired if it is through, and the CPU
\* runs on the stack of a task that nobody else runs.
LEMMA SwitchKeeps ==
  ASSUME LifeInv, NEW c \in CPUs, NEW n \in Slots \cup {Idle}, Switch(c, n) PROVE LifeInv'
<1> DEFINE me == cur[c]
<1>1. holder = c /\ phase = "pick" /\ slot' = slot /\ freeHint' = freeHint BY DEF Switch
<1>2. \A t : t \in Picking <=> t \in Slots /\ t = me BY <1>1 DEF Picking
<1>3. retired = {} /\ Busy = me BY <1>1 DEF LifeInv, Stacks, Busy
<1>4. c # NoCpu /\ NoCpu \notin CPUs /\ Idle \notin Slots BY LifecycleConstants
<1>5. cur \in [CPUs -> Slots \cup {Idle}] BY DEF LifeInv, TypeOK
<1>6. cur' = [cur EXCEPT ![c] = n] BY DEF Switch
<1>7. \A d \in CPUs : cur'[d] = IF d = c THEN n ELSE cur[d] BY <1>5, <1>6
<1>8. \/ holder' = c /\ phase' = "resume" /\ n # Idle
      \/ holder' = NoCpu /\ phase' = "free"
  BY DEF Switch
<1>9. retired' = {t \in Slots : t = me /\ slot[t].state = "READY"}
  BY <1>3 DEF Switch, Retire
<1>10. Picking' = {} /\ Busy' = Idle BY <1>4, <1>8 DEF Picking, Busy
<1>11. \A d, e \in CPUs : cur[d] = cur[e] /\ cur[d] # Idle => d = e BY DEF LifeInv, Stacks
<1>12. \A t \in Slots : OnCpu(t)' <=> t = n \/ (OnCpu(t) /\ t # me)
  BY <1>4, <1>7, <1>11 DEF OnCpu
<1>13. n # Idle => /\ slot[n].state = "RUNNING" /\ ~slot[n].pend
                   /\ n = me \/ ~OnCpu(n)
  BY DEF Switch
<1>14. TypeOK' BY <1>1, <1>5, <1>6, <1>8, <1>9 DEF LifeInv, TypeOK
<1>15. Groups(slot)' /\ Parents(slot)' /\ Locks(slot)' /\ Sleepers(slot, {})'
  BY <1>1 DEF LifeInv, Groups, Parents, Locks, Sleepers, Target, HasThreads, IsProcess, Alive, InUse
<1> HIDE DEF me
<1>16. Pending(slot, Picking)'
  <2> SUFFICES ASSUME NEW t \in Slots, slot[t].pend
               PROVE  /\ Alive(slot, t)
                      /\ \/ OnCpu(t)' /\ slot[t].state = "RUNNING"
                         \/ /\ slot[t].kind = "PROCESS"
                            /\ \A s \in Threads(slot, t) : slot[s].state # "DIED"
                                 => slot[s].pend /\ OnCpu(s)'
    BY <1>1, <1>10 DEF Pending, Threads, Alive, InUse
  <2>1. Alive(slot, t) BY DEF LifeInv, Pending
  <2>2. CASE OnCpu(t) /\ slot[t].state = "RUNNING" /\ t \notin Picking
    BY <1>2, <1>12, <2>1, <2>2
  <2>3. CASE /\ slot[t].kind = "PROCESS"
             /\ \A s \in Threads(slot, t) : slot[s].state # "DIED" => slot[s].pend /\ OnCpu(s)
    <3>1. ASSUME NEW s \in Threads(slot, t), slot[s].state # "DIED"
          PROVE  slot[s].pend /\ OnCpu(s)'
      <4>1. slot[s].pend /\ OnCpu(s) /\ s \in Slots /\ slot[s].kind = "THREAD"
        BY <2>3, <3>1 DEF Threads
      <4>2. s \notin Picking BY <4>1, LeftNotPending
      <4> QED BY <1>2, <1>12, <4>1, <4>2
    <3> QED BY <2>1, <2>3, <3>1
  <2> QED BY <2>2, <2>3 DEF LifeInv, Pending
<1>17. Running(slot, Busy)'
  <2>1. \A t \in Slots : OnCpu(t)' => slot[t].state \in Executing
    <3> SUFFICES ASSUME NEW t \in Slots, OnCpu(t)' PROVE slot[t].state \in Executing OBVIOUS
    <3>1. CASE t = n BY <1>4, <1>13, <3>1 DEF Executing
    <3>2. CASE OnCpu(t) /\ t # me BY <1>3, <3>2 DEF LifeInv, Stacks, Running
    <3> QED BY <1>12, <3>1, <3>2
  <2> QED BY <1>1, <2>1 DEF Running, Executing
<1>18. Stacks'
  <2>1. holder' = NoCpu <=> phase' = "free" BY <1>4, <1>8
  <2>2. \A d, e \in CPUs : cur'[d] = cur'[e] /\ cur'[d] # Idle => d = e
    <3> SUFFICES ASSUME NEW d \in CPUs, NEW e \in CPUs, cur'[d] = cur'[e], cur'[d] # Idle
                 PROVE  d = e
      OBVIOUS
    <3>1. \A f \in CPUs \ {c} : cur[f] = n => n = Idle BY <1>11, <1>13 DEF OnCpu, me
    <3> QED BY <1>7, <1>11, <3>1
  <2>3. phase' = "resume" => /\ cur'[holder'] \in Slots
                             /\ slot'[cur'[holder']].state = "RUNNING" /\ ~slot'[cur'[holder']].pend
    BY <1>1, <1>7, <1>8, <1>13
  <2>4. phase' # "pick" BY <1>8
  <2>5. \A d \in CPUs : cur'[d] \notin retired'
    <3> SUFFICES ASSUME NEW d \in CPUs, cur'[d] \in retired' PROVE FALSE OBVIOUS
    <3>1. cur'[d] \in Slots /\ cur'[d] = me /\ slot[me].state = "READY" BY <1>9
    <3>2. d # c BY <1>4, <1>7, <1>13, <3>1
    <3> QED BY <1>4, <1>7, <1>11, <3>1, <3>2 DEF me
  <2>6. \A t \in Slots :
          /\ slot'[t].state = "WILL_EMPTY" => OnCpu(t)' /\ ~slot'[t].mem /\ t \notin Picking'
          /\ slot'[t].state = "READY" => t \in retired' \cup Picking'
          /\ t \in retired' => slot'[t].state = "READY"
    <3> TAKE t \in Slots
    <3>1. slot[t].state = "WILL_EMPTY" => OnCpu(t) /\ ~slot[t].mem /\ t # me BY <1>2 DEF LifeInv, Stacks
    <3>2. slot[t].state = "READY" => t = me BY <1>2, <1>3 DEF LifeInv, Stacks
    <3> QED BY <1>1, <1>9, <1>10, <1>12, <3>1, <3>2
  <2> QED BY <1>17, <2>1, <2>2, <2>3, <2>4, <2>5, <2>6 DEF Stacks
<1> QED BY <1>14, <1>15, <1>16, <1>18 DEF LifeInv

\* The first process: the registry that the kernel starts with.
LEMMA InitLife == ASSUME Init PROVE LifeInv
<1> DEFINE z == [Empty(1, 1) EXCEPT !.state = "RUNNING", !.mem = TRUE, !.lgen = 1]
<1>1. /\ slot = [t \in Slots |-> IF t = 1 THEN z ELSE Empty(t, 0)] /\ 1 \in Slots
  BY LifecycleConstants DEF Init
<1>2. 0 \in 0..MaxGen /\ 1 \in 0..MaxGen BY LifecycleConstants
<1>3. Empty(1, 1) \in Record BY <1>1, <1>2, EmptyRecord
<1>4. z \in Record BY <1>2, <1>3 DEF Record, States
<1>5. /\ z.state = "RUNNING" /\ z.mem /\ z.kind = "PROCESS" /\ z.tgid = 1 /\ ~z.joinable
      /\ ~z.pend /\ z.ptid = NONE /\ z.owner = NONE /\ z.depth = 0 /\ z.call = "user"
  BY DEF Empty
<1> HIDE DEF z
<1>6. slot \in [Slots -> Record] BY <1>1, <1>2, <1>4, EmptyRecord
<1>7. slot[1] = z /\ \A t \in Slots \ {1} : slot[t].state = "EMPTY" /\ ~slot[t].pend
  BY <1>1 DEF Empty
<1>8. \A t : InUse(slot, t) => t = 1 BY <1>7 DEF InUse
<1>9. Alive(slot, 1) /\ IsProcess(slot, 1) BY <1>1, <1>5, <1>7 DEF Alive, InUse, IsProcess
<1>10. Groups(slot) BY <1>5, <1>7, <1>8 DEF Groups
<1>11. Parents(slot) /\ Locks(slot) BY <1>5, <1>7, <1>8 DEF Parents, Locks, Nobody
<1>12. Sleepers(slot, {}) BY <1>5, <1>7 DEF Sleepers
<1>13. \A t \in Slots : ~slot[t].pend BY <1>5, <1>7
<1>14. Pending(slot, Picking) BY <1>13 DEF Pending
<1>15. PICK c \in CPUs : cur = [d \in CPUs |-> IF d = c THEN 1 ELSE Idle] BY DEF Init
<1>16. freeHint = 2 /\ retired = {} /\ holder = NoCpu /\ phase = "free" BY DEF Init
<1>17. TypeOK BY <1>1, <1>6, <1>15, <1>16 DEF TypeOK
<1>18. Stacks
  <2>1. Idle \notin Slots /\ NoCpu \notin CPUs BY LifecycleConstants
  <2>2. \A d \in CPUs : cur[d] # Idle => d = c /\ cur[d] = 1 BY <1>15
  <2>3. \A t \in Slots : OnCpu(t) => t = 1 BY <2>1, <2>2 DEF OnCpu
  <2>4. Running(slot, Busy) BY <1>5, <1>7, <2>3 DEF Running, Executing
  <2>5. Picking = {} BY <1>16, <2>1 DEF Picking
  <2>6. \A t \in Slots : slot[t].state \in {"EMPTY", "RUNNING"} BY <1>5, <1>7
  <2> QED BY <1>16, <2>2, <2>4, <2>5, <2>6 DEF Stacks
<1> QED BY <1>10, <1>11, <1>12, <1>14, <1>17, <1>18 DEF LifeInv

\* A step that changes nothing.
LEMMA StutterLife == ASSUME LifeInv, UNCHANGED vars PROVE LifeInv'
BY DEF LifeInv, vars, TypeOK, Groups, Parents, Locks, Sleepers, Pending, Stacks, Target, HasThreads,
       IsProcess, Alive, InUse, Threads, OnCpu, Picking, Busy, Running, Executing

\* Every operation of the registry keeps the invariant.
LEMMA NextLife == ASSUME LifeInv, Next PROVE LifeInv'
<1> PICK c \in CPUs :
      \/ \E j \in BOOLEAN : CreateThread(c, j)
      \/ Fork(c) \/ ExecuteNoRet(c) \/ CreateFails(c) \/ Execute(c)
      \/ \E t \in Slots : \/ WaitChild(c, t, "wait") \/ WaitChild(c, t, "join")
                          \/ Detach(c, t) \/ TerminateThread(c, t) \/ KillProcess(c, t)
                          \/ FinishCandidate(c, t)
      \/ Exit(c) \/ ExitProcess(c)
      \/ TaskLock(c) \/ TaskUnlock(c) \/ WaitThreads(c)
      \/ Preempt(c) \/ NextBegin(c) \/ Resume(c)
      \/ \E n \in Slots \cup {Idle} : Switch(c, n)
  BY DEF Next
<1>1. CASE \E j \in BOOLEAN : CreateThread(c, j) BY <1>1, CreateThreadKeeps
<1>2. CASE Fork(c) \/ ExecuteNoRet(c) BY <1>2, ForkKeeps
<1>3. CASE CreateFails(c) BY <1>3, CreateFailsKeeps
<1>4. CASE Execute(c) BY <1>4, ExecuteKeeps
<1>5. CASE \E t \in Slots : \/ WaitChild(c, t, "wait") \/ WaitChild(c, t, "join")
                            \/ Detach(c, t) \/ TerminateThread(c, t) \/ KillProcess(c, t)
                            \/ FinishCandidate(c, t)
  <2> PICK t \in Slots : \/ WaitChild(c, t, "wait") \/ WaitChild(c, t, "join")
                         \/ Detach(c, t) \/ TerminateThread(c, t) \/ KillProcess(c, t)
                         \/ FinishCandidate(c, t)
    BY <1>5
  <2>1. CASE WaitChild(c, t, "wait") \/ WaitChild(c, t, "join") BY <2>1, WaitChildKeeps
  <2>2. CASE Detach(c, t) BY <2>2, DetachKeeps
  <2>3. CASE TerminateThread(c, t) BY <2>3, TerminateThreadKeeps
  <2>4. CASE KillProcess(c, t) BY <2>4, KillProcessKeeps
  <2>5. CASE FinishCandidate(c, t) BY <2>5, FinishCandidateKeeps
  <2> QED BY <2>1, <2>2, <2>3, <2>4, <2>5
<1>6. CASE Exit(c) BY <1>6, ExitKeeps
<1>7. CASE ExitProcess(c) BY <1>7, ExitProcessStep
<1>8. CASE TaskLock(c) BY <1>8, TaskLockKeeps
<1>9. CASE TaskUnlock(c) BY <1>9, TaskUnlockKeeps
<1>10. CASE WaitThreads(c) BY <1>10, WaitThreadsKeeps
<1>11. CASE Preempt(c) BY <1>11, PreemptKeeps
<1>12. CASE NextBegin(c) BY <1>12, NextBeginKeeps
<1>13. CASE Resume(c) BY <1>13, ResumeKeeps
<1>14. CASE \E n \in Slots \cup {Idle} : Switch(c, n) BY <1>14, SwitchKeeps
<1> QED BY <1>1, <1>2, <1>3, <1>4, <1>5, <1>6, <1>7, <1>8, <1>9, <1>10, <1>11, <1>12, <1>13, <1>14

\* The inductive invariant holds in every state of the registry.
THEOREM LifecycleCorrect == Spec => []LifeInv
<1>1. Init => LifeInv BY InitLife
<1>2. LifeInv /\ [Next]_vars => LifeInv' BY NextLife, StutterLife
<1> QED BY <1>1, <1>2, PTL DEF Spec

\* A CPU other than the one inside task_next runs a task that owns its slot.
LEMMA CpuState ==
  ASSUME LifeInv, NEW c \in CPUs, cur[c] # Idle, holder # c \/ phase = "resume"
  PROVE  cur[c] \in Slots /\ slot[cur[c]].state \in Executing
<1>1. cur[c] \in Slots /\ OnCpu(cur[c]) BY DEF LifeInv, TypeOK, OnCpu
<1>2. cur[c] # Busy BY DEF LifeInv, Stacks, Busy
<1> QED BY <1>1, <1>2 DEF LifeInv, Stacks, Running

\* No CPU runs on the stack of a slot that is free, claimed again or waiting to
\* be freed, and no two on one stack (finish_task, task_next, retired_tasks).
THEOREM StacksSafe == Spec => []StackSafe
<1>1. ASSUME LifeInv PROVE StackSafe
  <2> SUFFICES ASSUME NEW c \in CPUs, cur[c] # Idle, holder # c \/ phase = "resume"
               PROVE  /\ slot[cur[c]].state \notin {"EMPTY", "ALLOCATING", "DIED"}
                      /\ cur[c] \notin retired
                      /\ \A d \in CPUs \ {c} : cur[d] # cur[c]
    BY DEF StackSafe
  <2>1. slot[cur[c]].state \in {"RUNNING", "WILL_EMPTY"} BY <1>1, CpuState DEF Executing
  <2>2. cur[c] \notin retired /\ \A d \in CPUs \ {c} : cur[d] # cur[c]
    BY <1>1 DEF LifeInv, Stacks
  <2> QED BY <2>1, <2>2
<1> QED BY <1>1, LifecycleCorrect, PTL

\* A slot that is neither free nor usable is on a CPU or in retired_tasks, and
\* what is in retired_tasks is through (finish_task, task_next).
THEOREM SlotsKept == Spec => []NoSlotLost
<1>1. ASSUME LifeInv PROVE NoSlotLost BY <1>1 DEF LifeInv, Stacks, NoSlotLost, Picking, OnCpu
<1> QED BY <1>1, LifecycleCorrect, PTL

\* Who sleeps in task_wait sleeps on a living task of the generation it named
\* (task_wait, finish_task, reparent_children, task_detach_thread).
THEOREM JoinersWake == Spec => []JoinerHasTarget
<1>1. ASSUME LifeInv PROVE JoinerHasTarget
  BY <1>1 DEF LifeInv, Sleepers, Target, JoinerHasTarget
<1> QED BY <1>1, LifecycleCorrect, PTL

\* A deferred leader, and a task in task_wait_threads, has a thread left that
\* will run it (task_finish_pending, terminate_thread_group).
THEOREM DeferredWake == Spec => []DeferredHasThread
<1>1. ASSUME LifeInv PROVE DeferredHasThread BY <1>1 DEF LifeInv, Sleepers, DeferredHasThread
<1> QED BY <1>1, LifecycleCorrect, PTL

\* A process has the very parent it names, alive, and a zombie has somebody who
\* can wait for it (reparent_children, finish_task).
THEOREM ParentsLive == Spec => []ParentLives
<1>1. ASSUME LifeInv PROVE ParentLives
  <2> SUFFICES ASSUME NEW t \in Slots, InUse(slot, t)
               PROVE  /\ slot[t].kind = "PROCESS" /\ slot[t].ptid \notin {NONE, REAPER} =>
                           Alive(slot, slot[t].ptid) /\ slot[slot[t].ptid].gen = slot[t].pgen
                      /\ slot[t].state = "DIED" =>
                           IF slot[t].kind = "THREAD"
                           THEN slot[t].joinable /\ Alive(slot, slot[t].tgid)
                           ELSE slot[t].ptid \notin {NONE, REAPER}
    BY DEF ParentLives
  <2>1. slot[t].kind = "THREAD" => Alive(slot, slot[t].tgid)
    BY <1>1 DEF LifeInv, Groups, IsProcess
  <2> QED BY <1>1, <2>1 DEF LifeInv, Parents, IsProcess, Nobody
<1> QED BY <1>1, LifecycleCorrect, PTL

\* The group lock is owned by a living member, and who sleeps for it sleeps for
\* another owner (task_lock, task_unlock, task_clear_external_refs).
THEOREM GroupLocks == Spec => []GroupLockOwned
<1>1. ASSUME LifeInv PROVE GroupLockOwned
  BY <1>1 DEF LifeInv, Locks, Sleepers, GroupLockOwned
<1> QED BY <1>1, LifecycleCorrect, PTL

\* A thread that lives, or executes outside task_next, has its leader, the one
\* it was created under, and with it the address space (task_finish_pending); the
\* thread whose own SIGKILL finished it executes without both (user_signal_send).
THEOREM LeadersOutlive == Spec => []LeaderOutlives
<1>1. ASSUME LifeInv PROVE LeaderOutlives
  <2> SUFFICES ASSUME NEW t \in Slots, slot[t].kind = "THREAD",
                      Alive(slot, t) \/ \E c \in CPUs : cur[c] = t /\ holder # c
               PROVE  \/ /\ IsProcess(slot, slot[t].tgid) /\ slot[slot[t].tgid].gen = slot[t].lgen
                         /\ slot[slot[t].tgid].mem
                      \/ slot[t].state = "WILL_EMPTY" /\ ~slot[t].mem
    BY DEF LeaderOutlives, IsProcess, Alive, InUse
  <2>1. Alive(slot, t) \/ slot[t].state = "WILL_EMPTY"
    <3>1. Idle \notin Slots BY LifecycleConstants
    <3>2. ASSUME NEW c \in CPUs, cur[c] = t, holder # c
          PROVE  slot[t].state \in {"RUNNING", "WILL_EMPTY"}
      BY <1>1, <3>1, <3>2, CpuState DEF Executing
    <3> QED BY <3>2 DEF Alive, InUse
  <2>2. CASE slot[t].state = "WILL_EMPTY" BY <1>1, <2>2 DEF LifeInv, Stacks
  <2>3. CASE Alive(slot, t)
    <3>1. IsProcess(slot, slot[t].tgid) /\ slot[slot[t].tgid].gen = slot[t].lgen
      BY <1>1, <2>3 DEF LifeInv, Groups, Alive
    <3>2. slot[slot[t].tgid].mem BY <1>1, <3>1 DEF LifeInv, Groups, IsProcess, Alive, InUse
    <3> QED BY <3>1, <3>2
  <2> QED BY <2>1, <2>2, <2>3
<1> QED BY <1>1, LifecycleCorrect, PTL
=============================================================================
