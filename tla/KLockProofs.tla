---------------------------- MODULE KLockProofs ----------------------------
(***************************************************************************)
(* Proofs about KLock, for any number of tasks: the pointers form a list,  *)
(* the lock implements the queue of WaitQueue, and no waiter is stranded   *)
(* as long as woken tasks are not killed.                                  *)
(***************************************************************************)
EXTENDS KLock, FiniteSetTheorems, WellFoundedInduction, TLAPS

\* Where the tasks in the lock and on its list are.
PcShape ==
  /\ locked <=> owner # NULL
  /\ \A t \in Tasks :
       /\ waiting_lock[t] => pc[t] \in {"trying", "blocked", "runnable"}
       /\ pc[t] = "blocked" => waiting_lock[t]

\* The inductive invariant.
KLockInv == TypeOK /\ PcShape /\ \E q \in Seq(Tasks) : Linked(q)

-----------------------------------------------------------------------------
(* The list *)

\* A queue without one element.
LEMMA RemovedType ==
  ASSUME NEW q \in Seq(Tasks), NEW k \in 1..Len(q)
  PROVE  /\ Queue!Removed(q, k) \in Seq(Tasks)
         /\ Len(Queue!Removed(q, k)) = Len(q) - 1
         /\ \A j \in 1..(Len(q) - 1) :
              Queue!Removed(q, k)[j] = IF j < k THEN q[j] ELSE q[j + 1]
<1>1. Len(q) - 1 \in Nat OBVIOUS
<1>2. \A j \in 1..(Len(q) - 1) : (IF j < k THEN q[j] ELSE q[j + 1]) \in Tasks
  OBVIOUS
<1> DEFINE r == [j \in 1..(Len(q) - 1) |-> IF j < k THEN q[j] ELSE q[j + 1]]
<1>3. r \in Seq(Tasks) /\ Len(r) = Len(q) - 1 BY <1>1, <1>2
<1>4. Queue!Removed(q, k) = r BY DEF Queue!Removed
<1>5. QED BY <1>3, <1>4

\* lock_waiter_remove takes one task out of the list.
LEMMA RemoveLinked ==
  ASSUME TypeOK, NEW q \in Seq(Tasks), Linked(q), NEW k \in 1..Len(q), WaiterRemove(q[k]),
         NEW r, r = Queue!Removed(q, k)
  PROVE  r \in Seq(Tasks) /\ Linked(r)'
<1> DEFINE t == q[k]
<1>0. t \in Tasks /\ waiting_lock[t] BY DEF Linked
<1>1. /\ r \in Seq(Tasks) /\ Len(r) = Len(q) - 1
      /\ \A j \in 1..(Len(q) - 1) : r[j] = IF j < k THEN q[j] ELSE q[j + 1]
  BY RemovedType
<1>2. /\ lock_previous[t] = IF k = 1 THEN NULL ELSE q[k - 1]
      /\ lock_next[t] = IF k = Len(q) THEN NULL ELSE q[k + 1]
  BY DEF Linked
<1>3. /\ waiter' = IF k = 1 THEN lock_next[t] ELSE waiter
      /\ waiter_tail' = IF k = Len(q) THEN lock_previous[t] ELSE waiter_tail
      /\ waiting_lock' = [waiting_lock EXCEPT ![t] = FALSE]
  BY <1>0, <1>2, KLockConstants DEF WaiterRemove
<1>4. \A u \in Tasks :
        /\ waiting_lock'[u] <=> waiting_lock[u] /\ u # t
        /\ lock_previous'[u] = IF u = t THEN NULL
                               ELSE IF k # Len(q) /\ u = q[k + 1] THEN lock_previous[t]
                               ELSE lock_previous[u]
        /\ lock_next'[u] = IF u = t THEN NULL
                           ELSE IF k # 1 /\ u = q[k - 1] THEN lock_next[t]
                           ELSE lock_next[u]
  BY <1>0, <1>2, <1>3, KLockConstants DEF WaiterRemove, TypeOK
<1>5. \A i, j \in 1..Len(q) : q[i] = q[j] => i = j BY DEF Linked
<1>6. waiter' = IF r = <<>> THEN NULL ELSE r[1]
  <2>1. CASE Len(q) = 1
    <3>1. r = <<>> /\ k = 1 BY <2>1, <1>1
    <3>2. QED BY <2>1, <3>1, <1>2, <1>3
  <2>2. CASE Len(q) # 1
    <3>1. r # <<>> /\ q # <<>> BY <2>2, <1>1
    <3>2. r[1] = IF k = 1 THEN q[2] ELSE q[1] BY <2>2, <1>1
    <3>3. waiter = q[1] BY <3>1 DEF Linked
    <3>4. k = 1 => lock_next[t] = q[2] BY <2>2, <1>2
    <3>5. QED BY <3>1, <3>2, <3>3, <3>4, <1>3
  <2>3. QED BY <2>1, <2>2
<1>7. waiter_tail' = IF r = <<>> THEN NULL ELSE r[Len(r)]
  BY <1>1, <1>2, <1>3 DEF Linked
<1>8. ASSUME NEW u \in Tasks, waiting_lock'[u] PROVE \E i \in 1..Len(r) : r[i] = u
  <2>1. PICK i \in 1..Len(q) : q[i] = u BY <1>4, <1>8 DEF Linked
  <2>2. i # k BY <2>1, <1>4, <1>8
  <2>3. CASE i < k
    <3>1. i \in 1..Len(r) /\ r[i] = u BY <2>1, <2>3, <1>1
    <3>2. QED BY <3>1
  <2>4. CASE i > k
    <3>1. i - 1 \in 1..Len(r) /\ r[i - 1] = u BY <2>1, <2>4, <1>1
    <3>2. QED BY <3>1
  <2>5. QED BY <2>2, <2>3, <2>4
<1>9. ASSUME NEW i \in 1..Len(r)
      PROVE /\ waiting_lock'[r[i]]
            /\ lock_previous'[r[i]] = IF i = 1 THEN NULL ELSE r[i - 1]
            /\ lock_next'[r[i]] = IF i = Len(r) THEN NULL ELSE r[i + 1]
            /\ \A j \in 1..Len(r) : r[i] = r[j] => i = j
  <2> DEFINE m == IF i < k THEN i ELSE i + 1
  <2>1. m \in 1..Len(q) /\ m # k /\ r[i] = q[m] BY <1>1
  <2>2. q[m] \in Tasks /\ q[m] # t BY <2>1, <1>5
  <2>3. /\ waiting_lock[q[m]]
        /\ lock_previous[q[m]] = IF m = 1 THEN NULL ELSE q[m - 1]
        /\ lock_next[q[m]] = IF m = Len(q) THEN NULL ELSE q[m + 1]
    BY <2>1 DEF Linked
  <2>4. waiting_lock'[r[i]] BY <2>1, <2>2, <2>3, <1>4
  <2>5. (k # Len(q) /\ q[m] = q[k + 1]) <=> m = k + 1
    BY <2>1, <1>5
  <2>6. (k # 1 /\ q[m] = q[k - 1]) <=> m = k - 1
    BY <2>1, <1>5
  <2>7. lock_previous'[r[i]] = IF i = 1 THEN NULL ELSE r[i - 1]
    <3>1. lock_previous'[r[i]] = IF m = k + 1 THEN lock_previous[t] ELSE lock_previous[q[m]]
      BY <2>1, <2>2, <2>5, <1>4
    <3>2. i # 1 => r[i - 1] = IF i - 1 < k THEN q[i - 1] ELSE q[i] BY <1>1
    <3>3. QED BY <3>1, <3>2, <2>3, <1>1, <1>2
  <2>8. lock_next'[r[i]] = IF i = Len(r) THEN NULL ELSE r[i + 1]
    <3>1. lock_next'[r[i]] = IF m = k - 1 THEN lock_next[t] ELSE lock_next[q[m]]
      BY <2>1, <2>2, <2>6, <1>4
    <3>2. i # Len(r) => r[i + 1] = IF i + 1 < k THEN q[i + 1] ELSE q[i + 2] BY <1>1
    <3>3. QED BY <3>1, <3>2, <2>3, <1>1, <1>2
  <2>9. ASSUME NEW j \in 1..Len(r), r[i] = r[j] PROVE i = j
    <3> DEFINE l == IF j < k THEN j ELSE j + 1
    <3>1. l \in 1..Len(q) /\ r[j] = q[l] BY <1>1
    <3>2. m = l BY <2>1, <2>9, <3>1, <1>5
    <3>3. QED BY <3>2
  <2>10. QED BY <2>4, <2>7, <2>8, <2>9
<1>10. Linked(r)' BY <1>6, <1>7, <1>8, <1>9 DEF Linked
<1>11. QED BY <1>1, <1>10

\* lock appends a task that is not on the list.
LEMMA AddLinked ==
  ASSUME TypeOK, NEW q \in Seq(Tasks), Linked(q), NEW t \in Tasks, ~waiting_lock[t],
         WaiterAdd(t), NEW r, r = Append(q, t)
  PROVE  r \in Seq(Tasks) /\ Linked(r)'
<1>1. /\ r \in Seq(Tasks) /\ Len(r) = Len(q) + 1 /\ r # <<>> /\ r[Len(r)] = t
      /\ \A i \in 1..Len(q) : r[i] = q[i]
  OBVIOUS
<1>2. \A i \in 1..Len(q) : q[i] \in Tasks /\ q[i] # t /\ q[i] # NULL
  BY KLockConstants DEF Linked
<1>3. waiter_tail = (IF q = <<>> THEN NULL ELSE q[Len(q)])
      /\ waiter = (IF q = <<>> THEN NULL ELSE q[1])
  BY DEF Linked
<1>4. q # <<>> => Len(q) \in 1..Len(q) OBVIOUS
<1>5. /\ waiter_tail' = t
      /\ waiter' = IF q = <<>> THEN t ELSE waiter
  BY <1>2, <1>3, <1>4 DEF WaiterAdd
<1>6. \A u \in Tasks :
        /\ waiting_lock'[u] <=> waiting_lock[u] \/ u = t
        /\ lock_next'[u] = IF u = t THEN NULL ELSE IF u = waiter_tail THEN t ELSE lock_next[u]
        /\ lock_previous'[u] = IF u = t THEN waiter_tail ELSE lock_previous[u]
  BY DEF WaiterAdd, TypeOK
<1>7. waiter' = IF r = <<>> THEN NULL ELSE r[1]
  BY <1>1, <1>3, <1>4, <1>5
<1>8. ASSUME NEW u \in Tasks, waiting_lock'[u] PROVE \E i \in 1..Len(r) : r[i] = u
  <2>1. CASE u = t
    <3>1. Len(r) \in 1..Len(r) BY <1>1
    <3>2. QED BY <3>1, <2>1, <1>1
  <2>2. CASE u # t
    <3>1. PICK i \in 1..Len(q) : q[i] = u BY <2>2, <1>6, <1>8 DEF Linked
    <3>2. i \in 1..Len(r) /\ r[i] = u BY <3>1, <1>1
    <3>3. QED BY <3>2
  <2>3. QED BY <2>1, <2>2
<1>9. ASSUME NEW i \in 1..Len(r)
      PROVE /\ waiting_lock'[r[i]]
            /\ lock_previous'[r[i]] = IF i = 1 THEN NULL ELSE r[i - 1]
            /\ lock_next'[r[i]] = IF i = Len(r) THEN NULL ELSE r[i + 1]
            /\ \A j \in 1..Len(r) : r[i] = r[j] => i = j
  <2>1. CASE i = Len(r)
    <3>1. r[i] = t /\ (i = 1 <=> q = <<>>) BY <2>1, <1>1
    <3>2. i # 1 => r[i - 1] = q[Len(q)] BY <2>1, <1>1
    <3>3. \A j \in 1..Len(r) : j # i => r[j] # t BY <2>1, <1>1, <1>2
    <3>4. QED BY <2>1, <3>1, <3>2, <3>3, <1>3, <1>6
  <2>2. CASE i # Len(r)
    <3>1. i \in 1..Len(q) /\ r[i] = q[i] BY <2>2, <1>1
    <3>2. /\ waiting_lock[q[i]]
          /\ lock_previous[q[i]] = IF i = 1 THEN NULL ELSE q[i - 1]
          /\ lock_next[q[i]] = IF i = Len(q) THEN NULL ELSE q[i + 1]
          /\ \A j \in 1..Len(q) : q[i] = q[j] => i = j
      BY <3>1 DEF Linked
    <3>3. q[i] = waiter_tail <=> i = Len(q) BY <3>1, <3>2, <1>3, <1>4
    <3>4. waiting_lock'[r[i]] BY <3>1, <3>2, <1>2, <1>6
    <3>5. lock_previous'[r[i]] = IF i = 1 THEN NULL ELSE r[i - 1]
      BY <3>1, <3>2, <1>1, <1>2, <1>6
    <3>6. lock_next'[r[i]] = r[i + 1]
      <4>1. CASE i = Len(q) BY <4>1, <3>1, <3>3, <1>1, <1>2, <1>6
      <4>2. CASE i # Len(q) BY <4>2, <3>1, <3>2, <3>3, <1>1, <1>2, <1>6
      <4>3. QED BY <4>1, <4>2
    <3>7. \A j \in 1..Len(r) : r[i] = r[j] => i = j BY <3>1, <3>2, <1>1, <1>2
    <3>8. QED BY <2>2, <3>4, <3>5, <3>6, <3>7
  <2>3. QED BY <2>1, <2>2
<1>10. Linked(r)' BY <1>1, <1>5, <1>7, <1>8, <1>9 DEF Linked
<1>11. QED BY <1>1, <1>10

\* A set of naturals has a least element.
LEMMA LeastNat ==
  ASSUME NEW S \in SUBSET Nat, S # {}
  PROVE  \E i \in S : \A j \in S : i <= j
<1>1. PICK i \in S : \A j \in S : ~(<<j, i>> \in OpToRel(<, Nat))
  BY NatLessThanWellFounded, WFMin, Zenon
<1>2. \A j \in S : ~(j < i) BY <1>1 DEF OpToRel
<1>3. QED BY <1>2

\* The pointers determine the order: two rows that agree with them are equal
\* as far as the first one goes.
LEMMA SameStart ==
  ASSUME NEW q \in Seq(Tasks), NEW r \in Seq(Tasks), Linked(q), Linked(r)
  PROVE  \A i \in 1..Len(q) : i \in 1..Len(r) /\ q[i] = r[i]
<1> DEFINE S == {i \in 1..Len(q) : ~(i \in 1..Len(r) /\ q[i] = r[i])}
<1> SUFFICES ASSUME S # {} PROVE FALSE OBVIOUS
<1>1. PICK i \in S : \A j \in S : i <= j
  <2>1. S \in SUBSET Nat OBVIOUS
  <2>2. QED BY <2>1, LeastNat
<1>2. i \in 1..Len(q) /\ q[i] \in Tasks /\ q # <<>> OBVIOUS
<1>3. CASE i = 1
  <2>1. waiter = q[1] BY <1>2 DEF Linked
  <2>2. r # <<>> /\ waiter = r[1] BY <1>2, <1>3, <2>1, KLockConstants DEF Linked
  <2>3. 1 \in 1..Len(r) BY <2>2
  <2>4. QED BY <1>3, <2>1, <2>2, <2>3
<1>4. CASE i # 1
  <2>1. i - 1 \in 1..Len(q) /\ i - 1 \notin S BY <1>1, <1>2, <1>4
  <2>2. i - 1 \in 1..Len(r) /\ q[i - 1] = r[i - 1] BY <2>1
  <2>3. lock_next[q[i - 1]] = q[i] BY <1>2, <2>1 DEF Linked
  <2>4. lock_next[r[i - 1]] = IF i - 1 = Len(r) THEN NULL ELSE r[i]
    <3>1. \A m \in 1..Len(r) : lock_next[r[m]] = IF m = Len(r) THEN NULL ELSE r[m + 1]
      BY DEF Linked
    <3>2. (i - 1) + 1 = i BY <1>2
    <3>3. QED BY <2>2, <3>1, <3>2
  <2>5. i - 1 # Len(r) /\ r[i] = q[i] BY <1>2, <2>2, <2>3, <2>4, KLockConstants
  <2>6. i \in 1..Len(r) BY <1>2, <2>2, <2>5
  <2>7. QED BY <2>5, <2>6
<1>5. QED BY <1>3, <1>4

\* The waiters in list order are the row that the pointers form.
LEMMA WaitersAre ==
  \A q \in Seq(Tasks) : TypeOK /\ Linked(q) => q \in Orders /\ Waiters = q
<1> SUFFICES ASSUME NEW q \in Seq(Tasks), TypeOK, Linked(q)
             PROVE  q \in Orders /\ Waiters = q
  OBVIOUS
<1> DEFINE W == {t \in Tasks : waiting_lock[t]}
<1>1. q \in [1..Len(q) -> W] BY DEF Linked
<1>2. \A i, j \in 1..Len(q) : q[i] = q[j] => i = j BY DEF Linked
<1>3. \A t \in W : \E i \in 1..Len(q) : q[i] = t BY DEF Linked
<1>4. ExistsBijection(1..Len(q), W)
  BY <1>1, <1>2, <1>3
  DEF ExistsBijection, Bijection, Injection, Surjection, IsInjective
<1>5. Cardinality(W) = Len(q) BY <1>4, FS_CountingElements
<1>6. q \in Orders BY <1>1, <1>5 DEF Orders
<1>7. ASSUME NEW r \in Orders, Linked(r) PROVE r = q
  <2>1. r \in [1..Len(q) -> W] BY <1>5 DEF Orders
  <2>2. r \in Seq(Tasks) /\ Len(r) = Len(q) BY <2>1
  <2>3. \A i \in 1..Len(q) : q[i] = r[i] BY <1>7, <2>2, SameStart
  <2>4. QED BY <1>1, <2>1, <2>3
<1>8. Waiters = q BY <1>6, <1>7 DEF Waiters
<1>9. QED BY <1>6, <1>8

-----------------------------------------------------------------------------
(* Steps *)

\* A task on the list has a place in it.
LEMMA RemoveKeeps ==
  ASSUME TypeOK, NEW q \in Seq(Tasks), Linked(q), NEW t \in Tasks, WaiterRemove(t)
  PROVE  /\ waiting_lock' = [waiting_lock EXCEPT ![t] = FALSE]
         /\ waiter' \in Tasks \cup {NULL} /\ waiter_tail' \in Tasks \cup {NULL}
         /\ lock_next' \in [Tasks -> Tasks \cup {NULL}]
         /\ lock_previous' \in [Tasks -> Tasks \cup {NULL}]
         /\ \A u \in Tasks : ~waiting_lock'[u] =>
              lock_next'[u] = NULL /\ lock_previous'[u] = NULL
         /\ \/ ~waiting_lock[t] /\ UNCHANGED listVars /\ Linked(q)'
            \/ \E k \in 1..Len(q) : q[k] = t /\ Queue!Removed(q, k) \in Seq(Tasks)
                                    /\ Linked(Queue!Removed(q, k))'
<1>1. CASE ~waiting_lock[t]
  <2>1. UNCHANGED listVars BY <1>1 DEF WaiterRemove
  <2>2. Linked(q)' BY <2>1 DEF Linked, listVars
  <2>3. waiting_lock = [waiting_lock EXCEPT ![t] = FALSE] BY <1>1 DEF TypeOK
  <2>4. QED BY <1>1, <2>1, <2>2, <2>3 DEF TypeOK, listVars
<1>2. CASE waiting_lock[t]
  <2>1. PICK k \in 1..Len(q) : q[k] = t BY <1>2 DEF Linked
  <2>2. Queue!Removed(q, k) \in Seq(Tasks) /\ Linked(Queue!Removed(q, k))'
    BY <2>1, RemoveLinked
  <2>3. /\ waiting_lock' = [waiting_lock EXCEPT ![t] = FALSE]
        /\ waiter' \in Tasks \cup {NULL} /\ waiter_tail' \in Tasks \cup {NULL}
        /\ lock_next' \in [Tasks -> Tasks \cup {NULL}]
        /\ lock_previous' \in [Tasks -> Tasks \cup {NULL}]
    BY <1>2 DEF WaiterRemove, TypeOK
  <2>4. ASSUME NEW u \in Tasks, ~waiting_lock'[u]
        PROVE  lock_next'[u] = NULL /\ lock_previous'[u] = NULL
    <3>1. CASE u = t BY <3>1, <1>2 DEF WaiterRemove
    <3>2. CASE u # t
      <4>1. ~waiting_lock[u] BY <3>2, <2>3, <2>4 DEF TypeOK
      <4>2. u # lock_next[t] /\ u # lock_previous[t]
        <5>1. /\ lock_previous[t] = IF k = 1 THEN NULL ELSE q[k - 1]
              /\ lock_next[t] = IF k = Len(q) THEN NULL ELSE q[k + 1]
          BY <2>1 DEF Linked
        <5>2. \A i \in 1..Len(q) : waiting_lock[q[i]] BY DEF Linked
        <5>3. QED BY <4>1, <5>1, <5>2, KLockConstants
      <4>3. lock_next'[u] = lock_next[u] /\ lock_previous'[u] = lock_previous[u]
        BY <3>2, <4>2, <1>2 DEF WaiterRemove
      <4>4. QED BY <4>1, <4>3 DEF TypeOK
    <3>3. QED BY <3>1, <3>2
  <2>5. QED BY <2>1, <2>2, <2>3, <2>4
<1>3. QED BY <1>1, <1>2

\* lock adds a task that is not on the list, at the end.
LEMMA AddKeeps ==
  ASSUME TypeOK, NEW q \in Seq(Tasks), Linked(q), NEW t \in Tasks, WaiterAdd(t)
  PROVE  /\ waiting_lock' = [waiting_lock EXCEPT ![t] = TRUE]
         /\ waiter' \in Tasks \cup {NULL} /\ waiter_tail' \in Tasks \cup {NULL}
         /\ lock_next' \in [Tasks -> Tasks \cup {NULL}]
         /\ lock_previous' \in [Tasks -> Tasks \cup {NULL}]
         /\ \A u \in Tasks : ~waiting_lock'[u] =>
              lock_next'[u] = NULL /\ lock_previous'[u] = NULL
         /\ \/ waiting_lock[t] /\ UNCHANGED listVars /\ Linked(q)'
            \/ ~waiting_lock[t] /\ Append(q, t) \in Seq(Tasks) /\ Linked(Append(q, t))'
<1>1. CASE waiting_lock[t]
  <2>1. UNCHANGED listVars BY <1>1 DEF WaiterAdd
  <2>2. Linked(q)' BY <2>1 DEF Linked, listVars
  <2>3. waiting_lock = [waiting_lock EXCEPT ![t] = TRUE] BY <1>1 DEF TypeOK
  <2>4. QED BY <1>1, <2>1, <2>2, <2>3 DEF TypeOK, listVars
<1>2. CASE ~waiting_lock[t]
  <2>1. Append(q, t) \in Seq(Tasks) /\ Linked(Append(q, t))' BY <1>2, AddLinked
  <2>2. /\ waiting_lock' = [waiting_lock EXCEPT ![t] = TRUE]
        /\ waiter' \in Tasks \cup {NULL} /\ waiter_tail' \in Tasks \cup {NULL}
        /\ lock_next' \in [Tasks -> Tasks \cup {NULL}]
        /\ lock_previous' \in [Tasks -> Tasks \cup {NULL}]
    BY <1>2 DEF WaiterAdd, TypeOK
  <2>3. ASSUME NEW u \in Tasks, ~waiting_lock'[u]
        PROVE  lock_next'[u] = NULL /\ lock_previous'[u] = NULL
    <3>1. u # t /\ ~waiting_lock[u] BY <2>2, <2>3 DEF TypeOK
    <3>2. u # waiter_tail
      <4>1. waiter_tail = NULL \/ waiting_lock[waiter_tail]
        <5>1. q # <<>> => Len(q) \in 1..Len(q) OBVIOUS
        <5>2. QED BY <5>1 DEF Linked
      <4>2. QED BY <3>1, <4>1, KLockConstants
    <3>3. lock_next'[u] = lock_next[u] /\ lock_previous'[u] = lock_previous[u]
      BY <3>1, <3>2, <1>2 DEF WaiterAdd, TypeOK
    <3>4. QED BY <3>1, <3>3 DEF TypeOK
  <2>4. QED BY <1>2, <2>1, <2>2, <2>3
<1>3. QED BY <1>1, <1>2

\* Steps that leave the list alone.
LEMMA ListKept ==
  ASSUME KLockInv, UNCHANGED listVars, locked' \in BOOLEAN, owner' \in Tasks \cup {NULL},
         ready' \in [Tasks -> BOOLEAN], pc' \in [Tasks -> Places], PcShape'
  PROVE  KLockInv'
<1>1. PICK q \in Seq(Tasks) : Linked(q) BY DEF KLockInv
<1>2. Linked(q)' BY <1>1 DEF Linked, listVars
<1>3. TypeOK' BY DEF KLockInv, TypeOK, listVars
<1>4. QED BY <1>2, <1>3 DEF KLockInv

\* lock finds the lock free.
LEMMA AcquireKeeps ==
  ASSUME KLockInv, NEW t \in Tasks, Acquire(t)
  PROVE  KLockInv'
<1>0. TypeOK /\ PcShape BY DEF KLockInv
<1>1. PICK q \in Seq(Tasks) : Linked(q) BY DEF KLockInv
<1>2. WaiterRemove(t) BY DEF Acquire
<1>3. /\ waiting_lock' = [waiting_lock EXCEPT ![t] = FALSE]
      /\ waiter' \in Tasks \cup {NULL} /\ waiter_tail' \in Tasks \cup {NULL}
      /\ lock_next' \in [Tasks -> Tasks \cup {NULL}]
      /\ lock_previous' \in [Tasks -> Tasks \cup {NULL}]
      /\ \A u \in Tasks : ~waiting_lock'[u] =>
           lock_next'[u] = NULL /\ lock_previous'[u] = NULL
      /\ \E r \in Seq(Tasks) : Linked(r)'
  BY <1>0, <1>1, <1>2, RemoveKeeps
<1>4. TypeOK' BY <1>0, <1>3 DEF Acquire, TypeOK, Places
<1>5. PcShape' BY <1>0, <1>3, KLockConstants DEF Acquire, TypeOK, PcShape
<1>6. QED BY <1>3, <1>4, <1>5 DEF KLockInv

\* lock finds the lock taken.
LEMMA WaitKeeps ==
  ASSUME KLockInv, NEW t \in Tasks, Wait(t)
  PROVE  KLockInv'
<1>0. TypeOK /\ PcShape BY DEF KLockInv
<1>1. PICK q \in Seq(Tasks) : Linked(q) BY DEF KLockInv
<1>2. WaiterAdd(t) BY DEF Wait
<1>3. /\ waiting_lock' = [waiting_lock EXCEPT ![t] = TRUE]
      /\ waiter' \in Tasks \cup {NULL} /\ waiter_tail' \in Tasks \cup {NULL}
      /\ lock_next' \in [Tasks -> Tasks \cup {NULL}]
      /\ lock_previous' \in [Tasks -> Tasks \cup {NULL}]
      /\ \A u \in Tasks : ~waiting_lock'[u] =>
           lock_next'[u] = NULL /\ lock_previous'[u] = NULL
      /\ \E r \in Seq(Tasks) : Linked(r)'
  BY <1>0, <1>1, <1>2, AddKeeps
<1>4. TypeOK' BY <1>0, <1>3 DEF Wait, TypeOK, Places
<1>5. PcShape' BY <1>0, <1>3 DEF Wait, TypeOK, PcShape
<1>6. QED BY <1>3, <1>4, <1>5 DEF KLockInv

\* unlock, with and without a waiter.
LEMMA UnlockKeeps ==
  ASSUME KLockInv, NEW t \in Tasks, Unlock(t)
  PROVE  KLockInv'
<1>0. TypeOK /\ PcShape BY DEF KLockInv
<1>1. PICK q \in Seq(Tasks) : Linked(q) BY DEF KLockInv
<1>2. pc[t] = "critical" /\ locked' = FALSE /\ owner' = NULL BY DEF Unlock
<1>3. CASE waiter # NULL
  <2>1. /\ WaiterRemove(waiter)
        /\ pc' = [pc EXCEPT ![t] = "out",
                            ![waiter] = IF @ = "blocked" THEN "runnable" ELSE @]
        /\ ready' = [ready EXCEPT ![waiter] = pc[waiter] # "blocked"]
    BY <1>3 DEF Unlock
  <2>2. waiter \in Tasks BY <1>0, <1>3 DEF TypeOK
  <2>3. waiting_lock[waiter] /\ waiter # t
    <3>1. q # <<>> /\ waiter = q[1] BY <1>1, <1>3 DEF Linked
    <3>2. 1 \in 1..Len(q) BY <3>1
    <3>3. waiting_lock[waiter] BY <3>1, <3>2, <1>1 DEF Linked
    <3>4. QED BY <3>3, <1>0, <1>2 DEF PcShape
  <2>4. /\ waiting_lock' = [waiting_lock EXCEPT ![waiter] = FALSE]
        /\ waiter' \in Tasks \cup {NULL} /\ waiter_tail' \in Tasks \cup {NULL}
        /\ lock_next' \in [Tasks -> Tasks \cup {NULL}]
        /\ lock_previous' \in [Tasks -> Tasks \cup {NULL}]
        /\ \A u \in Tasks : ~waiting_lock'[u] =>
             lock_next'[u] = NULL /\ lock_previous'[u] = NULL
        /\ \E r \in Seq(Tasks) : Linked(r)'
    BY <1>0, <1>1, <2>1, <2>2, RemoveKeeps
  <2>5. TypeOK' BY <1>0, <1>2, <2>1, <2>2, <2>4 DEF TypeOK, Places
  <2>6. PcShape' BY <1>0, <1>2, <2>1, <2>2, <2>3, <2>4 DEF TypeOK, PcShape
  <2>7. QED BY <2>4, <2>5, <2>6 DEF KLockInv
<1>4. CASE waiter = NULL
  <2>1. pc' = [pc EXCEPT ![t] = "out"] /\ UNCHANGED <<listVars, ready>>
    BY <1>4 DEF Unlock
  <2>2. pc' \in [Tasks -> Places] BY <2>1, <1>0 DEF TypeOK, Places
  <2>3. PcShape' BY <1>0, <1>2, <2>1 DEF TypeOK, PcShape, listVars
  <2>4. QED BY <1>0, <1>2, <2>1, <2>2, <2>3, ListKept DEF TypeOK
<1>5. QED BY <1>3, <1>4

\* lock_cancel_task.
LEMMA KillKeeps ==
  ASSUME KLockInv, NEW t \in Tasks, Kill(t)
  PROVE  KLockInv'
<1>0. TypeOK /\ PcShape BY DEF KLockInv
<1>1. PICK q \in Seq(Tasks) : Linked(q) BY DEF KLockInv
<1>2. WaiterRemove(t) BY DEF Kill, CancelTask
<1>3. /\ waiting_lock' = [waiting_lock EXCEPT ![t] = FALSE]
      /\ waiter' \in Tasks \cup {NULL} /\ waiter_tail' \in Tasks \cup {NULL}
      /\ lock_next' \in [Tasks -> Tasks \cup {NULL}]
      /\ lock_previous' \in [Tasks -> Tasks \cup {NULL}]
      /\ \A u \in Tasks : ~waiting_lock'[u] =>
           lock_next'[u] = NULL /\ lock_previous'[u] = NULL
      /\ \E r \in Seq(Tasks) : Linked(r)'
  BY <1>0, <1>1, <1>2, RemoveKeeps
<1>4. TypeOK' BY <1>0, <1>3 DEF Kill, TypeOK, Places
<1>5. PcShape' BY <1>0, <1>3 DEF Kill, TypeOK, PcShape
<1>6. QED BY <1>3, <1>4, <1>5 DEF KLockInv

\* Every step keeps the invariant.
LEMMA NextKeeps == KLockInv /\ [Next]_vars => KLockInv'
<1> SUFFICES ASSUME KLockInv, [Next]_vars PROVE KLockInv' OBVIOUS
<1>0. TypeOK /\ PcShape BY DEF KLockInv
<1>1. CASE UNCHANGED vars
  <2>1. PcShape' BY <1>0, <1>1 DEF PcShape, vars
  <2>2. QED BY <1>0, <1>1, <2>1, ListKept DEF vars, listVars, TypeOK
<1>2. ASSUME NEW t \in Tasks,
             Call(t) \/ Stray(t) \/ Resume(t) \/ Sleep(t) \/ Wake(t) \/ Respawn(t)
      PROVE  KLockInv'
  <2>1. UNCHANGED <<locked, owner, listVars>>
    BY <1>2 DEF Call, Stray, Resume, Sleep, Wake, Respawn
  <2>2. ready' \in [Tasks -> BOOLEAN] /\ pc' \in [Tasks -> Places]
    BY <1>0, <1>2 DEF Call, Stray, Woken, Resume, Sleep, Wake, Respawn, TypeOK, Places
  <2>3. PcShape'
    BY <1>0, <1>2, <2>1
    DEF Call, Stray, Woken, Resume, Sleep, Wake, Respawn, TypeOK, PcShape, listVars
  <2>4. QED BY <1>0, <2>1, <2>2, <2>3, ListKept DEF TypeOK
<1>3. QED
  BY <1>1, <1>2, AcquireKeeps, WaitKeeps, UnlockKeeps, KillKeeps DEF Next

LEMMA InitKeeps == Init => KLockInv /\ Waiters = <<>>
<1> SUFFICES ASSUME Init PROVE KLockInv /\ Waiters = <<>> OBVIOUS
<1>1. TypeOK BY DEF Init, TypeOK, Places
<1>2. PcShape BY DEF Init, PcShape
<1>3. <<>> \in Seq(Tasks) /\ Linked(<<>>) BY DEF Init, Linked
<1>4. QED BY <1>1, <1>2, <1>3, WaitersAre DEF KLockInv

-----------------------------------------------------------------------------
(* Theorems *)

\* The invariant holds in every behaviour of lock.c.
THEOREM KLockCorrect == Spec => []KLockInv
<1>1. QED BY InitKeeps, NextKeeps, PTL DEF Spec

\* The waiters' pointers always form a list, also when tasks are killed at any
\* of the places that Killable may name.
THEOREM ListWellFormed == Spec => []ListShape
<1>1. KLockInv => ListShape BY WaitersAre DEF KLockInv, ListShape
<1>2. QED BY <1>1, KLockCorrect, PTL

\* As long as no task is killed between its wake-up and its next run, nobody
\* sleeps on a free lock without another task on its way to take it.
THEOREM NobodyStranded ==
  ASSUME "runnable" \notin Killable
  PROVE  Spec => []NoStrandedWaiter
<1>1. Init => NoStrandedWaiter BY DEF Init, NoStrandedWaiter
<1>2. KLockInv /\ NoStrandedWaiter /\ [Next]_vars => NoStrandedWaiter'
  <2> SUFFICES ASSUME KLockInv, NoStrandedWaiter, [Next]_vars PROVE NoStrandedWaiter'
    OBVIOUS
  <2>0. TypeOK /\ PcShape BY DEF KLockInv
  <2>1. CASE UNCHANGED vars BY <2>1 DEF vars, NoStrandedWaiter
  <2>2. ASSUME NEW t \in Tasks, Acquire(t) \/ Wait(t) PROVE NoStrandedWaiter'
    BY <2>2 DEF Acquire, Wait, NoStrandedWaiter
  <2>3. ASSUME NEW t \in Tasks, Unlock(t) PROVE NoStrandedWaiter'
    <3> SUFFICES ASSUME NEW u \in Tasks, pc'[u] = "blocked"
                 PROVE  \E v \in Tasks : pc'[v] \in {"trying", "runnable"}
      BY DEF NoStrandedWaiter
    <3>1. PICK q \in Seq(Tasks) : Linked(q) BY DEF KLockInv
    <3>2. pc[u] = "blocked" /\ pc[t] = "critical" BY <2>0, <2>3 DEF Unlock, TypeOK
    <3>3. waiting_lock[u] BY <2>0, <3>2 DEF PcShape
    <3>4. q # <<>> BY <3>1, <3>3 DEF Linked
    <3>5. q[1] \in Tasks /\ 1 \in 1..Len(q) BY <3>4
    <3>6. waiter = q[1] /\ waiting_lock[waiter] BY <3>1, <3>4, <3>5 DEF Linked
    <3>7. pc[waiter] \in {"trying", "blocked", "runnable"} BY <2>0, <3>5, <3>6 DEF PcShape
    <3>8. pc'[waiter] \in {"trying", "runnable"}
      BY <2>0, <2>3, <3>2, <3>5, <3>6, <3>7, KLockConstants DEF Unlock, TypeOK
    <3>9. QED BY <3>5, <3>6, <3>8
  <2>4. ASSUME NEW t \in Tasks,
               Call(t) \/ Stray(t) \/ Resume(t) \/ Sleep(t) \/ Wake(t) \/ Respawn(t)
        PROVE  NoStrandedWaiter'
    BY <2>0, <2>4
    DEF Call, Stray, Woken, Resume, Sleep, Wake, Respawn, TypeOK, NoStrandedWaiter
  <2>5. ASSUME NEW t \in Tasks, Kill(t) PROVE NoStrandedWaiter'
    <3>1. pc[t] \in {"blocked", "asleep"} BY <2>5, KLockConstants DEF Kill
    <3>2. QED BY <2>0, <2>5, <3>1 DEF Kill, TypeOK, NoStrandedWaiter
  <2>6. QED BY <2>1, <2>2, <2>3, <2>4, <2>5 DEF Next
<1>3. QED BY <1>1, <1>2, KLockCorrect, PTL DEF Spec

\* The same after a step.
LEMMA WaitersAreNext ==
  (\A q \in Seq(Tasks) : TypeOK /\ Linked(q) => q \in Orders /\ Waiters = q)'
<1>1. QED BY WaitersAre, PTL

\* A step of lock.c is a step of the first-in first-out queue, or none.
LEMMA StepImplements ==
  KLockInv /\ [Next]_vars => [Queue!Next]_<<owner, Waiters>>
<1> SUFFICES ASSUME KLockInv, [Next]_vars PROVE [Queue!Next]_<<owner, Waiters>>
  OBVIOUS
<1>0. TypeOK /\ PcShape BY DEF KLockInv
<1>1. PICK q \in Seq(Tasks) : Linked(q) BY DEF KLockInv
<1>2. Waiters = q BY <1>0, <1>1, WaitersAre
<1>3. TypeOK' BY NextKeeps DEF KLockInv
<1>4. \A r \in Seq(Tasks) : Linked(r)' => Waiters' = r
  BY <1>3, WaitersAreNext
<1>5. UNCHANGED listVars => Waiters' = q
  <2>1. UNCHANGED listVars => Linked(q)' BY <1>1 DEF Linked, listVars
  <2>2. QED BY <1>4, <2>1
<1>6. \A t \in Tasks : Queue!In(t) <=> waiting_lock[t] BY <1>1, <1>2 DEF Queue!In, Linked
<1>7. CASE UNCHANGED vars BY <1>2, <1>5, <1>7 DEF vars, listVars
<1>8. ASSUME NEW t \in Tasks,
             Call(t) \/ Stray(t) \/ Resume(t) \/ Sleep(t) \/ Wake(t) \/ Respawn(t)
      PROVE  UNCHANGED <<owner, Waiters>>
  <2>1. UNCHANGED <<owner, listVars>>
    BY <1>8 DEF Call, Stray, Resume, Sleep, Wake, Respawn
  <2>2. QED BY <2>1, <1>2, <1>5
<1>9. ASSUME NEW t \in Tasks, WaiterRemove(t)
      PROVE  Queue!Leave(t) \/ (~Queue!In(t) /\ UNCHANGED Waiters)
  <2>1. \/ ~waiting_lock[t] /\ UNCHANGED listVars
        \/ \E k \in 1..Len(q) : q[k] = t /\ Queue!Removed(q, k) \in Seq(Tasks)
                                /\ Linked(Queue!Removed(q, k))'
    BY <1>0, <1>1, <1>9, RemoveKeeps
  <2>2. CASE ~waiting_lock[t] /\ UNCHANGED listVars BY <2>2, <1>2, <1>5, <1>6
  <2>3. ASSUME NEW k \in 1..Len(q), q[k] = t, Queue!Removed(q, k) \in Seq(Tasks),
               Linked(Queue!Removed(q, k))'
        PROVE  Queue!Leave(t)
    <3>1. Waiters' = Queue!Removed(q, k) BY <2>3, <1>4
    <3>2. QED BY <2>3, <3>1, <1>2 DEF Queue!Leave
  <2>4. QED BY <2>1, <2>2, <2>3
<1>10. ASSUME NEW t \in Tasks, Acquire(t) PROVE Queue!Next
  <2>1. WaiterRemove(t) /\ owner = NULL /\ owner' = t
    BY <1>0, <1>10 DEF Acquire, PcShape
  <2>2. Queue!Take(t) BY <1>9, <2>1 DEF Queue!Take
  <2>3. QED BY <2>2 DEF Queue!Next
<1>11. ASSUME NEW t \in Tasks, Wait(t) PROVE [Queue!Next]_<<owner, Waiters>>
  <2>1. WaiterAdd(t) /\ owner # NULL /\ UNCHANGED owner
    BY <1>0, <1>11 DEF Wait, PcShape
  <2>2. \/ UNCHANGED listVars
        \/ ~waiting_lock[t] /\ Append(q, t) \in Seq(Tasks) /\ Linked(Append(q, t))'
    BY <1>0, <1>1, <2>1, AddKeeps
  <2>3. CASE UNCHANGED listVars BY <2>1, <2>3, <1>2, <1>5
  <2>4. CASE ~waiting_lock[t] /\ Append(q, t) \in Seq(Tasks) /\ Linked(Append(q, t))'
    <3>1. Waiters' = Append(Waiters, t) BY <2>4, <1>2, <1>4
    <3>2. Queue!Join(t) BY <2>1, <2>4, <3>1, <1>6 DEF Queue!Join
    <3>3. QED BY <3>2 DEF Queue!Next
  <2>5. QED BY <2>2, <2>3, <2>4
<1>12. ASSUME NEW t \in Tasks, Unlock(t) PROVE Queue!Next
  <2>1. owner # NULL /\ owner' = NULL BY <1>12, KLockConstants DEF Unlock
  <2>2. Waiters' = IF Waiters = <<>> THEN Waiters ELSE Tail(Waiters)
    <3>1. CASE waiter = NULL
      <4>1. UNCHANGED listVars BY <3>1, <1>12 DEF Unlock
      <4>2. q = <<>>
        <5>1. q # <<>> => q[1] \in Tasks OBVIOUS
        <5>2. QED BY <3>1, <5>1, <1>1, KLockConstants DEF Linked
      <4>3. QED BY <4>1, <4>2, <1>2, <1>5
    <3>2. CASE waiter # NULL
      <4>1. WaiterRemove(waiter) BY <3>2, <1>12 DEF Unlock
      <4>2. q # <<>> /\ waiter = q[1] BY <3>2, <1>1 DEF Linked
      <4>3. 1 \in 1..Len(q) BY <4>2
      <4>4. Queue!Removed(q, 1) \in Seq(Tasks) /\ Linked(Queue!Removed(q, 1))'
        BY <4>1, <4>2, <4>3, <1>0, <1>1, RemoveLinked
      <4>5. Queue!Removed(q, 1) = Tail(q)
        <5>1. \A j \in 1..(Len(q) - 1) : Queue!Removed(q, 1)[j] = q[j + 1]
          BY <4>3, RemovedType
        <5>2. Len(Queue!Removed(q, 1)) = Len(q) - 1 BY <4>3, RemovedType
        <5>3. Tail(q) \in Seq(Tasks) /\ Len(Tail(q)) = Len(q) - 1
              /\ \A j \in 1..(Len(q) - 1) : Tail(q)[j] = q[j + 1]
          BY <4>2
        <5>4. QED BY <4>4, <5>1, <5>2, <5>3
      <4>6. QED BY <4>2, <4>4, <4>5, <1>2, <1>4
    <3>3. QED BY <3>1, <3>2
  <2>3. Queue!GiveUp BY <2>1, <2>2 DEF Queue!GiveUp
  <2>4. QED BY <2>3 DEF Queue!Next
<1>13. ASSUME NEW t \in Tasks, Kill(t) PROVE [Queue!Next]_<<owner, Waiters>>
  <2>1. WaiterRemove(t) /\ UNCHANGED owner BY <1>13 DEF Kill, CancelTask
  <2>2. Queue!Leave(t) => Queue!Cancel(t) BY <2>1 DEF Queue!Cancel
  <2>3. QED BY <1>9, <2>1, <2>2 DEF Queue!Next
<1>14. QED BY <1>7, <1>8, <1>10, <1>11, <1>12, <1>13 DEF Next

\* lock.c implements the first-in first-out lock, for any number of tasks.
THEOREM LockIsQueue == Spec => ImplementsWaitQueue
<1>1. Init => Queue!Init BY InitKeeps DEF Init, Queue!Init
<1>2. QED
  BY <1>1, StepImplements, KLockCorrect, PTL DEF Spec, ImplementsWaitQueue, Queue!Spec
=============================================================================
