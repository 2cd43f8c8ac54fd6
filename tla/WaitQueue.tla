----------------------------- MODULE WaitQueue -----------------------------
(***************************************************************************)
(* What lock_t promises: one holder at a time, and a first-in first-out    *)
(* queue in which every contender has its own place.  A release passes the *)
(* turn to the head of the queue; a contender leaves the queue only by     *)
(* that, by taking the lock, or by being cancelled.                        *)
(***************************************************************************)
EXTENDS Naturals, Sequences

CONSTANTS Tasks, Nobody

VARIABLES holder, queue

Init == holder = Nobody /\ queue = <<>>

In(t) == \E i \in 1..Len(queue) : queue[i] = t

\* q without its element i; the others keep their order.
Removed(q, i) == [j \in 1..(Len(q) - 1) |-> IF j < i THEN q[j] ELSE q[j + 1]]

Leave(t) == \E i \in 1..Len(queue) : queue[i] = t /\ queue' = Removed(queue, i)

Take(t) ==
  /\ holder = Nobody /\ holder' = t
  /\ Leave(t) \/ (~In(t) /\ UNCHANGED queue)
Join(t) == holder # Nobody /\ ~In(t) /\ queue' = Append(queue, t) /\ UNCHANGED holder
Cancel(t) == Leave(t) /\ UNCHANGED holder
GiveUp ==
  /\ holder # Nobody /\ holder' = Nobody
  /\ queue' = IF queue = <<>> THEN queue ELSE Tail(queue)

Next == GiveUp \/ \E t \in Tasks : Take(t) \/ Join(t) \/ Cancel(t)
Spec == Init /\ [][Next]_<<holder, queue>>
=============================================================================
