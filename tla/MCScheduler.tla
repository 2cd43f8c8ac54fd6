---------------------------- MODULE MCScheduler ----------------------------
(***************************************************************************)
(* Scheduler on two processors: three tasks, two of them of one address    *)
(* space, or a process and one other task.                                 *)
(***************************************************************************)
EXTENDS Scheduler, TLC

CONSTANTS a, b, d, s1, s2

SpaceAB == (a :> s1) @@ (b :> s1) @@ (d :> s2)
SpaceOf2 == (a :> s1) @@ (b :> s2)

\* Weights, pinning and interrupts inside system calls are explored before the
\* third task is published: the steps are the same ones, among fewer tasks.
Extras == nest \/ \E t \in Tasks : weight[t] # 0 \/ (pinned[t] /\ t \notin Leaders)
Unused(t) == st[t] = "ALLOCATING" /\ weight[t] = 0
OneApart == Extras => Unused(b) \/ Unused(d)
=============================================================================
