------------------------------ MODULE MCKLock ------------------------------
(* KLock for up to four tasks; the runs differ in where a task may be killed. *)
EXTENDS KLock

CONSTANTS t1, t2, t3, t4

=============================================================================
