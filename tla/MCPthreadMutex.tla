--------------------------- MODULE MCPthreadMutex ---------------------------
(* Small instances of PthreadMutex. *)
EXTENDS PthreadMutex

=============================================================================
