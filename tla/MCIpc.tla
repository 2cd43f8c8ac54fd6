------------------------------- MODULE MCIpc -------------------------------
(***************************************************************************)
(* Ipc on two tasks that send, receive, call each other and die.           *)
(***************************************************************************)
EXTENDS Ipc

CONSTANTS a, b
=============================================================================
