-------------------------------- MODULE Ipc --------------------------------
(***************************************************************************)
(* Message queues and synchronous kernel RPC of dos/task/ipc.c: bounded    *)
(* queues, receivers and senders that sleep with a deadline, calls whose   *)
(* reply goes straight to the caller's record, tasks that die with unread  *)
(* messages and open calls, and slots that are used again.                 *)
(*                                                                         *)
(* A round of a loop runs under the kernel lock and is one step; between   *)
(* rounds the task sleeps.  A deadline is the number of ticks left.  What  *)
(* returns without an effect (IPC_NOWAIT, a buffer that is too small, no   *)
(* memory) is no step.                                                     *)
(***************************************************************************)
EXTENDS Integers, Sequences, FiniteSets

CONSTANTS
  Tasks,     \* task slots
  MaxGen,    \* bound: times that a slot is used
  Capacity,  \* MAX_IPC_MESSAGE
  MaxCalls,  \* bound: kernel RPC calls
  Ticks,     \* timeouts of sends and receives, in ticks
  CallTicks, \* timeouts of calls
  Any        \* IPC_ANY_TID

ASSUME IpcAssumption ==
  /\ MaxGen \in Nat \ {0} /\ Capacity \in Nat \ {0} /\ MaxCalls \in Nat
  /\ Ticks \subseteq Nat \cup {-1} /\ CallTicks \subseteq Nat \ {0} /\ 0 \notin Ticks
  /\ Any \notin Tasks

Never == -1 \* no deadline

VARIABLES
  alive,  \* the slot has a task that is not DIED
  gen,    \* its generation
  inbox,  \* used messages in the order of their seq
  op,     \* the call that the task is in
  asleep, \* WAITING with WAIT_REASON_IPC
  rpc,    \* ipc_header.rpc, which points to the stack of the caller
  next,   \* rpc_next_id
  got     \* history: the requests that an incarnation of a task received

vars == <<alive, gen, inbox, op, asleep, rpc, next, got>>

Gens == 1..MaxGen
Ids == 1..MaxCalls

\* id 0 is an ordinary message, another one a request.
Messages == [from : Tasks, gen : Gens, id : Ids \cup {0}]

\* peer and pgen are the target of a send and the filter of a receive.
Operations == [kind : {"idle", "recv", "send", "call", "await"}, peer : Tasks \cup {Any},
               pgen : Gens \cup {0}, left : Nat \cup {Never}]
Idle == [kind |-> "idle", peer |-> Any, pgen |-> 0, left |-> Never]

Calls == [server : Tasks, sgen : Gens, id : Ids,
          status : {"timeout", "ok", "no service"}, completed : BOOLEAN]
NoCall == [id |-> 0]

TypeOK ==
  /\ alive \in [Tasks -> BOOLEAN]
  /\ gen \in [Tasks -> Gens]
  /\ inbox \in [Tasks -> Seq(Messages)]
  /\ op \in [Tasks -> Operations]
  /\ asleep \in [Tasks -> BOOLEAN]
  /\ rpc \in [Tasks -> Calls \cup {NoCall}]
  /\ next \in 1..(MaxCalls + 1)
  /\ got \subseteq Tasks \X Gens \X Ids

-----------------------------------------------------------------------------
(* Waking *)

Running(t) == alive[t] /\ ~asleep[t]

\* ipc_wake_senders: those for whom the queue of to was full.
Senders(to) == {t \in Tasks : op[t].kind \in {"send", "call"} /\ op[t].peer = to}

\* Mutant: a caller that waits for a reply is not taken for a receiver.
Receiver_RecvOnly(t) == IF op[t].kind = "recv" THEN {t} ELSE {}

\* ipc_wake_receiver: a task that waits for a message or a reply.
Receiver(t) == IF op[t].kind \in {"recv", "await"} THEN {t} ELSE {}

Wake(S) == asleep' = [t \in Tasks |-> asleep[t] /\ t \notin S]

-----------------------------------------------------------------------------
(* Sending: one round of ipc_send for the operation o of t *)

Gone(o) == ~alive[o.peer] \/ (o.pgen # 0 /\ gen[o.peer] # o.pgen)
Full(to) == Len(inbox[to]) >= Capacity

\* The request of a call is followed by the wait for its reply.
Sent(o) == IF o.kind = "call" THEN [o EXCEPT !.kind = "await"] ELSE Idle

Deliver(t, o, calls) ==
  /\ ~Gone(o) /\ ~Full(o.peer)
  /\ inbox' = [inbox EXCEPT ![o.peer] =
                 Append(@, [from |-> t, gen |-> gen[t], id |-> calls[t].id])]
  /\ op' = [op EXCEPT ![t] = Sent(o)]
  /\ Wake(Receiver(o.peer))
  /\ rpc' = calls

\* Mutant: a request that cannot be sent leaves the call open.
SendFails_KeepsCall(t, o, calls) ==
  /\ Gone(o) \/ (Full(o.peer) /\ o.left = 0)
  /\ op' = [op EXCEPT ![t] = Idle]
  /\ rpc' = calls
  /\ UNCHANGED <<inbox, asleep>>

\* IPC_ERR_NOTASK, IPC_ERR_TIMEOUT
SendFails(t, o, calls) ==
  /\ Gone(o) \/ (Full(o.peer) /\ o.left = 0)
  /\ op' = [op EXCEPT ![t] = Idle]
  /\ rpc' = [calls EXCEPT ![t] = NoCall]
  /\ UNCHANGED <<inbox, asleep>>

\* ipc_wait
SendWaits(t, o, calls) ==
  /\ ~Gone(o) /\ Full(o.peer) /\ o.left # 0
  /\ op' = [op EXCEPT ![t] = o]
  /\ asleep' = [asleep EXCEPT ![t] = TRUE]
  /\ rpc' = calls
  /\ UNCHANGED inbox

SendRound(t, o, calls) ==
  /\ Deliver(t, o, calls) \/ SendFails(t, o, calls) \/ SendWaits(t, o, calls)
  /\ UNCHANGED <<alive, gen, got>>

\* ipc_send; g = 0 takes whoever has the slot.
Send(t, to, g, ticks) ==
  /\ Running(t) /\ op[t] = Idle
  /\ SendRound(t, [kind |-> "send", peer |-> to, pgen |-> g, left |-> ticks], rpc)
  /\ UNCHANGED next

\* rpc_call up to its request.
Call(t, s, g, ticks) ==
  /\ Running(t) /\ op[t] = Idle /\ s # t /\ rpc[t] = NoCall
  /\ next <= MaxCalls
  /\ next' = next + 1
  /\ SendRound(t, [kind |-> "call", peer |-> s, pgen |-> g, left |-> ticks],
       [rpc EXCEPT ![t] = [server |-> s, sgen |-> g, id |-> next,
                           status |-> "timeout", completed |-> FALSE]])

ResumeSend(t) ==
  /\ Running(t) /\ op[t].kind \in {"send", "call"}
  /\ SendRound(t, op[t], rpc)
  /\ UNCHANGED next

\* Mutant: the deadline is left to ipc_tick.
Await_NoDeadline(t) ==
  /\ Running(t) /\ op[t].kind = "await"
  /\ IF rpc[t].completed
     THEN /\ op' = [op EXCEPT ![t] = Idle]
          /\ rpc' = [rpc EXCEPT ![t] = NoCall]
          /\ UNCHANGED asleep
     ELSE /\ asleep' = [asleep EXCEPT ![t] = TRUE]
          /\ UNCHANGED <<op, rpc>>
  /\ UNCHANGED <<alive, gen, inbox, next, got>>

\* The wait of rpc_call.
Await(t) ==
  /\ Running(t) /\ op[t].kind = "await"
  /\ IF rpc[t].completed \/ op[t].left = 0
     THEN /\ op' = [op EXCEPT ![t] = Idle]
          /\ rpc' = [rpc EXCEPT ![t] = NoCall]
          /\ UNCHANGED asleep
     ELSE /\ asleep' = [asleep EXCEPT ![t] = TRUE]
          /\ UNCHANGED <<op, rpc>>
  /\ UNCHANGED <<alive, gen, inbox, next, got>>

-----------------------------------------------------------------------------
(* Receiving: one round of ipc_recv *)

Matching(t, o) == {i \in DOMAIN inbox[t] : o.peer \in {Any, inbox[t][i].from}}
Oldest(t, o) == CHOOSE i \in Matching(t, o) : \A j \in Matching(t, o) : i <= j
Without(q, i) == SubSeq(q, 1, i - 1) \o SubSeq(q, i + 1, Len(q))

Take(t, o) ==
  LET i == Oldest(t, o) IN
  /\ Matching(t, o) # {}
  /\ inbox' = [inbox EXCEPT ![t] = Without(@, i)]
  /\ got' = IF inbox[t][i].id = 0 THEN got
            ELSE got \cup {<<t, gen[t], inbox[t][i].id>>}
  /\ op' = [op EXCEPT ![t] = Idle]
  /\ Wake(Senders(t))

RecvTimeout(t, o) ==
  /\ Matching(t, o) = {} /\ o.left = 0
  /\ op' = [op EXCEPT ![t] = Idle]
  /\ UNCHANGED <<inbox, got, asleep>>

RecvWaits(t, o) ==
  /\ Matching(t, o) = {} /\ o.left # 0
  /\ op' = [op EXCEPT ![t] = o]
  /\ asleep' = [asleep EXCEPT ![t] = TRUE]
  /\ UNCHANGED <<inbox, got>>

RecvRound(t, o) ==
  /\ Take(t, o) \/ RecvTimeout(t, o) \/ RecvWaits(t, o)
  /\ UNCHANGED <<alive, gen, rpc, next>>

Recv(t, filter, ticks) ==
  /\ Running(t) /\ op[t] = Idle
  /\ RecvRound(t, [kind |-> "recv", peer |-> filter, pgen |-> 0, left |-> ticks])

ResumeRecv(t) ==
  /\ Running(t) /\ op[t].kind = "recv"
  /\ RecvRound(t, op[t])

-----------------------------------------------------------------------------
(* Replies and failures *)

\* Mutant: the id of a reply is not compared.
Answered_AnyId(t, c, id) ==
  LET call == rpc[c] IN
  IF call # NoCall /\ ~call.completed /\ call.server = t /\ call.sgen = gen[t]
  THEN [call EXCEPT !.completed = TRUE, !.status = IF op[c].left = 0 THEN @ ELSE "ok"]
  ELSE call

\* What a call becomes when the reply to id arrives; a late one is dropped.
Answered(t, c, id) ==
  LET call == rpc[c] IN
  IF /\ call # NoCall /\ ~call.completed /\ call.id = id
     /\ call.server = t /\ call.sgen = gen[t]
  THEN [call EXCEPT !.completed = TRUE, !.status = IF op[c].left = 0 THEN @ ELSE "ok"]
  ELSE call

\* ipc_send of a reply to a kernel call: to the caller's record, not its inbox.
\* The generation that the reply names is the server's to choose; a wrong one
\* only drops the reply, which a server can do as well by never sending it.
Reply(t, c, id) ==
  /\ Running(t) /\ op[t] = Idle
  /\ alive[c] /\ <<t, gen[t], id>> \in got
  /\ rpc' = [rpc EXCEPT ![c] = Answered(t, c, id)]
  /\ Wake(IF rpc'[c] = rpc[c] THEN {} ELSE Receiver(c))
  /\ UNCHANGED <<alive, gen, inbox, op, next, got>>

Orphaned(t) == {c \in Tasks : /\ rpc[c] # NoCall
                              /\ rpc[c].server = t /\ rpc[c].sgen = gen[t]}

\* The task ends, also in the middle of a call: ipc_task_cleanup.
Die(t) ==
  /\ alive[t]
  /\ alive' = [alive EXCEPT ![t] = FALSE]
  /\ inbox' = [inbox EXCEPT ![t] = <<>>]
  /\ op' = [op EXCEPT ![t] = Idle]
  /\ rpc' = [c \in Tasks |->
               IF c = t THEN NoCall
               ELSE IF c \in Orphaned(t)
               THEN [rpc[c] EXCEPT !.completed = TRUE, !.status = "no service"]
               ELSE rpc[c]]
  /\ Wake({t} \cup Senders(t) \cup UNION {Receiver(c) : c \in Orphaned(t)})
  /\ UNCHANGED <<gen, next, got>>

\* ipc_task_init: a new task in the slot.
Create(t) ==
  /\ ~alive[t] /\ gen[t] < MaxGen
  /\ alive' = [alive EXCEPT ![t] = TRUE]
  /\ gen' = [gen EXCEPT ![t] = @ + 1]
  /\ UNCHANGED <<inbox, op, asleep, rpc, next, got>>

\* A signal runs a sleeping task, which looks again.
Stray(t) ==
  /\ alive[t] /\ asleep[t]
  /\ Wake({t})
  /\ UNCHANGED <<alive, gen, inbox, op, rpc, next, got>>

\* timerctl.count advances; ipc_tick
Tick ==
  LET Later(n) == IF n > 0 THEN n - 1 ELSE n IN
  /\ \E t \in Tasks : op[t].left > 0
  /\ op' = [t \in Tasks |-> [op[t] EXCEPT !.left = Later(@)]]
  /\ Wake({t \in Tasks : op[t].left \in {0, 1}})
  /\ UNCHANGED <<alive, gen, inbox, rpc, next, got>>

-----------------------------------------------------------------------------
Init ==
  /\ alive = [t \in Tasks |-> TRUE]
  /\ gen = [t \in Tasks |-> 1]
  /\ inbox = [t \in Tasks |-> <<>>]
  /\ op = [t \in Tasks |-> Idle]
  /\ asleep = [t \in Tasks |-> FALSE]
  /\ rpc = [t \in Tasks |-> NoCall]
  /\ next = 1
  /\ got = {}

Round(t) == ResumeSend(t) \/ ResumeRecv(t) \/ Await(t)

Next ==
  \/ \E t \in Tasks :
       \/ \E to \in Tasks, ticks \in Ticks :
            \/ \E g \in {0} \cup 1..gen[to] : Send(t, to, g, ticks)
            \/ Recv(t, to, ticks)
       \/ \E ticks \in Ticks : Recv(t, Any, ticks)
       \/ \E s \in Tasks, ticks \in CallTicks : \E g \in 1..gen[s] : Call(t, s, g, ticks)
       \/ \E c \in Tasks, id \in Ids : Reply(t, c, id)
       \/ Round(t) \/ Die(t) \/ Create(t) \/ Stray(t)
  \/ Tick

Spec == Init /\ [][Next]_vars

\* The clock goes on, and a task that can run is scheduled.
FairSpec == Spec /\ WF_vars(Tick) /\ \A t \in Tasks : WF_vars(Round(t))

-----------------------------------------------------------------------------
(* Properties *)

\* What task t waits for has not happened yet.
HasCause(t) ==
  /\ op[t].left # 0 /\ op[t].kind # "idle"
  /\ op[t].kind = "recv" => Matching(t, op[t]) = {}
  /\ op[t].kind \in {"send", "call"} => ~Gone(op[t]) /\ Full(op[t].peer)
  /\ op[t].kind = "await" =>
       /\ ~rpc[t].completed
       /\ alive[rpc[t].server] /\ gen[rpc[t].server] = rpc[t].sgen

\* Nobody sleeps for what has already happened: a receiver has no message
\* that it asked for, a sender's target lives, is the one it meant and is
\* full, a caller's server lives and has not answered, and no deadline of a
\* sleeper has passed (ipc_wake_senders, ipc_wake_receiver, ipc_tick,
\* ipc_task_cleanup).
BlockedForCause == \A t \in Tasks : asleep[t] => HasCause(t)

\* The record that a server writes its reply to is on the stack of a living
\* task that is still inside rpc_call, whoever is killed in between.
RecordOnStack ==
  \A t \in Tasks : rpc[t] # NoCall => alive[t] /\ op[t].kind \in {"call", "await"}

\* A call that succeeds was answered by the server that it was made to, for
\* the request of this call: late replies to an earlier call, and tasks that
\* came into the slot of the server or of the caller, are not mistaken.
AnswerIsForCall ==
  \A t \in Tasks :
    rpc[t] # NoCall /\ rpc[t].status = "ok"
    => <<rpc[t].server, rpc[t].sgen, rpc[t].id>> \in got

\* A call returns, whatever its server does.
CallReturns == \A t \in Tasks : []<>(rpc[t] = NoCall)
=============================================================================
