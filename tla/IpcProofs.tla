----------------------------- MODULE IpcProofs -----------------------------
(***************************************************************************)
(* Proofs about Ipc: for any number of tasks, slots used any number of     *)
(* times, queues of any capacity and any timeouts, nobody sleeps for what  *)
(* has happened, replies go to records that are on a stack, and a call is  *)
(* completed by its own reply only.                                        *)
(***************************************************************************)
EXTENDS Ipc, WellFoundedInduction, TLAPS

\* A call in progress has a record of the server that the caller named.
CallShape ==
  \A t \in Tasks : op[t].kind \in {"call", "await"} =>
    /\ op[t].peer \in Tasks
    /\ rpc[t] \in Calls /\ rpc[t].server = op[t].peer /\ rpc[t].sgen = op[t].pgen

\* A send names a slot.
SendShape == \A t \in Tasks : op[t].kind = "send" => op[t].peer \in Tasks

\* An open call that was sent has a living server.
ServerLives ==
  \A t \in Tasks : op[t].kind = "await" /\ ~rpc[t].completed =>
    alive[rpc[t].server] /\ gen[rpc[t].server] = rpc[t].sgen

\* The inductive invariant.
IpcInv ==
  /\ TypeOK /\ CallShape /\ SendShape /\ ServerLives
  /\ BlockedForCause /\ RecordOnStack /\ AnswerIsForCall

\* The empty record is no call, and Idle is an operation.
LEMMA Records ==
  /\ NoCall \notin Calls
  /\ NoCall.id = 0
  /\ Idle \in Operations /\ Idle.kind = "idle" /\ Idle.peer = Any /\ Idle.left = -1
<1>1. \A c \in Calls : c.id \in Ids BY DEF Calls
<1>2. 0 \notin Ids BY DEF Ids
<1>3. NoCall.id = 0 BY DEF NoCall
<1>4. Idle \in Operations BY DEF Idle, Operations, Never
<1>5. Idle.kind = "idle" /\ Idle.peer = Any /\ Idle.left = -1 BY DEF Idle, Never
<1>6. QED BY <1>1, <1>2, <1>3, <1>4, <1>5

\* A set of naturals has a least element.
LEMMA LeastNat ==
  ASSUME NEW S \in SUBSET Nat, S # {}
  PROVE  \E i \in S : \A j \in S : i <= j
<1>1. PICK i \in S : \A j \in S : ~(<<j, i>> \in OpToRel(<, Nat))
  BY NatLessThanWellFounded, WFMin, Zenon
<1>2. \A j \in S : ~(j < i) BY <1>1 DEF OpToRel
<1>3. QED BY <1>2

\* ipc_find_oldest returns a message that is in the queue.
LEMMA OldestMatches ==
  ASSUME NEW t \in Tasks, NEW o, inbox[t] \in Seq(Messages), Matching(t, o) # {}
  PROVE  Oldest(t, o) \in DOMAIN inbox[t]
<1>1. Matching(t, o) \in SUBSET Nat BY DEF Matching
<1>2. \E i \in Matching(t, o) : \A j \in Matching(t, o) : i <= j
  BY <1>1, LeastNat
<1>3. Oldest(t, o) \in Matching(t, o) BY <1>2 DEF Oldest
<1>4. QED BY <1>3 DEF Matching

\* A queue without one of its messages is a queue.
LEMMA WithoutType ==
  ASSUME NEW q \in Seq(Messages), NEW i \in DOMAIN q
  PROVE  Without(q, i) \in Seq(Messages)
<1>1. SubSeq(q, 1, i - 1) \in Seq(Messages) OBVIOUS
<1>2. SubSeq(q, i + 1, Len(q)) \in Seq(Messages) OBVIOUS
<1>3. QED BY <1>1, <1>2 DEF Without

\* One round of ipc_send, for a send or for the request of a call.
LEMMA SendRoundKeeps ==
  ASSUME IpcInv, NEW t \in Tasks, NEW o \in Operations, NEW calls,
         Running(t), o.kind \in {"send", "call"}, o.peer \in Tasks,
         calls \in [Tasks -> Calls \cup {NoCall}],
         \A u \in Tasks \ {t} : calls[u] = rpc[u],
         o.kind = "send" => calls[t] = NoCall,
         o.kind = "call" =>
           /\ calls[t] \in Calls /\ calls[t].server = o.peer /\ calls[t].sgen = o.pgen
           /\ calls[t].status = "ok" =>
                <<calls[t].server, calls[t].sgen, calls[t].id>> \in got,
         SendRound(t, o, calls), next' \in 1..(MaxCalls + 1)
  PROVE  IpcInv'
<1> USE Records
<1>0. /\ TypeOK /\ CallShape /\ SendShape /\ ServerLives
      /\ BlockedForCause /\ RecordOnStack /\ AnswerIsForCall
  BY DEF IpcInv
<1>1. UNCHANGED <<alive, gen, got>> /\ alive[t] /\ ~asleep[t]
  BY DEF SendRound, Running
<1>2. CASE Deliver(t, o, calls)
  <2>1. rpc' = calls /\ alive[o.peer] /\ (o.pgen # 0 => gen[o.peer] = o.pgen)
        /\ ~Full(o.peer)
    BY <1>2 DEF Deliver, Gone
  <2>2. Sent(o) \in Operations /\ Sent(o).peer \in {o.peer, Any}
        /\ (o.kind = "send" => Sent(o).kind = "idle")
        /\ (o.kind = "call" => /\ Sent(o).kind = "await" /\ Sent(o).peer = o.peer
                               /\ Sent(o).pgen = o.pgen)
    BY DEF Sent, Operations
  <2>3. op' = [op EXCEPT ![t] = Sent(o)] BY <1>2 DEF Deliver
  <2>4. op'[t] = Sent(o) /\ \A u \in Tasks \ {t} : op'[u] = op[u]
    BY <2>3, <1>0 DEF TypeOK
  <2>5. [from |-> t, gen |-> gen[t], id |-> calls[t].id] \in Messages
    BY <1>0 DEF TypeOK, Messages, Calls
  <2>6. /\ inbox' \in [Tasks -> Seq(Messages)]
        /\ \A u \in Tasks \ {o.peer} : inbox'[u] = inbox[u]
    BY <1>2, <2>5, <1>0 DEF Deliver, TypeOK
  <2>7. asleep' \in [Tasks -> BOOLEAN]
        /\ \A u \in Tasks : asleep'[u] => asleep[u] /\ u \notin Receiver(o.peer)
    BY <1>2, <1>0 DEF Deliver, Wake, TypeOK
  <2>8. TypeOK' BY <1>0, <1>1, <2>1, <2>2, <2>3, <2>6, <2>7 DEF TypeOK
  <2>9. CallShape' /\ SendShape' BY <1>0, <2>1, <2>2, <2>4 DEF CallShape, SendShape
  <2>10. ServerLives'
    <3>1. o.kind = "call" => calls[t].sgen # 0 
      <4>1. 0 \notin Gens BY DEF Gens
      <4>2. QED BY <4>1 DEF Calls
    <3>2. QED BY <1>0, <1>1, <2>1, <2>2, <2>4, <3>1 DEF ServerLives
  <2>11. BlockedForCause'
    <3> SUFFICES ASSUME NEW u \in Tasks, asleep'[u] PROVE HasCause(u)'
      BY DEF BlockedForCause
    <3>1. u # t /\ asleep[u] /\ HasCause(u) /\ op'[u] = op[u] /\ rpc'[u] = rpc[u]
      BY <1>0, <1>1, <2>1, <2>4, <2>7 DEF BlockedForCause
    <3>2. op[u].kind = "recv" => u # o.peer BY <2>7 DEF Receiver
    <3>3. op[u].kind \in {"send", "call"} => op[u].peer # o.peer
      BY <3>1, <2>1 DEF HasCause
    <3>4. op[u].kind \in {"send", "call"} => op[u].peer \in Tasks
      BY <1>0 DEF CallShape, SendShape
    <3>5. op[u].kind = "recv" => inbox'[u] = inbox[u] BY <3>2, <2>6
    <3>6. op[u].kind \in {"send", "call"} => inbox'[op[u].peer] = inbox[op[u].peer]
      BY <3>3, <3>4, <2>6
    <3>7. QED BY <3>1, <3>5, <3>6, <1>1 DEF HasCause, Matching, Gone, Full
  <2>12. RecordOnStack' BY <1>0, <1>1, <2>1, <2>2, <2>4 DEF RecordOnStack
  <2>13. AnswerIsForCall' BY <1>0, <1>1, <2>1 DEF AnswerIsForCall
  <2>14. QED BY <2>8, <2>9, <2>10, <2>11, <2>12, <2>13 DEF IpcInv
<1>3. CASE SendFails(t, o, calls)
  <2>1. /\ rpc' = [calls EXCEPT ![t] = NoCall] /\ op' = [op EXCEPT ![t] = Idle]
        /\ UNCHANGED <<inbox, asleep>>
    BY <1>3 DEF SendFails
  <2>2. /\ rpc'[t] = NoCall /\ op'[t] = Idle
        /\ \A u \in Tasks \ {t} : rpc'[u] = rpc[u] /\ op'[u] = op[u]
    BY <2>1, <1>0 DEF TypeOK
  <2>3. TypeOK' BY <1>0, <1>1, <2>1 DEF TypeOK
  <2>4. CallShape' /\ SendShape' /\ ServerLives'
    BY <1>0, <1>1, <2>2 DEF CallShape, SendShape, ServerLives
  <2>5. BlockedForCause'
    BY <1>0, <1>1, <2>1, <2>2 DEF BlockedForCause, HasCause, Matching, Gone, Full
  <2>6. RecordOnStack' /\ AnswerIsForCall'
    BY <1>0, <1>1, <2>2 DEF RecordOnStack, AnswerIsForCall
  <2>7. QED BY <2>3, <2>4, <2>5, <2>6 DEF IpcInv
<1>4. CASE SendWaits(t, o, calls)
  <2>1. /\ rpc' = calls /\ op' = [op EXCEPT ![t] = o] /\ UNCHANGED inbox
        /\ asleep' = [asleep EXCEPT ![t] = TRUE]
        /\ ~Gone(o) /\ Full(o.peer) /\ o.left # 0
    BY <1>4 DEF SendWaits
  <2>2. /\ op'[t] = o
        /\ \A u \in Tasks \ {t} : /\ rpc'[u] = rpc[u] /\ op'[u] = op[u]
                                  /\ asleep'[u] = asleep[u]
    BY <2>1, <1>0 DEF TypeOK
  <2>3. TypeOK' BY <1>0, <1>1, <2>1 DEF TypeOK
  <2>4. CallShape' /\ SendShape' /\ ServerLives'
    BY <1>0, <1>1, <2>1, <2>2 DEF CallShape, SendShape, ServerLives
  <2>5. BlockedForCause'
    <3> SUFFICES ASSUME NEW u \in Tasks, asleep'[u] PROVE HasCause(u)'
      BY DEF BlockedForCause
    <3>1. CASE u = t BY <3>1, <1>1, <2>1, <2>2 DEF HasCause, Gone, Full
    <3>2. CASE u # t
      BY <3>2, <1>0, <1>1, <2>1, <2>2
      DEF BlockedForCause, HasCause, Matching, Gone, Full
    <3>3. QED BY <3>1, <3>2
  <2>6. RecordOnStack' BY <1>0, <1>1, <2>1, <2>2 DEF RecordOnStack
  <2>7. AnswerIsForCall' BY <1>0, <1>1, <2>1, <2>2 DEF AnswerIsForCall
  <2>8. QED BY <2>3, <2>4, <2>5, <2>6, <2>7 DEF IpcInv
<1>5. QED BY <1>2, <1>3, <1>4 DEF SendRound

\* ipc_send, its resumption, and rpc_call up to its request.
LEMMA SendKeeps ==
  ASSUME IpcInv, NEW t \in Tasks, NEW to \in Tasks, NEW g \in Gens \cup {0},
         NEW ticks \in Ticks, Send(t, to, g, ticks)
  PROVE  IpcInv'
<1> DEFINE o == [kind |-> "send", peer |-> to, pgen |-> g, left |-> ticks]
<1>1. o \in Operations BY IpcAssumption DEF Operations, Never
<1>2. Running(t) /\ op[t].kind = "idle" /\ SendRound(t, o, rpc) /\ next' = next
  BY Records DEF Send
<1>3. TypeOK /\ RecordOnStack BY DEF IpcInv
<1>4. rpc[t] = NoCall BY <1>2, <1>3 DEF RecordOnStack
<1>5. rpc \in [Tasks -> Calls \cup {NoCall}] /\ next' \in 1..(MaxCalls + 1)
  BY <1>2, <1>3 DEF TypeOK
<1>6. o.kind = "send" /\ o.peer \in Tasks OBVIOUS
<1> HIDE DEF o
<1>7. QED BY <1>1, <1>2, <1>4, <1>5, <1>6, SendRoundKeeps

LEMMA CallKeeps ==
  ASSUME IpcInv, NEW t \in Tasks, NEW s \in Tasks, NEW g \in Gens,
         NEW ticks \in CallTicks, Call(t, s, g, ticks)
  PROVE  IpcInv'
<1> DEFINE o == [kind |-> "call", peer |-> s, pgen |-> g, left |-> ticks]
           call == [server |-> s, sgen |-> g, id |-> next,
                    status |-> "timeout", completed |-> FALSE]
           calls == [rpc EXCEPT ![t] = call]
<1>1. o \in Operations /\ o.kind = "call" /\ o.peer = s /\ o.pgen = g
  BY IpcAssumption DEF Operations, Never
<1>2. Running(t) /\ SendRound(t, o, calls) /\ next <= MaxCalls /\ next' = next + 1
  BY DEF Call
<1>3. TypeOK BY DEF IpcInv
<1>4. next \in Ids /\ next' \in 1..(MaxCalls + 1)
  BY <1>2, <1>3, IpcAssumption DEF TypeOK, Ids
<1>5. call \in Calls /\ call.server = s /\ call.sgen = g /\ call.status # "ok"
  BY <1>4 DEF Calls
<1> HIDE DEF o, call
<1>6. /\ calls \in [Tasks -> Calls \cup {NoCall}] /\ calls[t] = call
      /\ \A u \in Tasks \ {t} : calls[u] = rpc[u]
  BY <1>3, <1>5 DEF TypeOK
<1> HIDE DEF calls
<1>7. QED BY <1>1, <1>2, <1>4, <1>5, <1>6, SendRoundKeeps

LEMMA ResumeSendKeeps ==
  ASSUME IpcInv, NEW t \in Tasks, ResumeSend(t)
  PROVE  IpcInv'
<1>1. /\ Running(t) /\ op[t].kind \in {"send", "call"} /\ SendRound(t, op[t], rpc)
      /\ next' = next
  BY DEF ResumeSend
<1>2. TypeOK /\ CallShape /\ SendShape /\ RecordOnStack /\ AnswerIsForCall
  BY DEF IpcInv
<1>3. /\ op[t] \in Operations /\ rpc \in [Tasks -> Calls \cup {NoCall}]
      /\ next' \in 1..(MaxCalls + 1)
  BY <1>1, <1>2 DEF TypeOK
<1>4. op[t].peer \in Tasks BY <1>1, <1>2 DEF CallShape, SendShape
<1>5. op[t].kind = "send" => rpc[t] = NoCall BY <1>2 DEF RecordOnStack
<1>6. op[t].kind = "call" =>
        /\ rpc[t] \in Calls /\ rpc[t].server = op[t].peer /\ rpc[t].sgen = op[t].pgen
        /\ rpc[t].status = "ok" => <<rpc[t].server, rpc[t].sgen, rpc[t].id>> \in got
  BY <1>2, Records DEF CallShape, AnswerIsForCall
<1>7. QED BY <1>1, <1>3, <1>4, <1>5, <1>6, SendRoundKeeps

\* The wait of rpc_call.
LEMMA AwaitKeeps ==
  ASSUME IpcInv, NEW t \in Tasks, Await(t)
  PROVE  IpcInv'
<1> USE Records
<1>0. /\ TypeOK /\ CallShape /\ SendShape /\ ServerLives
      /\ BlockedForCause /\ RecordOnStack /\ AnswerIsForCall
  BY DEF IpcInv
<1>1. UNCHANGED <<alive, gen, inbox, next, got>> /\ alive[t] /\ op[t].kind = "await"
  BY DEF Await, Running
<1>2. CASE rpc[t].completed \/ op[t].left = 0
  <2>1. /\ op' = [op EXCEPT ![t] = Idle] /\ rpc' = [rpc EXCEPT ![t] = NoCall]
        /\ UNCHANGED asleep
    BY <1>2 DEF Await
  <2>2. /\ rpc'[t] = NoCall /\ op'[t] = Idle /\ ~asleep[t]
        /\ \A u \in Tasks \ {t} : rpc'[u] = rpc[u] /\ op'[u] = op[u]
    BY <2>1, <1>0 DEF TypeOK, Await, Running
  <2>3. TypeOK' BY <1>0, <1>1, <2>1 DEF TypeOK
  <2>4. CallShape' /\ SendShape' /\ ServerLives'
    BY <1>0, <1>1, <2>2 DEF CallShape, SendShape, ServerLives
  <2>5. BlockedForCause'
    BY <1>0, <1>1, <2>1, <2>2 DEF BlockedForCause, HasCause, Matching, Gone, Full
  <2>6. RecordOnStack' /\ AnswerIsForCall'
    BY <1>0, <1>1, <2>2 DEF RecordOnStack, AnswerIsForCall
  <2>7. QED BY <2>3, <2>4, <2>5, <2>6 DEF IpcInv
<1>3. CASE ~(rpc[t].completed \/ op[t].left = 0)
  <2>1. asleep' = [asleep EXCEPT ![t] = TRUE] /\ UNCHANGED <<op, rpc>>
    BY <1>3 DEF Await
  <2>2. TypeOK' /\ CallShape' /\ SendShape' /\ ServerLives' /\ RecordOnStack'
        /\ AnswerIsForCall'
    BY <1>0, <1>1, <2>1
    DEF TypeOK, CallShape, SendShape, ServerLives, RecordOnStack, AnswerIsForCall
  <2>3. BlockedForCause'
    BY <1>0, <1>1, <1>3, <2>1
    DEF TypeOK, BlockedForCause, HasCause, Matching, Gone, Full, ServerLives
  <2>4. QED BY <2>2, <2>3 DEF IpcInv
<1>4. QED BY <1>2, <1>3

\* One round of ipc_recv.
LEMMA RecvRoundKeeps ==
  ASSUME IpcInv, NEW t \in Tasks, NEW o \in Operations, o.kind = "recv",
         Running(t), op[t].kind \in {"idle", "recv"}, RecvRound(t, o)
  PROVE  IpcInv'
<1> USE Records
<1>0. /\ TypeOK /\ CallShape /\ SendShape /\ ServerLives
      /\ BlockedForCause /\ RecordOnStack /\ AnswerIsForCall
  BY DEF IpcInv
<1>1. UNCHANGED <<alive, gen, rpc, next>> /\ alive[t] /\ ~asleep[t]
  BY DEF RecvRound, Running
<1>2. rpc[t] = NoCall BY <1>0 DEF RecordOnStack
<1>3. CASE Take(t, o)
  <2> DEFINE i == Oldest(t, o)
  <2>1. i \in DOMAIN inbox[t] BY <1>0, <1>3, OldestMatches DEF Take, TypeOK
  <2>2. /\ inbox' = [inbox EXCEPT ![t] = Without(@, i)] /\ op' = [op EXCEPT ![t] = Idle]
        /\ got' = IF inbox[t][i].id = 0 THEN got
                  ELSE got \cup {<<t, gen[t], inbox[t][i].id>>}
        /\ Wake(Senders(t))
    BY <1>3 DEF Take
  <2> HIDE DEF i
  <2>3. /\ asleep' \in [Tasks -> BOOLEAN]
        /\ \A u \in Tasks : asleep'[u] => asleep[u] /\ u \notin Senders(t)
    BY <2>2, <1>0 DEF Wake, TypeOK
  <2>4. op'[t] = Idle /\ \A u \in Tasks \ {t} : op'[u] = op[u] /\ inbox'[u] = inbox[u]
    BY <2>2, <1>0 DEF TypeOK
  <2>5. inbox' \in [Tasks -> Seq(Messages)]
    BY <1>0, <2>1, <2>2, WithoutType DEF TypeOK
  <2>6. got \subseteq got' /\ got' \subseteq Tasks \X Gens \X Ids
    <3>1. inbox[t][i] \in Messages BY <1>0, <2>1 DEF TypeOK
    <3>2. inbox[t][i].id \in Ids \cup {0} BY <3>1 DEF Messages
    <3>3. gen[t] \in Gens BY <1>0 DEF TypeOK
    <3>4. QED BY <1>0, <2>2, <3>2, <3>3 DEF TypeOK
  <2>7. TypeOK' BY <1>0, <1>1, <2>2, <2>3, <2>5, <2>6 DEF TypeOK
  <2>8. CallShape' /\ SendShape' /\ ServerLives' /\ RecordOnStack' /\ AnswerIsForCall'
    BY <1>0, <1>1, <1>2, <2>4, <2>6
    DEF CallShape, SendShape, ServerLives, RecordOnStack, AnswerIsForCall
  <2>9. BlockedForCause'
    <3> SUFFICES ASSUME NEW u \in Tasks, asleep'[u] PROVE HasCause(u)'
      BY DEF BlockedForCause
    <3>1. u # t /\ HasCause(u) /\ op'[u] = op[u] /\ inbox'[u] = inbox[u]
      BY <1>0, <1>1, <2>3, <2>4 DEF BlockedForCause
    <3>2. op[u].kind \in {"send", "call"} => op[u].peer \in Tasks \ {t}
      BY <2>3, <1>0 DEF Senders, CallShape, SendShape
    <3>3. op[u].kind \in {"send", "call"} => inbox'[op[u].peer] = inbox[op[u].peer]
      BY <3>2, <2>4
    <3>4. QED BY <3>1, <3>3, <1>1 DEF HasCause, Matching, Gone, Full
  <2>10. QED BY <2>7, <2>8, <2>9 DEF IpcInv
<1>4. CASE RecvTimeout(t, o)
  <2>1. op' = [op EXCEPT ![t] = Idle] /\ UNCHANGED <<inbox, got, asleep>>
    BY <1>4 DEF RecvTimeout
  <2>2. op'[t] = Idle /\ \A u \in Tasks \ {t} : op'[u] = op[u]
    BY <2>1, <1>0 DEF TypeOK
  <2>3. TypeOK' BY <1>0, <1>1, <2>1 DEF TypeOK
  <2>4. CallShape' /\ SendShape' /\ ServerLives' /\ RecordOnStack' /\ AnswerIsForCall'
    BY <1>0, <1>1, <1>2, <2>1, <2>2
    DEF CallShape, SendShape, ServerLives, RecordOnStack, AnswerIsForCall
  <2>5. BlockedForCause'
    BY <1>0, <1>1, <2>1, <2>2 DEF BlockedForCause, HasCause, Matching, Gone, Full
  <2>6. QED BY <2>3, <2>4, <2>5 DEF IpcInv
<1>5. CASE RecvWaits(t, o)
  <2>1. /\ op' = [op EXCEPT ![t] = o] /\ UNCHANGED <<inbox, got>>
        /\ asleep' = [asleep EXCEPT ![t] = TRUE]
        /\ Matching(t, o) = {} /\ o.left # 0
    BY <1>5 DEF RecvWaits
  <2>2. op'[t] = o /\ \A u \in Tasks \ {t} : op'[u] = op[u] /\ asleep'[u] = asleep[u]
    BY <2>1, <1>0 DEF TypeOK
  <2>3. TypeOK' BY <1>0, <1>1, <2>1 DEF TypeOK
  <2>4. CallShape' /\ SendShape' /\ ServerLives' /\ RecordOnStack' /\ AnswerIsForCall'
    BY <1>0, <1>1, <1>2, <2>1, <2>2
    DEF CallShape, SendShape, ServerLives, RecordOnStack, AnswerIsForCall
  <2>5. BlockedForCause'
    <3> SUFFICES ASSUME NEW u \in Tasks, asleep'[u] PROVE HasCause(u)'
      BY DEF BlockedForCause
    <3>1. CASE u = t BY <3>1, <2>1, <2>2 DEF HasCause, Matching
    <3>2. CASE u # t
      BY <3>2, <1>0, <1>1, <2>1, <2>2
      DEF BlockedForCause, HasCause, Matching, Gone, Full
    <3>3. QED BY <3>1, <3>2
  <2>6. QED BY <2>3, <2>4, <2>5 DEF IpcInv
<1>6. QED BY <1>3, <1>4, <1>5 DEF RecvRound

\* A reply to a kernel call.
LEMMA ReplyKeeps ==
  ASSUME IpcInv, NEW t \in Tasks, NEW c \in Tasks, NEW id \in Ids, Reply(t, c, id)
  PROVE  IpcInv'
<1> USE Records
<1>0. /\ TypeOK /\ CallShape /\ SendShape /\ ServerLives
      /\ BlockedForCause /\ RecordOnStack /\ AnswerIsForCall
  BY DEF IpcInv
<1>1. /\ UNCHANGED <<alive, gen, inbox, op, next, got>> /\ <<t, gen[t], id>> \in got
      /\ rpc' = [rpc EXCEPT ![c] = Answered(t, c, id)]
      /\ Wake(IF rpc'[c] = rpc[c] THEN {} ELSE Receiver(c))
  BY DEF Reply
<1>2. /\ rpc'[c] = Answered(t, c, id)
      /\ \A u \in Tasks \ {c} : rpc'[u] = rpc[u]
  BY <1>0, <1>1 DEF TypeOK
<1>3. CASE rpc'[c] = rpc[c]
  <2>1. rpc' = rpc /\ asleep' = asleep BY <1>0, <1>1, <1>3 DEF TypeOK, Wake
  <2>2. QED
    BY <1>0, <1>1, <2>1
    DEF IpcInv, TypeOK, CallShape, SendShape, ServerLives, BlockedForCause, HasCause,
        Matching, Gone, Full, RecordOnStack, AnswerIsForCall
<1>4. CASE rpc'[c] # rpc[c]
  <2>1. /\ rpc[c] # NoCall /\ rpc[c].id = id /\ rpc[c].server = t /\ rpc[c].sgen = gen[t]
        /\ rpc'[c] = [rpc[c] EXCEPT !.completed = TRUE,
                                    !.status = IF op[c].left = 0 THEN @ ELSE "ok"]
    BY <1>2, <1>4 DEF Answered
  <2>2. rpc[c] \in Calls BY <1>0, <2>1 DEF TypeOK
  <2>3. /\ rpc'[c] \in Calls /\ rpc'[c].completed
        /\ rpc'[c].server = t /\ rpc'[c].sgen = gen[t] /\ rpc'[c].id = id
    BY <2>1, <2>2 DEF Calls
  <2>4. /\ asleep' \in [Tasks -> BOOLEAN]
        /\ \A u \in Tasks : asleep'[u] => asleep[u] /\ u \notin Receiver(c)
    BY <1>0, <1>1, <1>4 DEF Wake, TypeOK
  <2>5. rpc' \in [Tasks -> Calls \cup {NoCall}] BY <1>0, <1>1, <1>2, <2>3 DEF TypeOK
  <2>6. TypeOK' BY <1>0, <1>1, <2>4, <2>5 DEF TypeOK
  <2>7. CallShape' /\ SendShape'
    BY <1>0, <1>1, <1>2, <2>1, <2>3 DEF CallShape, SendShape
  <2>8. ServerLives' BY <1>0, <1>1, <1>2, <2>3 DEF ServerLives
  <2>9. RecordOnStack' BY <1>0, <1>1, <1>2, <2>1 DEF RecordOnStack
  <2>10. AnswerIsForCall' BY <1>0, <1>1, <1>2, <2>3 DEF AnswerIsForCall
  <2>11. BlockedForCause'
    <3> SUFFICES ASSUME NEW u \in Tasks, asleep'[u] PROVE HasCause(u)'
      BY DEF BlockedForCause
    <3>1. HasCause(u) /\ (op[u].kind = "await" => u # c)
      BY <1>0, <2>4 DEF BlockedForCause, Receiver
    <3>2. QED BY <3>1, <1>1, <1>2 DEF HasCause, Matching, Gone, Full
  <2>12. QED BY <2>6, <2>7, <2>8, <2>9, <2>10, <2>11 DEF IpcInv
<1>5. QED BY <1>3, <1>4

\* A task ends.
LEMMA DieKeeps ==
  ASSUME IpcInv, NEW t \in Tasks, Die(t)
  PROVE  IpcInv'
<1> USE Records
<1>0. /\ TypeOK /\ CallShape /\ SendShape /\ ServerLives
      /\ BlockedForCause /\ RecordOnStack /\ AnswerIsForCall
  BY DEF IpcInv
<1>1. /\ UNCHANGED <<gen, next, got>> /\ alive' = [alive EXCEPT ![t] = FALSE]
      /\ inbox' = [inbox EXCEPT ![t] = <<>>] /\ op' = [op EXCEPT ![t] = Idle]
  BY DEF Die
<1>2. rpc'[t] = NoCall BY DEF Die
<1>3. \A u \in Tasks \ {t} : u \notin Orphaned(t) => rpc'[u] = rpc[u] BY DEF Die
<1>4. ASSUME NEW u \in Tasks \ {t}, u \in Orphaned(t)
      PROVE  /\ rpc[u] \in Calls /\ rpc'[u] \in Calls /\ rpc'[u].completed
             /\ rpc'[u].server = rpc[u].server /\ rpc'[u].sgen = rpc[u].sgen
             /\ rpc'[u].status # "ok"
  <2>1. rpc[u] \in Calls BY <1>0, <1>4 DEF Orphaned, TypeOK
  <2>2. rpc'[u] = [rpc[u] EXCEPT !.completed = TRUE, !.status = "no service"]
    BY <1>4 DEF Die
  <2>3. QED BY <2>1, <2>2 DEF Calls
<1>5. rpc' \in [Tasks -> Calls \cup {NoCall}]
  <2>1. \A u \in Tasks : rpc'[u] \in Calls \cup {NoCall}
    BY <1>0, <1>2, <1>3, <1>4 DEF TypeOK
  <2>2. rpc' = [u \in Tasks |-> rpc'[u]] BY DEF Die
  <2>3. QED BY <2>1, <2>2
<1>6. /\ asleep' \in [Tasks -> BOOLEAN]
      /\ \A u \in Tasks : asleep'[u] =>
           /\ asleep[u] /\ u # t /\ u \notin Senders(t)
           /\ u \in Orphaned(t) => u \notin Receiver(u)
  BY <1>0 DEF Die, Wake, TypeOK
<1>7. /\ op'[t] = Idle
      /\ \A u \in Tasks \ {t} : op'[u] = op[u] /\ inbox'[u] = inbox[u] /\ alive'[u] = alive[u]
  BY <1>0, <1>1 DEF TypeOK
<1>8. TypeOK'
  <2>1. <<>> \in Seq(Messages) OBVIOUS
  <2>2. QED BY <1>0, <1>1, <1>5, <1>6, <2>1 DEF TypeOK
<1>9. CallShape' /\ SendShape'
  BY <1>0, <1>2, <1>3, <1>4, <1>7 DEF CallShape, SendShape
<1>10. RecordOnStack'
  BY <1>0, <1>2, <1>3, <1>4, <1>7 DEF RecordOnStack, Orphaned
<1>11. AnswerIsForCall' BY <1>0, <1>1, <1>2, <1>3, <1>4 DEF AnswerIsForCall
<1>12. ServerLives'
  <2> SUFFICES ASSUME NEW u \in Tasks, op'[u].kind = "await", ~rpc'[u].completed
               PROVE  alive'[rpc'[u].server] /\ gen'[rpc'[u].server] = rpc'[u].sgen
    BY DEF ServerLives
  <2>1. u # t /\ u \notin Orphaned(t) BY <1>4, <1>7
  <2>2. rpc'[u] = rpc[u] /\ op[u].kind = "await" BY <2>1, <1>3, <1>7
  <2>3. rpc[u] \in Calls /\ rpc[u].server \in Tasks BY <2>2, <1>0 DEF CallShape
  <2>4. alive[rpc[u].server] /\ gen[rpc[u].server] = rpc[u].sgen
    BY <2>2, <1>0 DEF ServerLives
  <2>5. rpc[u].server # t BY <2>1, <2>3, <2>4 DEF Orphaned
  <2>6. QED BY <2>2, <2>3, <2>4, <2>5, <1>1, <1>7
<1>13. BlockedForCause'
  <2> SUFFICES ASSUME NEW u \in Tasks, asleep'[u] PROVE HasCause(u)'
    BY DEF BlockedForCause
  <2>1. u # t /\ HasCause(u) /\ op'[u] = op[u] /\ inbox'[u] = inbox[u]
    BY <1>0, <1>6, <1>7 DEF BlockedForCause
  <2>2. op[u].kind \in {"send", "call"} => op[u].peer \in Tasks \ {t}
    BY <1>0, <1>6 DEF Senders, CallShape, SendShape
  <2>3. op[u].kind \in {"send", "call"} => ~Gone(op[u])' /\ Full(op[u].peer)'
    BY <2>1, <2>2, <1>1, <1>7 DEF HasCause, Gone, Full
  <2>4. op[u].kind = "await" => u \notin Orphaned(t)
    BY <1>6 DEF Receiver
  <2>5. op[u].kind = "await" => ~rpc'[u].completed
    BY <2>1, <2>4, <1>3 DEF HasCause
  <2>6. QED BY <2>1, <2>3, <2>5, <1>12 DEF HasCause, Matching, ServerLives
<1>14. QED BY <1>8, <1>9, <1>10, <1>11, <1>12, <1>13 DEF IpcInv

\* A new task comes into a slot.
LEMMA CreateKeeps ==
  ASSUME IpcInv, NEW t \in Tasks, Create(t)
  PROVE  IpcInv'
<1>0. /\ TypeOK /\ CallShape /\ SendShape /\ ServerLives
      /\ BlockedForCause /\ RecordOnStack /\ AnswerIsForCall
  BY DEF IpcInv
<1>1. /\ ~alive[t] /\ gen[t] < MaxGen /\ alive' = [alive EXCEPT ![t] = TRUE]
      /\ gen' = [gen EXCEPT ![t] = gen[t] + 1]
      /\ UNCHANGED <<inbox, op, asleep, rpc, next, got>>
  BY DEF Create
<1>2. \A u \in Tasks : alive[u] => alive'[u] /\ gen'[u] = gen[u]
  BY <1>0, <1>1 DEF TypeOK
<1>3. TypeOK'
  <2>1. gen[t] + 1 \in Gens BY <1>0, <1>1, IpcAssumption DEF TypeOK, Gens
  <2>2. QED BY <1>0, <1>1, <2>1 DEF TypeOK
<1>4. CallShape' /\ SendShape' /\ RecordOnStack' /\ AnswerIsForCall'
  BY <1>0, <1>1, <1>2 DEF CallShape, SendShape, RecordOnStack, AnswerIsForCall
<1>5. \A u \in Tasks : op[u].kind = "await" => rpc[u].server \in Tasks
  BY <1>0 DEF CallShape
<1>6. ServerLives' BY <1>0, <1>1, <1>2, <1>5 DEF ServerLives
<1>7. BlockedForCause'
  <2> SUFFICES ASSUME NEW u \in Tasks, asleep'[u] PROVE HasCause(u)'
    BY DEF BlockedForCause
  <2>1. HasCause(u) BY <1>0, <1>1 DEF BlockedForCause
  <2>2. op[u].kind \in {"send", "call"} => op[u].peer \in Tasks
    BY <1>0 DEF CallShape, SendShape
  <2>3. QED BY <2>1, <2>2, <1>1, <1>2, <1>5 DEF HasCause, Matching, Gone, Full
<1>8. QED BY <1>3, <1>4, <1>6, <1>7 DEF IpcInv

\* A signal runs a sleeping task.
LEMMA StrayKeeps ==
  ASSUME IpcInv, NEW t \in Tasks, Stray(t)
  PROVE  IpcInv'
<1>1. /\ UNCHANGED <<alive, gen, inbox, op, rpc, next, got>>
      /\ asleep' \in [Tasks -> BOOLEAN] /\ \A u \in Tasks : asleep'[u] => asleep[u]
  BY DEF Stray, Wake, IpcInv, TypeOK
<1>2. QED
  BY <1>1
  DEF IpcInv, TypeOK, CallShape, SendShape, ServerLives, BlockedForCause, HasCause,
      Matching, Gone, Full, RecordOnStack, AnswerIsForCall

\* The clock advances.
LEMMA TickKeeps ==
  ASSUME IpcInv, Tick
  PROVE  IpcInv'
<1>0. /\ TypeOK /\ CallShape /\ SendShape /\ ServerLives
      /\ BlockedForCause /\ RecordOnStack /\ AnswerIsForCall
  BY DEF IpcInv
<1>1. /\ UNCHANGED <<alive, gen, inbox, rpc, next, got>>
      /\ Wake({t \in Tasks : op[t].left \in {0, 1}})
      /\ op' = [t \in Tasks |-> [op[t] EXCEPT !.left = IF @ > 0 THEN @ - 1 ELSE @]]
  BY DEF Tick
<1>2. ASSUME NEW u \in Tasks
      PROVE  /\ op'[u] \in Operations
             /\ op'[u].kind = op[u].kind /\ op'[u].peer = op[u].peer
             /\ op'[u].pgen = op[u].pgen
             /\ op'[u].left = 0 => op[u].left \in {0, 1}
  <2>1. op[u] \in Operations BY <1>0 DEF TypeOK
  <2>2. op'[u] = [op[u] EXCEPT !.left = IF @ > 0 THEN @ - 1 ELSE @] BY <1>1
  <2>3. op[u].left \in Nat \cup {-1} BY <2>1 DEF Operations, Never
  <2>4. QED BY <2>1, <2>2, <2>3 DEF Operations, Never
<1>3. /\ asleep' \in [Tasks -> BOOLEAN]
      /\ \A u \in Tasks : asleep'[u] => asleep[u] /\ op[u].left \notin {0, 1}
  BY <1>0, <1>1 DEF Wake, TypeOK
<1>4. TypeOK'
  <2>1. op' \in [Tasks -> Operations] BY <1>1, <1>2
  <2>2. QED BY <1>0, <1>1, <1>3, <2>1 DEF TypeOK
<1>5. CallShape' /\ SendShape' /\ ServerLives' /\ RecordOnStack' /\ AnswerIsForCall'
  BY <1>0, <1>1, <1>2
  DEF CallShape, SendShape, ServerLives, RecordOnStack, AnswerIsForCall
<1>6. BlockedForCause'
  <2> SUFFICES ASSUME NEW u \in Tasks, asleep'[u] PROVE HasCause(u)'
    BY DEF BlockedForCause
  <2>1. HasCause(u) /\ op'[u].left # 0 BY <1>0, <1>2, <1>3 DEF BlockedForCause
  <2>2. QED BY <2>1, <1>1, <1>2 DEF HasCause, Matching, Gone, Full
<1>7. QED BY <1>4, <1>5, <1>6 DEF IpcInv

\* ipc_recv and its resumption.
LEMMA RecvKeeps ==
  ASSUME IpcInv, NEW t \in Tasks, NEW filter \in Tasks \cup {Any}, NEW ticks \in Ticks,
         Recv(t, filter, ticks)
  PROVE  IpcInv'
<1> DEFINE o == [kind |-> "recv", peer |-> filter, pgen |-> 0, left |-> ticks]
<1>1. o \in Operations /\ o.kind = "recv" BY IpcAssumption DEF Operations, Never
<1>2. Running(t) /\ op[t].kind = "idle" /\ RecvRound(t, o) BY Records DEF Recv
<1> HIDE DEF o
<1>3. QED BY <1>1, <1>2, RecvRoundKeeps

LEMMA ResumeRecvKeeps ==
  ASSUME IpcInv, NEW t \in Tasks, ResumeRecv(t)
  PROVE  IpcInv'
<1>1. Running(t) /\ op[t].kind = "recv" /\ RecvRound(t, op[t]) BY DEF ResumeRecv
<1>2. op[t] \in Operations BY DEF IpcInv, TypeOK
<1>3. QED BY <1>1, <1>2, RecvRoundKeeps

\* The invariant holds at the start.
LEMMA InitKeeps == Init => IpcInv
<1> SUFFICES ASSUME Init PROVE IpcInv OBVIOUS
<1>1. TypeOK
  <2>1. 1 \in Gens /\ 1 \in 1..(MaxCalls + 1) BY IpcAssumption DEF Gens
  <2>2. <<>> \in Seq(Messages) OBVIOUS
  <2>3. QED BY <2>1, <2>2, Records DEF Init, TypeOK
<1>2. /\ CallShape /\ SendShape /\ ServerLives /\ BlockedForCause /\ RecordOnStack
      /\ AnswerIsForCall
  BY Records
  DEF Init, CallShape, SendShape, ServerLives, BlockedForCause, RecordOnStack,
      AnswerIsForCall
<1>3. QED BY <1>1, <1>2 DEF IpcInv

\* Every step keeps the invariant.
LEMMA NextKeeps == IpcInv /\ [Next]_vars => IpcInv'
<1> SUFFICES ASSUME IpcInv, [Next]_vars PROVE IpcInv' OBVIOUS
<1>0. \A u \in Tasks : 1..gen[u] \subseteq Gens
  BY IpcAssumption DEF IpcInv, TypeOK, Gens
<1>1. CASE UNCHANGED vars
  BY <1>1
  DEF vars, IpcInv, TypeOK, CallShape, SendShape, ServerLives, BlockedForCause, HasCause,
      Matching, Gone, Full, RecordOnStack, AnswerIsForCall
<1>2. CASE Tick BY <1>2, TickKeeps
<1>3. ASSUME NEW t \in Tasks, NEW to \in Tasks, NEW ticks \in Ticks,
             NEW g \in {0} \cup 1..gen[to], Send(t, to, g, ticks)
      PROVE  IpcInv'
  BY <1>0, <1>3, SendKeeps
<1>4. ASSUME NEW t \in Tasks, NEW to \in Tasks \cup {Any}, NEW ticks \in Ticks,
             Recv(t, to, ticks)
      PROVE  IpcInv'
  BY <1>4, RecvKeeps
<1>5. ASSUME NEW t \in Tasks, NEW s \in Tasks, NEW ticks \in CallTicks,
             NEW g \in 1..gen[s], Call(t, s, g, ticks)
      PROVE  IpcInv'
  BY <1>0, <1>5, CallKeeps
<1>6. ASSUME NEW t \in Tasks, NEW c \in Tasks, NEW id \in Ids, Reply(t, c, id)
      PROVE  IpcInv'
  BY <1>6, ReplyKeeps
<1>7. ASSUME NEW t \in Tasks, Round(t) \/ Die(t) \/ Create(t) \/ Stray(t)
      PROVE  IpcInv'
  BY <1>7, ResumeSendKeeps, ResumeRecvKeeps, AwaitKeeps, DieKeeps, CreateKeeps, StrayKeeps
  DEF Round
<1>8. QED BY <1>1, <1>2, <1>3, <1>4, <1>5, <1>6, <1>7 DEF Next

\* The invariant holds in every behaviour of ipc.c.
THEOREM IpcCorrect == Spec => []IpcInv
<1>1. QED BY InitKeeps, NextKeeps, PTL DEF Spec

\* ipc_wake_senders, ipc_wake_receiver, ipc_tick and ipc_task_cleanup leave
\* nobody asleep whose wait is over.
THEOREM NobodyForgotten == Spec => []BlockedForCause
<1>1. IpcInv => BlockedForCause BY DEF IpcInv
<1>2. QED BY <1>1, IpcCorrect, PTL

\* A reply is never written to a stack that rpc_call has left.
THEOREM RecordsOnStack == Spec => []RecordOnStack
<1>1. IpcInv => RecordOnStack BY DEF IpcInv
<1>2. QED BY <1>1, IpcCorrect, PTL

\* A call that succeeds was answered by its server for its own request.
THEOREM AnswersForCalls == Spec => []AnswerIsForCall
<1>1. IpcInv => AnswerIsForCall BY DEF IpcInv
<1>2. QED BY <1>1, IpcCorrect, PTL
=============================================================================
