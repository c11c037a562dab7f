---------------------------- MODULE SystemProofs ----------------------------
(***************************************************************************)
(* Proofs about Ipc and about System, which composes it with the shipped   *)
(* programs.                                                               *)
(*                                                                         *)
(* Ipc, for any number of task slots, any names and messages and any       *)
(* well-behaved programs.  IInv is the inductive invariant: the properties *)
(* of Ipc and what a step needs besides them to keep them.  Under it every *)
(* step is one of Rendezvous or leaves its three variables alone.          *)
(*                                                                         *)
(* System, for any number of task slots and descriptors, any length of the *)
(* line buffer, any heap of the vm server's libc and any lines.  Two       *)
(* invariants carry its proofs.  LineInv says what readline has stored of  *)
(* the line typed so far.  Conversation lists the points the four programs *)
(* pass together, from one prompt to the next: which of them runs, where   *)
(* each of the others is parked, and which message lies in whose slot.     *)
(***************************************************************************)
EXTENDS System, IpcRefinement, SeqLemmas

----------------------------------------------------------------------------
(* Ipc: the invariant                                                      *)

\* The task with the CPU is runnable and has not exited.
CurrentInv == state[current] = "runnable" /\ pc[current] # "dead"

\* The idle task is where kernel_main left it; every task in use has a name of its program.
IdleInv ==
    /\ state[Idle] = "runnable" /\ pc[Idle] \in {"boot", "idle"} /\ name[Idle] = ""
    /\ \A t \in Task \ {Idle} :
          pc[t] \notin {"boot", "idle"} /\ (state[t] # "unused" => name[t] \in Names)

\* Where a task can be that does not run: blocked inside ipc_send or ipc_receive, and
\* between two kernel calls only if it has the CPU.
PcInv ==
    \A t \in Task :
        /\ state[t] = "blocked" => pc[t] \in SendPc \cup {"recv"}
        /\ pc[t] \in {"callrecv", "exitsw", "tell"} => t = current
        /\ state[t] = "unused" => pc[t] \in {"user", "dead"}

\* An unread message is one whose receiver has been resumed and has not had the CPU yet.
ReadInv == \A t \in Task : message[t] # NoMsg <=> state[t] = "runnable" /\ pc[t] = "recv"

\* Only a task that is not in ipc_receive has wait_for = IPC_DENY.
WaitInv == \A t \in Task : Receiving(t) => waitFor[t] # DENY

\* The servers keep their slots and names, and what they send while they serve is sent
\* with wait_for = IPC_DENY.
ServerInv ==
    /\ \A t \in Booted : BootNames[t - 1] \in Servers => name[t] = BootNames[t - 1]
    /\ \A t \in Task : name[t] \in Servers =>
          /\ state[t] # "unused"
          /\ pc[t] \notin {"exit", "exitsw", "dead"}
          /\ Sending(t) => waitFor[t] = DENY

\* Only servers have queues of senders.
SendInv ==
    \A s \in Task : Sending(s) =>
        /\ out[s].dst \in Task \ {s}
        /\ name[out[s].dst] \in Servers
        /\ out[s].body \in Body

\* task_destroy is called when the shell waits for it.
TellInv ==
    pc[current] = "tell" =>
        /\ out[current].to = "shell"
        /\ out[current].body \in Body
        /\ \E d \in Task \ {current} : Lookup("shell", d) /\ Ready(d) /\ pc[d] = "recv"

\* A task that is about to leave the CPU for good has just resumed the vm server.
ExitInv == pc[current] = "exitsw" => runq # <<>>

IInv ==
    /\ TypeOK
    /\ OnlyExpectedFaults
    /\ RunQueueExact
    /\ SendersExact
    /\ Handshake
    /\ NoLostRendezvous
    /\ CurrentInv
    /\ IdleInv
    /\ PcInv
    /\ ReadInv
    /\ WaitInv
    /\ ServerInv
    /\ SendInv
    /\ TellInv
    /\ ExitInv

----------------------------------------------------------------------------
(* What the lemmas need of the constants and the helpers                   *)

(* What BootAssumption says of the constants.                              *)
LEMMA ConstantFacts ==
    /\ NumTask \in Nat /\ Task \subseteq Nat /\ 0 \notin Task /\ -1 \notin Task
    /\ Idle \in Task
    /\ Booted \subseteq Task \ {Idle}
    /\ Servers \subseteq Names
    /\ "vm" \in Servers /\ "shell" \in Names /\ "shell" \notin Servers /\ "" \notin Names
    /\ \A t \in Booted : BootNames[t - 1] \in Names
    /\ \E t \in Booted : BootNames[t - 1] = "vm"
  <1> DEFINE n == Len(BootNames)
  <1>1. n \in Nat /\ NumTask \in Nat /\ n < NumTask
    BY BootAssumption, ElementsSeq DEF BootAssumption
  <1>2. \A j \in 1..n : BootNames[j] \in Names
    BY BootAssumption, ElementsSeq DEF BootAssumption
  <1>3. \A x : x \in ToSet(BootNames) <=> \E j \in 1..n : BootNames[j] = x
    BY BootAssumption, ElementsSeq DEF BootAssumption
  <1> HIDE DEF n
  <1>4. Booted = 2..(n + 1)
    BY DEF Booted, n
  <1>5. \A t \in Booted : t - 1 \in 1..n
    BY <1>1, <1>4
  <1>6. Servers \subseteq Names
    BY <1>2, <1>3, BootAssumption DEF BootAssumption
  <1>7. \E t \in Booted : BootNames[t - 1] = "vm"
    <2>1. PICK j \in 1..n : BootNames[j] = "vm"
      BY <1>3, BootAssumption DEF BootAssumption
    <2>2. j + 1 \in Booted /\ (j + 1) - 1 = j
      BY <1>1, <1>4
    <2> QED
      BY <2>1, <2>2
  <1>8. Booted \subseteq Task \ {Idle}
    BY <1>1, <1>4 DEF Task, Idle
  <1>9. Idle \in Task /\ Task \subseteq Nat /\ 0 \notin Task /\ -1 \notin Task
    BY <1>1 DEF Task, Idle
  <1> QED
    BY <1>1, <1>2, <1>5, <1>6, <1>7, <1>8, <1>9, BootAssumption DEF BootAssumption

(* task_lookup finds one slot only.                                        *)
LEMMA LookupUnique ==
    ASSUME NEW n, NEW d \in Task, NEW e \in Task, Lookup(n, d), Lookup(n, e)
    PROVE  d = e
  <1>1. d \in Nat \ {0} /\ e \in Nat \ {0}
    BY ConstantFacts
  <1>2. ~(d < e)
    BY <1>1 DEF Lookup
  <1>3. ~(e < d)
    BY <1>1 DEF Lookup
  <1> QED
    BY <1>1, <1>2, <1>3

(* A message is not NoMsg, and what an exiting task sends is a message.    *)
LEMMA BodyFacts ==
    /\ \A n \in Names, b \in Body : [src |-> n, body |-> b] \in Message \ {NoMsg}
    /\ \A t \in Task : ExitMsg(t) \in Body /\ DestroyMsg(t) \in Body
    /\ NoMsg \in Message /\ NoOut \in Out
    /\ \A d \in Task, n \in Names, b \in Body : [dst |-> d, to |-> n, body |-> b] \in Out
    /\ \A n \in Names, b \in Body : [dst |-> 0, to |-> n, body |-> b] \in Out
    /\ Payload \subseteq Body
  BY ConstantFacts DEF Message, NoMsg, Body, Out, NoOut

(* task_switch: when the run queue holds the tasks that are to run, and    *)
(* the one that gives up the CPU is not among them, the queue again holds  *)
(* all of them but the one that has the CPU now.                           *)
LEMMA SwitchLemma ==
    ASSUME NEW rq \in Seq(Task), IsInjective(rq),
           current \in Task,
           ToSet(rq) = {t \in Task \ {Idle} : state'[t] = "runnable" /\ pc'[t] # "dead"},
           current = Idle \/ state'[current] # "runnable" \/ rq # <<>>,
           current \notin ToSet(rq),
           state'[Idle] = "runnable", pc'[Idle] # "dead",
           Switch(rq, state')
    PROVE  /\ runq' \in Seq(Task)
           /\ current' \in Task
           /\ RunQueueExact'
           /\ CurrentInv'
           /\ current' \in ToSet(rq) \cup {Idle}
  <1>1. CASE rq = <<>>
    <2>1. current' = Idle /\ runq' = <<>>
      BY <1>1 DEF Switch
    <2>2. ToSet(rq) = {}
      BY <1>1, EmptyList
    <2> QED
      BY <1>1, <2>1, <2>2, EmptyList, ConstantFacts DEF RunQueueExact, CurrentInv
  <1>2. CASE rq # <<>>
    <2>1. current' = Last(rq) /\ runq' = Front(rq)
      BY <1>2 DEF Switch
    <2>2. /\ runq' \in Seq(Task) /\ IsInjective(runq') /\ current' \in Task
          /\ current' \in ToSet(rq) /\ ToSet(runq') = ToSet(rq) \ {current'}
      BY <1>2, <2>1, PopSeq
    <2> QED
      BY <2>2 DEF RunQueueExact, CurrentInv
  <1> QED
    BY <1>1, <1>2

----------------------------------------------------------------------------
(* What every step is shown to do: it keeps the invariant, puts a message  *)
(* only where one is waited for, and lets exited tasks be.                 *)
DeliveredStep ==
    \A d \in Task : message'[d] \notin {message[d], NoMsg} =>
        message[d] = NoMsg /\ Receiving(d) /\ waitFor[d] \in {ANY, current}

DeadStep == \A t \in Task : pc[t] = "dead" /\ state[t] # "unused" => pc'[t] = "dead"

StepOK == IInv' /\ DeliveredStep /\ DeadStep

(* The end of ipc_send, whether the receiver was waiting when it was       *)
(* called or the sender was queued and picked.                             *)
LEMMA DeliverStep ==
    ASSUME IInv, fault = "none", NEW d \in Task \ {current}, NEW b \in Body, NEW k \in SendPc,
           Receiving(d), waitFor[d] \in {ANY, current},
           name[current] \in Names, k = "exit" => name[current] \notin Servers,
           pc[current] \in SendPc \cup {"user", "tell"},
           Deliver(d, b), pc' = [pc EXCEPT ![current] = After(k)],
           out' \in [Task -> Out], \A t \in Task \ {current} : out'[t] = out[t],
           destroyed' \in [Task -> BOOLEAN],
           UNCHANGED <<current, name, waitFor, senders, shared>>
    PROVE  StepOK
  <1> USE DEF IInv
  <1>1. After(k) \in {"user", "callrecv", "exitsw"} /\ (After(k) = "exitsw" => k = "exit")
    BY DEF After, SendPc
  <1>2. current \in Task /\ current # Idle /\ d # Idle
    BY DEF TypeOK, IdleInv, Receiving, CurrentInv, SendPc
  <1>3. d \notin ToSet(runq) /\ current \notin ToSet(runq)
    BY DEF Receiving, RunQueueExact
  <1>4. runq' = Append(runq, d) /\ fault' = "none"
    BY <1>3 DEF Deliver, Push, OnRunq
  <1>5. /\ runq' \in Seq(Task) /\ IsInjective(runq') /\ runq' # <<>>
        /\ ToSet(runq') = ToSet(runq) \cup {d}
    <2>1. runq \in Seq(Task) /\ IsInjective(runq)
      BY DEF TypeOK, RunQueueExact
    <2> QED
      BY <2>1, <1>3, <1>4, PushSeq
  <1>6. state' = [state EXCEPT ![d] = "runnable"]
        /\ message' = [message EXCEPT ![d] = [src |-> name[current], body |-> b]]
    BY DEF Deliver
  <1>7. message[d] = NoMsg
    BY DEF ReadInv, Receiving
  <1>8. [src |-> name[current], body |-> b] \in Message \ {NoMsg}
    BY BodyFacts
  <1>9. TypeOK'
    BY <1>1, <1>2, <1>4, <1>5, <1>6, <1>8 DEF TypeOK, Pc, States, Faults
  <1>10. OnlyExpectedFaults'
    BY <1>4 DEF OnlyExpectedFaults
  <1>11. RunQueueExact'
    <2>1. \A t \in Task : t \in ToSet(runq) <=>
            t \in Task \ {current, Idle} /\ state[t] = "runnable" /\ pc[t] # "dead"
      BY DEF RunQueueExact
    <2>2. \A t \in Task : t \in ToSet(runq') <=>
            t \in Task \ {current, Idle} /\ state'[t] = "runnable" /\ pc'[t] # "dead"
      BY <2>1, <1>2, <1>5, <1>6 DEF TypeOK, Receiving
    <2>3. ToSet(runq') \subseteq Task
      BY <1>5, ElementsSeq
    <2> QED
      BY <2>2, <2>3, <1>5 DEF RunQueueExact
  <1>12. ~Sending(current)'
    BY <1>1, <1>2 DEF Sending, SendPc, TypeOK
  <1>13. \A t \in Task \ {current} : pc'[t] = pc[t]
    BY DEF TypeOK
  <1>14. SendersExact'
    <2>1. \A t \in Task \ {current, d} : state'[t] = state[t] /\ out'[t] = out[t] /\ pc'[t] = pc[t]
      BY <1>6, <1>13 DEF TypeOK
    <2>2. state'[d] = "runnable" /\ state[d] = "blocked" /\ ~Sending(d)
      BY <1>6 DEF TypeOK, Receiving, Sending, SendPc
    <2>3. state'[current] = "runnable" /\ state[current] = "runnable"
      BY <1>6, <1>2 DEF TypeOK, CurrentInv
    <2> QED
      BY <2>1, <2>2, <2>3 DEF SendersExact, Sending
  <1>15. Handshake'
    <2> SUFFICES ASSUME NEW s \in Task, Picked(s)'
                 PROVE  (Receiving(out[s].dst) /\ waitFor[out[s].dst] = s)'
      BY DEF Handshake
    <2>1. s # current /\ s # d
      BY <1>12, <1>13 DEF Picked, Receiving, Sending, SendPc
    <2>2. Picked(s) /\ out'[s] = out[s]
      BY <2>1, <1>6, <1>13 DEF Picked, Sending, TypeOK
    <2>3. out[s].dst \in Task /\ Receiving(out[s].dst) /\ waitFor[out[s].dst] = s
      BY <2>2 DEF Handshake, SendInv, Picked
    <2>4. out[s].dst # d /\ out[s].dst # current
      <3>1. s # ANY
        BY ONLY s \in Task, ConstantFacts DEF ANY
      <3>2. out[s].dst # d
        BY ONLY <2>1, <2>3, <3>1, waitFor[d] \in {ANY, current}
      <3>3. out[s].dst # current
        <4>1. state[current] = "runnable"
          BY DEF CurrentInv
        <4> QED
          BY ONLY <2>3, <4>1 DEF Receiving
      <3> QED
        BY <3>2, <3>3
    <2> DEFINE r == out[s].dst
    <2>5. r \in Task /\ r # d /\ r # current /\ out'[s].dst = r
      BY <2>2, <2>3, <2>4
    <2>6. state'[r] = state[r] /\ pc'[r] = pc[r] /\ waitFor'[r] = waitFor[r]
      BY <2>5, <1>6, <1>13 DEF TypeOK
    <2> QED
      BY <2>3, <2>5, <2>6 DEF Receiving
  <1>16. NoLostRendezvous'
    BY <1>1, <1>6, <1>13 DEF NoLostRendezvous, Receiving, TypeOK
  <1>17. CurrentInv'
    BY <1>1, <1>2, <1>6 DEF CurrentInv, TypeOK
  <1>18. IdleInv'
    <2>1. state'[Idle] = "runnable" /\ pc'[Idle] = pc[Idle]
      BY <1>2, <1>6, <1>13, ConstantFacts DEF IdleInv, TypeOK
    <2>2. \A t \in Task : state'[t] # "unused" => state[t] # "unused"
      BY <1>6 DEF TypeOK, Receiving
    <2>3. pc'[current] \notin {"boot", "idle"}
      BY <1>1, <1>2 DEF TypeOK
    <2> QED
      BY <2>1, <2>2, <2>3, <1>13 DEF IdleInv
  <1>19. PcInv'
    BY <1>1, <1>2, <1>6, <1>13 DEF PcInv, TypeOK, CurrentInv
  <1>20. ReadInv'
    BY <1>1, <1>2, <1>6, <1>8, <1>13 DEF ReadInv, TypeOK, CurrentInv, Receiving, SendPc
  <1>21. WaitInv'
    BY <1>1, <1>2, <1>6, <1>13 DEF WaitInv, TypeOK, Receiving, CurrentInv
  <1>22. ServerInv'
    BY <1>1, <1>2, <1>6, <1>12, <1>13 DEF ServerInv, TypeOK, Sending
  <1>23. SendInv'
    BY <1>2, <1>12, <1>13 DEF SendInv, Sending
  <1>24. TellInv' /\ ExitInv'
    BY <1>1, <1>2, <1>5 DEF TellInv, ExitInv, TypeOK
  <1>25. DeliveredStep
    BY <1>6, <1>7 DEF DeliveredStep, TypeOK
  <1>26. DeadStep
    BY <1>13 DEF DeadStep, CurrentInv
  <1> QED
    BY <1>9, <1>10, <1>11, <1>14, <1>15, <1>16, <1>17, <1>18, <1>19, <1>20, <1>21, <1>22,
       <1>23, <1>24, <1>25, <1>26 DEF StepOK

(* A task that is between two calls, or has the CPU, is as it should be.   *)
LEMMA RunningFacts ==
    ASSUME IInv, pc[current] \in SendPc \cup {"user", "callrecv", "exitsw", "tell", "recv"}
    PROVE  /\ current \in Task /\ current # Idle
           /\ state[current] = "runnable"
           /\ name[current] \in Names
           /\ current \notin ToSet(runq)
           /\ ~OnSenders(current)
           /\ \A t \in Task \ {current} : pc[t] \notin {"callrecv", "exitsw", "tell"}
           /\ runq \in Seq(Task) /\ IsInjective(runq)
           /\ pc[Idle] \in {"boot", "idle"} /\ state[Idle] = "runnable"
  <1> USE DEF IInv
  <1>1. current \in Task /\ current # Idle /\ state[current] = "runnable"
    BY DEF TypeOK, IdleInv, CurrentInv, SendPc
  <1>2. name[current] \in Names
    BY <1>1 DEF IdleInv
  <1>3. ~OnSenders(current)
    BY <1>1 DEF OnSenders, SendersExact
  <1> QED
    BY <1>1, <1>2, <1>3 DEF RunQueueExact, PcInv, TypeOK, IdleInv

(* ipc_send to a server that is not waiting: the sender is queued and      *)
(* blocked.                                                                *)
LEMMA QueueStep ==
    ASSUME IInv, fault = "none", NEW n \in Servers, NEW b \in Body, NEW k \in SendPc,
           pc[current] \in {"user", "tell"},
           name[current] \in Servers => waitFor[current] = DENY /\ k # "exit",
           SendQueue(n, b, k), destroyed' \in [Task -> BOOLEAN]
    PROVE  StepOK
  <1> USE DEF IInv
  <1>1. PICK d \in Task \ {current} :
        /\ name[d] = n /\ ~Ready(d)
        /\ out' = [out EXCEPT ![current] = [dst |-> d, to |-> n, body |-> b]]
        /\ pc' = [pc EXCEPT ![current] = k]
        /\ senders' = [senders EXCEPT ![d] = Append(@, current)]
        /\ state' = [state EXCEPT ![current] = "blocked"]
        /\ Switch(runq, state')
        /\ fault' = fault
        /\ UNCHANGED <<name, waitFor, message, shared>>
    BY RunningFacts DEF SendQueue, Lookup
  <1>2. /\ current \in Task /\ current # Idle /\ state[current] = "runnable"
        /\ current \notin ToSet(runq)
        /\ \A t \in Task \ {current} : pc[t] \notin {"callrecv", "exitsw", "tell"}
    BY RunningFacts
  <1>3. /\ state'[current] = "blocked" /\ pc'[current] = k
        /\ out'[current] = [dst |-> d, to |-> n, body |-> b]
    BY <1>1, <1>2 DEF TypeOK
  <1>4. \A t \in Task \ {current} : state'[t] = state[t] /\ pc'[t] = pc[t] /\ out'[t] = out[t]
    BY <1>1 DEF TypeOK
  <1>5. k \in {"send", "call", "exit"}
    BY DEF SendPc
  <1>6. /\ runq' \in Seq(Task) /\ current' \in Task /\ RunQueueExact' /\ CurrentInv'
        /\ current' # current
    <2>1. \A t : t \in ToSet(runq) <=>
            t \in Task \ {Idle} /\ state'[t] = "runnable" /\ pc'[t] # "dead"
      BY <1>2, <1>3, <1>4 DEF RunQueueExact
    <2>2. state'[Idle] = "runnable" /\ pc'[Idle] # "dead"
      BY <1>2, <1>4, RunningFacts, ConstantFacts DEF SendPc
    <2>3. ToSet(runq) = {t \in Task \ {Idle} : state'[t] = "runnable" /\ pc'[t] # "dead"}
      BY <2>1
    <2>4. runq \in Seq(Task) /\ IsInjective(runq)
      BY RunningFacts
    <2> QED
      BY <1>1, <1>2, <1>3, <2>2, <2>3, <2>4, SwitchLemma
  <1>7. current \notin ToSet(senders[d]) /\ senders[d] \in Seq(Task) /\ IsInjective(senders[d])
    BY <1>2 DEF SendersExact, TypeOK
  <1>8. /\ senders'[d] \in Seq(Task) /\ IsInjective(senders'[d])
        /\ ToSet(senders'[d]) = ToSet(senders[d]) \cup {current}
        /\ \A e \in Task \ {d} : senders'[e] = senders[e]
    <2>1. senders'[d] = Append(senders[d], current)
      BY <1>1 DEF TypeOK
    <2>2. \A e \in Task \ {d} : senders'[e] = senders[e]
      BY <1>1 DEF TypeOK
    <2> QED
      BY <1>2, <1>7, <2>1, <2>2, PushSeq
  <1>9. TypeOK'
    <2>1. senders' \in [Task -> Seq(Task)]
      BY <1>1, <1>8 DEF TypeOK
    <2>2. out' \in [Task -> Out]
      BY <1>1, BodyFacts, ConstantFacts DEF TypeOK
    <2> QED
      BY <1>1, <1>5, <1>6, <2>1, <2>2 DEF TypeOK, Pc, States, SendPc
  <1>10. OnlyExpectedFaults'
    BY <1>1 DEF OnlyExpectedFaults
  <1>11. pc'[current] \in SendPc /\ \A t \in Task \ {current} : Sending(t)' <=> Sending(t)
    BY <1>3, <1>4 DEF Sending
  <1>12. SendersExact'
    <2>1. \A e \in Task : IsInjective(senders'[e])
      BY <1>8 DEF SendersExact
    <2>2. ASSUME NEW s \in Task, NEW e \in Task
          PROVE  s \in ToSet(senders'[e]) <=> state'[s] = "blocked" /\ Sending(s)' /\ out'[s].dst = e
      <3>1. CASE s = current
        BY <3>1, <1>2, <1>3, <1>8, <1>11 DEF SendersExact, Sending
      <3>2. CASE s # current
        BY <3>2, <1>4, <1>8, <1>11 DEF SendersExact
      <3> QED
        BY <3>1, <3>2
    <2> QED
      BY <2>1, <2>2 DEF SendersExact
  <1>13. Handshake'
    <2> SUFFICES ASSUME NEW s \in Task, Picked(s)'
                 PROVE  (Receiving(out[s].dst) /\ waitFor[out[s].dst] = s)'
      BY DEF Handshake
    <2>1. s # current /\ Picked(s) /\ out'[s] = out[s]
      BY <1>3, <1>4 DEF Picked, Sending
    <2>2. out[s].dst \in Task /\ Receiving(out[s].dst) /\ waitFor[out[s].dst] = s
      BY <2>1 DEF Handshake, SendInv, Picked
    <2>3. out[s].dst # current
      BY <2>2, <1>2 DEF Receiving
    <2> QED
      BY <2>1, <2>2, <2>3, <1>1, <1>4 DEF Receiving
  <1>14. NoLostRendezvous'
    <2> SUFFICES ASSUME NEW e \in Task, Receiving(e)', NEW s \in ToSet(senders'[e])
                 PROVE  waitFor[e] \notin {ANY, s}
      BY <1>1 DEF NoLostRendezvous
    <2>1. e # current /\ Receiving(e)
      BY <1>3, <1>4, <1>5 DEF Receiving
    <2>2. CASE e = d
      BY <2>1, <2>2, <1>1, <1>8 DEF NoLostRendezvous, Ready, Receiving
    <2>3. CASE e # d
      BY <2>1, <2>3, <1>8 DEF NoLostRendezvous
    <2> QED
      BY <2>2, <2>3
  <1>15. IdleInv'
    BY <1>1, <1>2, <1>3, <1>4, <1>5, ConstantFacts DEF IdleInv
  <1>16. PcInv'
    BY <1>2, <1>3, <1>4, <1>5 DEF PcInv, SendPc
  <1>17. ReadInv'
    BY <1>1, <1>2, <1>3, <1>4 DEF ReadInv
  <1>18. WaitInv'
    BY <1>1, <1>3, <1>4, <1>5 DEF WaitInv, Receiving
  <1>19. ServerInv'
    BY <1>1, <1>2, <1>3, <1>4, <1>5, <1>11 DEF ServerInv
  <1>20. SendInv'
    <2>1. out'[current].dst = d /\ out'[current].body = b
      BY <1>3
    <2> QED
      BY <2>1, <1>1, <1>2, <1>4, <1>11 DEF SendInv
  <1>21. TellInv' /\ ExitInv'
    BY <1>2, <1>4, <1>6 DEF TellInv, ExitInv
  <1>22. DeliveredStep /\ DeadStep
    BY <1>1, <1>2, <1>4 DEF DeliveredStep, DeadStep, CurrentInv
  <1> QED
    BY <1>6, <1>9, <1>10, <1>12, <1>13, <1>14, <1>15, <1>16, <1>17, <1>18, <1>19, <1>20,
       <1>21, <1>22 DEF StepOK

(* ipc_receive when nobody it accepts is queued.                           *)
LEMMA ReceiveNoneStep ==
    ASSUME IInv, fault = "none", NEW src \in Task \cup {ANY}, pc[current] \in {"user", "callrecv"},
           ReceiveNone(src), out' \in [Task -> Out], \A t \in Task \ {current} : out'[t] = out[t],
           UNCHANGED <<name, destroyed, message, shared>>
    PROVE  StepOK
  <1> USE DEF IInv
  <1>1. /\ \A j \in DOMAIN senders[current] : src \notin {ANY, senders[current][j]}
        /\ waitFor' = [waitFor EXCEPT ![current] = src]
        /\ state' = [state EXCEPT ![current] = "blocked"]
        /\ pc' = [pc EXCEPT ![current] = "recv"]
        /\ Switch(runq, state')
        /\ senders' = senders /\ fault' = fault
        /\ UNCHANGED <<name, destroyed, message, shared>>
    BY DEF ReceiveNone, Wait
  <1>2. /\ current \in Task /\ current # Idle /\ state[current] = "runnable"
        /\ current \notin ToSet(runq) /\ runq \in Seq(Task) /\ IsInjective(runq)
        /\ pc[Idle] \in {"boot", "idle"} /\ state[Idle] = "runnable"
        /\ \A t \in Task \ {current} : pc[t] \notin {"callrecv", "exitsw", "tell"}
    BY RunningFacts
  <1>3. state'[current] = "blocked" /\ pc'[current] = "recv" /\ waitFor'[current] = src
    BY <1>1, <1>2 DEF TypeOK
  <1>4. \A t \in Task \ {current} :
            state'[t] = state[t] /\ pc'[t] = pc[t] /\ out'[t] = out[t] /\ waitFor'[t] = waitFor[t]
    BY <1>1 DEF TypeOK
  <1>5. "recv" \notin SendPc /\ src # DENY
    <2>1. Task \subseteq Nat
      BY ConstantFacts
    <2>2. src \in Nat
      BY <2>1 DEF ANY
    <2> QED
      BY <2>2 DEF SendPc, DENY
  <1>6. /\ runq' \in Seq(Task) /\ current' \in Task /\ RunQueueExact' /\ CurrentInv'
        /\ current' # current
    <2>1. \A t : t \in ToSet(runq) <=>
            t \in Task \ {Idle} /\ state'[t] = "runnable" /\ pc'[t] # "dead"
      BY <1>2, <1>3, <1>4 DEF RunQueueExact
    <2>2. state'[Idle] = "runnable" /\ pc'[Idle] # "dead"
      BY <1>2, <1>4, ConstantFacts
    <2>3. ToSet(runq) = {t \in Task \ {Idle} : state'[t] = "runnable" /\ pc'[t] # "dead"}
      BY <2>1
    <2> QED
      BY <1>1, <1>2, <1>3, <2>2, <2>3, SwitchLemma
  <1>7. TypeOK'
    BY <1>1, <1>6 DEF TypeOK, Pc, States
  <1>8. OnlyExpectedFaults'
    BY <1>1 DEF OnlyExpectedFaults
  <1>9. pc'[current] \notin SendPc /\ \A t \in Task \ {current} : Sending(t)' <=> Sending(t)
    BY <1>3, <1>4, <1>5 DEF Sending
  <1>10. ~Sending(current)
    BY DEF Sending, SendPc
  <1>11. SendersExact'
    BY <1>1, <1>2, <1>3, <1>4, <1>9, <1>10 DEF SendersExact, Sending
  <1>12. Handshake'
    <2> SUFFICES ASSUME NEW s \in Task, Picked(s)'
                 PROVE  (Receiving(out[s].dst) /\ waitFor[out[s].dst] = s)'
      BY DEF Handshake
    <2>1. s # current /\ Picked(s) /\ out'[s] = out[s]
      BY <1>3, <1>4 DEF Picked, Sending
    <2>2. out[s].dst \in Task /\ Receiving(out[s].dst) /\ waitFor[out[s].dst] = s
      BY <2>1 DEF Handshake, SendInv, Picked
    <2>3. out[s].dst # current
      BY <2>2, <1>2 DEF Receiving
    <2> QED
      BY <2>1, <2>2, <2>3, <1>4 DEF Receiving
  <1>13. NoLostRendezvous'
    <2> SUFFICES ASSUME NEW e \in Task, Receiving(e)', NEW s \in ToSet(senders[e])
                 PROVE  waitFor'[e] \notin {ANY, s}
      BY <1>1 DEF NoLostRendezvous
    <2>1. CASE e = current
      <3>1. PICK j \in DOMAIN senders[current] : s = senders[current][j]
        BY <2>1 DEF ToSet
      <3>2. src # ANY /\ src # s
        BY <3>1, <1>1
      <3> QED
        BY <2>1, <3>2, <1>3
    <2>2. CASE e # current
      BY <2>2, <1>4 DEF NoLostRendezvous, Receiving
    <2> QED
      BY <2>1, <2>2
  <1>14. IdleInv'
    BY <1>1, <1>2, <1>3, <1>4, ConstantFacts DEF IdleInv
  <1>15. PcInv'
    BY <1>2, <1>3, <1>4 DEF PcInv
  <1>16. ReadInv'
    BY <1>1, <1>2, <1>3, <1>4 DEF ReadInv
  <1>17. WaitInv'
    BY <1>3, <1>4, <1>5 DEF WaitInv, Receiving
  <1>18. ServerInv'
    BY <1>1, <1>3, <1>4, <1>9 DEF ServerInv, Sending
  <1>19. SendInv'
    BY <1>1, <1>3, <1>4, <1>9 DEF SendInv, Sending
  <1>20. TellInv' /\ ExitInv'
    BY <1>2, <1>4, <1>6 DEF TellInv, ExitInv
  <1>21. DeliveredStep /\ DeadStep
    BY <1>1, <1>4 DEF DeliveredStep, DeadStep, CurrentInv
  <1> QED
    BY <1>6, <1>7, <1>8, <1>11, <1>12, <1>13, <1>14, <1>15, <1>16, <1>17, <1>18, <1>19, <1>20,
       <1>21 DEF StepOK

(* ipc_receive when somebody it accepts is queued: that sender is resumed, *)
(* and nobody else may send to this task.                                  *)
LEMMA ReceivePickStep ==
    ASSUME IInv, fault = "none", NEW src \in Task \cup {ANY}, pc[current] \in {"user", "callrecv"},
           ReceivePick(src), out' \in [Task -> Out], \A t \in Task \ {current} : out'[t] = out[t],
           UNCHANGED <<name, destroyed, message, shared>>
    PROVE  StepOK
  <1> USE DEF IInv
  <1>1. /\ current \in Task /\ current # Idle /\ state[current] = "runnable"
        /\ current \notin ToSet(runq) /\ runq \in Seq(Task) /\ IsInjective(runq)
        /\ pc[Idle] \in {"boot", "idle"} /\ state[Idle] = "runnable"
        /\ \A t \in Task \ {current} : pc[t] \notin {"callrecv", "exitsw", "tell"}
    BY RunningFacts
  <1>2. PICK j \in DOMAIN senders[current] :
        LET s == senders[current][j] IN
        IF OnRunq(s) THEN TRUE
        ELSE /\ senders' = [senders EXCEPT ![current] = RemoveAt(@, j)]
             /\ Wait(s, [state EXCEPT ![s] = "runnable"], Append(runq, s))
             /\ fault' = fault
    BY DEF ReceivePick
  <1> DEFINE s == senders[current][j]
  <1>3. s \in ToSet(senders[current])
    BY DEF ToSet
  <1>4. s \in Task /\ s # current /\ s # Idle /\ state[s] = "blocked" /\ Sending(s) /\ out[s].dst = current
    <2>1. senders[current] \in Seq(Task)
      BY <1>1 DEF TypeOK
    <2>2. ToSet(senders[current]) \subseteq Task
      BY <2>1, ElementsSeq
    <2>3. s \in Task
      BY <1>3, <2>2
    <2> QED
      BY <1>1, <1>3, <2>3 DEF SendersExact
  <1>5. s \notin ToSet(runq)
    BY <1>4 DEF RunQueueExact
  <1> HIDE DEF s
  <1>6. /\ senders' = [senders EXCEPT ![current] = RemoveAt(@, j)]
        /\ waitFor' = [waitFor EXCEPT ![current] = s]
        /\ state' = [[state EXCEPT ![s] = "runnable"] EXCEPT ![current] = "blocked"]
        /\ pc' = [pc EXCEPT ![current] = "recv"]
        /\ Switch(Append(runq, s), state')
        /\ fault' = fault
    BY <1>2, <1>5 DEF s, OnRunq, Wait
  <1>7. state'[current] = "blocked" /\ pc'[current] = "recv" /\ waitFor'[current] = s
    BY <1>1, <1>6 DEF TypeOK
  <1>8. /\ \A t \in Task \ {current} : pc'[t] = pc[t] /\ out'[t] = out[t] /\ waitFor'[t] = waitFor[t]
        /\ \A t \in Task \ {current, s} : state'[t] = state[t]
        /\ state'[s] = "runnable"
    BY <1>4, <1>6 DEF TypeOK
  <1>9. "recv" \notin SendPc /\ s # DENY /\ s # ANY
    BY <1>4, ConstantFacts DEF SendPc, ANY, DENY
  <1>10. pc[s] \in SendPc /\ pc'[s] \in SendPc /\ pc[s] # "dead" /\ pc[s] # "recv"
    BY <1>4, <1>8 DEF Sending, SendPc
  <1>11. /\ runq' \in Seq(Task) /\ current' \in Task /\ RunQueueExact' /\ CurrentInv'
         /\ current' # current
    <2> DEFINE rq == Append(runq, s)
    <2>1. rq \in Seq(Task) /\ IsInjective(rq) /\ ToSet(rq) = ToSet(runq) \cup {s} /\ rq # <<>>
      BY <1>1, <1>4, <1>5, PushSeq
    <2>2. Switch(rq, state')
      BY <1>6
    <2> HIDE DEF rq
    <2>3. \A t : t \in ToSet(rq) <=>
            t \in Task \ {Idle} /\ state'[t] = "runnable" /\ pc'[t] # "dead"
      BY <2>1, <1>1, <1>4, <1>7, <1>8, <1>10 DEF RunQueueExact
    <2>4. state'[Idle] = "runnable" /\ pc'[Idle] # "dead"
      BY <1>1, <1>4, <1>8, ConstantFacts
    <2>5. ToSet(rq) = {t \in Task \ {Idle} : state'[t] = "runnable" /\ pc'[t] # "dead"}
      BY <2>3
    <2>6. current \notin ToSet(rq)
      BY <2>1, <1>1, <1>4
    <2> QED
      BY <2>1, <2>2, <2>4, <2>5, <2>6, <1>1, SwitchLemma
  <1>12. /\ senders'[current] \in Seq(Task) /\ IsInjective(senders'[current])
         /\ ToSet(senders'[current]) = ToSet(senders[current]) \ {s}
         /\ \A e \in Task \ {current} : senders'[e] = senders[e]
    <2>1. senders[current] \in Seq(Task) /\ IsInjective(senders[current])
      BY <1>1 DEF TypeOK, SendersExact
    <2>2. senders'[current] = RemoveAt(senders[current], j)
          /\ \A e \in Task \ {current} : senders'[e] = senders[e]
      BY <1>1, <1>6 DEF TypeOK
    <2> QED
      BY <2>1, <2>2, RemoveSeq DEF s
  <1>13. TypeOK'
    <2>1. senders' \in [Task -> Seq(Task)]
      BY <1>6, <1>12 DEF TypeOK
    <2> QED
      BY <1>4, <1>6, <1>11, <2>1 DEF TypeOK, Pc, States
  <1>14. OnlyExpectedFaults'
    BY <1>6 DEF OnlyExpectedFaults
  <1>15. pc'[current] \notin SendPc /\ \A t \in Task \ {current} : Sending(t)' <=> Sending(t)
    BY <1>7, <1>8, <1>9 DEF Sending
  <1>16. ~Sending(current)
    BY DEF Sending, SendPc
  <1>17. SendersExact'
    <2>1. \A e \in Task : IsInjective(senders'[e])
      BY <1>12 DEF SendersExact
    <2>2. ASSUME NEW x \in Task, NEW e \in Task
          PROVE  x \in ToSet(senders'[e]) <=> state'[x] = "blocked" /\ Sending(x)' /\ out'[x].dst = e
      <3>1. CASE x = current
        BY <3>1, <1>1, <1>7, <1>12, <1>15 DEF SendersExact, Sending
      <3>2. CASE x = s
        BY <3>2, <1>4, <1>8, <1>12 DEF SendersExact
      <3>3. CASE x \notin {current, s}
        BY <3>3, <1>8, <1>12, <1>15 DEF SendersExact
      <3> QED
        BY <3>1, <3>2, <3>3
    <2> QED
      BY <2>1, <2>2 DEF SendersExact
  <1>18. Handshake'
    <2> SUFFICES ASSUME NEW x \in Task, Picked(x)'
                 PROVE  (Receiving(out[x].dst) /\ waitFor[out[x].dst] = x)'
      BY DEF Handshake
    <2>1. x # current /\ out'[x] = out[x]
      BY <1>7, <1>8 DEF Picked
    <2>2. CASE x = s
      BY <2>1, <2>2, <1>4, <1>7 DEF Receiving
    <2>3. CASE x # s
      <3>1. Picked(x)
        BY <2>1, <2>3, <1>8 DEF Picked, Sending
      <3>2. out[x].dst \in Task /\ Receiving(out[x].dst) /\ waitFor[out[x].dst] = x
        BY <3>1 DEF Handshake, SendInv, Picked
      <3>3. out[x].dst # current /\ out[x].dst # s
        BY <3>2, <1>1, <1>10 DEF Receiving
      <3> QED
        BY <2>1, <3>2, <3>3, <1>8 DEF Receiving
    <2> QED
      BY <2>2, <2>3
  <1>19. NoLostRendezvous'
    <2> SUFFICES ASSUME NEW e \in Task, Receiving(e)', NEW x \in ToSet(senders'[e])
                 PROVE  waitFor'[e] \notin {ANY, x}
      BY DEF NoLostRendezvous
    <2>1. CASE e = current
      BY <2>1, <1>7, <1>9, <1>12
    <2>2. CASE e # current
      BY <2>2, <1>8, <1>10, <1>12 DEF NoLostRendezvous, Receiving
    <2> QED
      BY <2>1, <2>2
  <1>20. IdleInv'
    BY <1>1, <1>4, <1>7, <1>8, ConstantFacts DEF IdleInv
  <1>21. PcInv'
    BY <1>1, <1>7, <1>8, <1>10 DEF PcInv
  <1>22. ReadInv'
    BY <1>1, <1>4, <1>7, <1>8, <1>10 DEF ReadInv
  <1>23. WaitInv'
    BY <1>7, <1>8, <1>9, <1>10 DEF WaitInv, Receiving
  <1>24. ServerInv'
    BY <1>4, <1>7, <1>8, <1>15 DEF ServerInv, Sending
  <1>25. SendInv'
    BY <1>7, <1>8, <1>15 DEF SendInv, Sending
  <1>26. TellInv' /\ ExitInv'
    BY <1>1, <1>8, <1>11 DEF TellInv, ExitInv
  <1>27. DeliveredStep /\ DeadStep
    BY <1>8 DEF DeliveredStep, DeadStep, CurrentInv
  <1> QED
    BY <1>11, <1>13, <1>14, <1>17, <1>18, <1>19, <1>20, <1>21, <1>22, <1>23, <1>24, <1>25,
       <1>26, <1>27 DEF StepOK

----------------------------------------------------------------------------
(* Ipc: one lemma for each action of Spec                                  *)

\* The two kinds of ipc_send that well-behaved programs make.
ToServer(n, k) ==
    /\ n \in Servers /\ ~NotFound(n) /\ ~Lookup(n, current)
    /\ name[current] \in Servers => waitFor[current] = DENY /\ k # "exit"
ToWaiting(n) == \E d \in Task \ {current} : Lookup(n, d) /\ Ready(d) /\ pc[d] = "recv"

(* Such a send finds one receiver, which is not the sender.                *)
LEMMA SendFinds ==
    ASSUME current \in Task, NEW n, NEW k, ToServer(n, k) \/ ToWaiting(n)
    PROVE  ~SendPanic(n)
  <1>1. CASE ToServer(n, k)
    BY <1>1 DEF ToServer, SendPanic
  <1>2. CASE ToWaiting(n)
    <2>1. PICK d \in Task \ {current} : Lookup(n, d)
      BY <1>2 DEF ToWaiting
    <2>2. ~Lookup(n, current)
      BY <2>1, LookupUnique
    <2> QED
      BY <2>1, <2>2 DEF SendPanic, Lookup, NotFound
  <1> QED
    BY <1>1, <1>2

(* What ipc_send takes for a receiver is one, not a task blocked in        *)
(* ipc_send itself.                                                        *)
LEMMA ReadyReceives ==
    ASSUME IInv, current \in Task, NEW n, NEW k, ToServer(n, k) \/ ToWaiting(n),
           NEW d \in Task \ {current}, Lookup(n, d), Ready(d)
    PROVE  pc[d] = "recv"
  <1>1. CASE ToServer(n, k)
    <2>1. name[d] \in Servers /\ state[d] = "blocked" /\ waitFor[d] \in {ANY, current}
      BY <1>1 DEF ToServer, Lookup, Ready
    <2>2. waitFor[d] # DENY
      <3>1. Task \subseteq Nat
        BY ConstantFacts
      <3>2. waitFor[d] \in Nat
        BY <2>1, <3>1 DEF ANY
      <3> QED
        BY <3>2 DEF DENY
    <2>3. ~Sending(d)
      BY <2>1, <2>2 DEF IInv, ServerInv
    <2> QED
      BY <2>1, <2>3 DEF IInv, PcInv, Sending
  <1>2. CASE ToWaiting(n)
    BY <1>2, LookupUnique DEF ToWaiting
  <1> QED
    BY <1>1, <1>2

(* The vm server is always there to be told of an exit.                    *)
LEMMA VmServes ==
    ASSUME IInv, name[current] \notin Servers
    PROVE  ToServer("vm", "exit")
  <1>1. PICK t \in Booted : BootNames[t - 1] = "vm"
    BY ConstantFacts
  <1>2. name[t] = "vm" /\ t \in Task
    BY <1>1, ConstantFacts DEF IInv, ServerInv
  <1> QED
    BY <1>2, ConstantFacts DEF ToServer, NotFound, Lookup

(* ipc_send up to its task_switch or its return keeps the invariant.       *)
LEMMA SendStep ==
    ASSUME IInv, fault = "none", NEW n \in Names, NEW b \in Body, NEW k \in SendPc,
           pc[current] \in {"user", "tell"}, k = "exit" => name[current] \notin Servers,
           ToServer(n, k) \/ ToWaiting(n),
           ipc_send(n, b, k), destroyed' \in [Task -> BOOLEAN]
    PROVE  StepOK
  <1>0. current \in Task /\ name[current] \in Names
    BY RunningFacts
  <1>1. ~SendPanic(n)
    BY <1>0, SendFinds
  <1>2. CASE SendReady(n, b, k)
    <2>1. PICK d \in Task \ {current} :
            /\ Lookup(n, d) /\ Ready(d) /\ Deliver(d, b)
            /\ pc' = [pc EXCEPT ![current] = After(k)]
            /\ out' = [out EXCEPT ![current] =
                          IF k = "call" THEN [dst |-> d, to |-> n, body |-> b] ELSE NoOut]
            /\ UNCHANGED <<current, name, waitFor, senders, shared>>
      BY <1>2 DEF SendReady
    <2>2. pc[d] = "recv"
      BY <1>0, <2>1, ReadyReceives
    <2>3. out' \in [Task -> Out] /\ \A t \in Task \ {current} : out'[t] = out[t]
      <3>1. (IF k = "call" THEN [dst |-> d, to |-> n, body |-> b] ELSE NoOut) \in Out
        BY BodyFacts
      <3> QED
        BY <2>1, <3>1 DEF IInv, TypeOK
    <2>4. Receiving(d) /\ waitFor[d] \in {ANY, current}
      BY <2>1, <2>2 DEF Receiving, Ready
    <2>5. pc[current] \in SendPc \cup {"user", "tell"}
      OBVIOUS
    <2> QED
      BY <1>0, <2>1, <2>3, <2>4, <2>5, DeliverStep
  <1>3. CASE SendQueue(n, b, k)
    <2>1. CASE ToServer(n, k)
      BY <1>3, <2>1, QueueStep DEF ToServer
    <2>2. CASE ToWaiting(n)
      BY <1>3, <2>2, LookupUnique DEF ToWaiting, SendQueue
    <2> QED
      BY <2>1, <2>2
  <1> QED
    BY <1>1, <1>2, <1>3 DEF ipc_send

(* A well-behaved send is to a server or to a task that waits for it.      *)
LEMMA MaySendFacts ==
    ASSUME NEW n, NEW k, MaySend(n), current \in Task, k # "exit"
    PROVE  ToServer(n, k) \/ ToWaiting(n)
  <1>1. PICK d \in Task \ {current} :
        /\ Lookup(n, d)
        /\ \/ n \in Servers /\ (name[current] \in Servers => waitFor[current] = DENY)
           \/ Ready(d) /\ pc[d] = "recv"
    BY DEF MaySend
  <1>2. ~Lookup(n, current) /\ ~NotFound(n)
    <2>1. ~Lookup(n, current)
      BY <1>1, LookupUnique
    <2> QED
      BY <1>1, <2>1 DEF Lookup, NotFound
  <1> QED
    BY <1>1, <1>2 DEF ToServer, ToWaiting

(* What ipc_send does after its task_switch keeps the invariant.           *)
LEMMA ResumeSendStep ==
    ASSUME IInv, ResumeSend
    PROVE  StepOK
  <1>1. PICK k \in SendPc :
        /\ Running(k)
        /\ Deliver(out[current].dst, out[current].body)
        /\ pc' = [pc EXCEPT ![current] = After(k)]
        /\ out' = IF k = "call" THEN out ELSE [out EXCEPT ![current] = NoOut]
        /\ UNCHANGED <<current, name, destroyed, waitFor, senders, shared>>
    BY DEF ResumeSend
  <1>2. fault = "none" /\ pc[current] = k
    BY <1>1 DEF Running
  <1>3. current \in Task /\ state[current] = "runnable" /\ name[current] \in Names
    BY <1>2, RunningFacts
  <1>4. Sending(current) /\ Picked(current)
    BY <1>2, <1>3 DEF Sending, Picked
  <1>5. Receiving(out[current].dst) /\ waitFor[out[current].dst] = current
    BY <1>3, <1>4 DEF IInv, Handshake
  <1>6. out[current].dst \in Task \ {current} /\ out[current].body \in Body
    BY <1>3, <1>4 DEF IInv, SendInv
  <1>7. out' \in [Task -> Out] /\ \A t \in Task \ {current} : out'[t] = out[t]
    BY <1>1, BodyFacts DEF IInv, TypeOK
  <1>8. k = "exit" => name[current] \notin Servers
    BY <1>2, <1>3 DEF IInv, ServerInv
  <1>9. destroyed' \in [Task -> BOOLEAN]
    BY <1>1 DEF IInv, TypeOK
  <1> QED
    BY <1>1, <1>2, <1>3, <1>5, <1>6, <1>7, <1>8, <1>9, DeliverStep

(* ipc_receive up to its task_switch, whether it finds a sender or not.    *)
LEMMA ReceiveStep ==
    ASSUME IInv, fault = "none", NEW src \in Task \cup {ANY}, pc[current] \in {"user", "callrecv"},
           ipc_receive(src), out' \in [Task -> Out], \A t \in Task \ {current} : out'[t] = out[t]
    PROVE  StepOK
  BY ReceivePickStep, ReceiveNoneStep DEF ipc_receive

(* ipc_call between its send and its receive.                              *)
LEMMA CallReceiveStep ==
    ASSUME IInv, CallReceive
    PROVE  StepOK
  <1>1. fault = "none" /\ pc[current] = "callrecv"
    BY DEF CallReceive, Running
  <1>2. out' \in [Task -> Out] /\ \A t \in Task \ {current} : out'[t] = out[t]
    BY BodyFacts DEF CallReceive, IInv, TypeOK
  <1>3. \E src \in Task \cup {ANY} : ipc_receive(src)
    BY DEF CallReceive
  <1> QED
    BY <1>1, <1>2, <1>3, ReceiveStep

(* ipc_receive after its task_switch.                                      *)
LEMMA FinishReceiveStep ==
    ASSUME IInv, FinishReceive
    PROVE  StepOK
  <1> USE DEF IInv
  <1>1. /\ fault = "none" /\ pc[current] = "recv"
        /\ waitFor' = [waitFor EXCEPT ![current] = DENY]
        /\ message' = [message EXCEPT ![current] = NoMsg]
        /\ pc' = [pc EXCEPT ![current] = "user"]
        /\ UNCHANGED <<current, state, name, destroyed, senders, shared, runq, out, fault>>
    BY DEF FinishReceive, Running
  <1>2. current \in Task /\ current # Idle /\ state[current] = "runnable"
    BY <1>1, RunningFacts
  <1>3. pc'[current] = "user" /\ waitFor'[current] = DENY /\ message'[current] = NoMsg
    BY <1>1, <1>2 DEF TypeOK
  <1>4. \A t \in Task \ {current} :
            pc'[t] = pc[t] /\ waitFor'[t] = waitFor[t] /\ message'[t] = message[t]
    BY <1>1 DEF TypeOK
  <1>5. \A t \in Task : Sending(t)' <=> Sending(t)
    BY <1>1, <1>3, <1>4 DEF Sending, SendPc
  <1>6. \A t \in Task : Receiving(t)' <=> Receiving(t)
    BY <1>1, <1>2, <1>3, <1>4 DEF Receiving
  <1>7. TypeOK'
    BY <1>1, BodyFacts DEF TypeOK, Pc
  <1>8. OnlyExpectedFaults' /\ CurrentInv' /\ SendersExact'
    BY <1>1, <1>3, <1>5 DEF OnlyExpectedFaults, CurrentInv, SendersExact
  <1>9. RunQueueExact'
    BY <1>1, <1>3, <1>4 DEF RunQueueExact
  <1>10. Handshake'
    <2> SUFFICES ASSUME NEW s \in Task, Picked(s)'
                 PROVE  (Receiving(out[s].dst) /\ waitFor[out[s].dst] = s)'
      BY DEF Handshake
    <2>1. out[s].dst \in Task /\ Receiving(out[s].dst) /\ waitFor[out[s].dst] = s
      BY <1>1, <1>5 DEF Handshake, SendInv, Picked
    <2>2. out[s].dst # current
      BY <2>1, <1>2 DEF Receiving
    <2> QED
      BY <2>1, <2>2, <1>1, <1>4 DEF Receiving
  <1>11. NoLostRendezvous'
    BY <1>1, <1>2, <1>4, <1>6 DEF NoLostRendezvous, Receiving
  <1>12. IdleInv'
    BY <1>1, <1>2, <1>3, <1>4, ConstantFacts DEF IdleInv
  <1>13. PcInv'
    BY <1>1, <1>2, <1>3, <1>4 DEF PcInv
  <1>14. ReadInv'
    BY <1>1, <1>2, <1>3, <1>4 DEF ReadInv
  <1>15. WaitInv'
    BY <1>1, <1>2, <1>4, <1>6 DEF WaitInv, Receiving
  <1>16. ServerInv'
    BY <1>1, <1>3, <1>4, <1>5 DEF ServerInv
  <1>17. SendInv'
    BY <1>1, <1>5 DEF SendInv
  <1>18. TellInv' /\ ExitInv'
    BY <1>1, <1>3 DEF TellInv, ExitInv
  <1>19. DeliveredStep /\ DeadStep
    BY <1>1, <1>3, <1>4 DEF DeliveredStep, DeadStep
  <1> QED
    BY <1>7, <1>8, <1>9, <1>10, <1>11, <1>12, <1>13, <1>14, <1>15, <1>16, <1>17, <1>18, <1>19
       DEF StepOK

(* A task that leaves the CPU without blocking: the idle task in           *)
(* kernel_main, and an exiting task for good.                              *)
LEMMA LeaveStep ==
    ASSUME IInv, fault = "none", NEW x \in {"idle", "dead"},
           x = "idle" => current = Idle,
           x = "dead" => pc[current] = "exitsw",
           pc' = [pc EXCEPT ![current] = x], Switch(runq, state),
           UNCHANGED <<state, name, destroyed, waitFor, senders, message, shared, out, fault>>
    PROVE  StepOK
  <1> USE DEF IInv
  <1>1. /\ current \in Task /\ state[current] = "runnable" /\ current \notin ToSet(runq)
        /\ runq \in Seq(Task) /\ IsInjective(runq)
    BY DEF TypeOK, CurrentInv, RunQueueExact
  <1>2. pc'[current] = x /\ \A t \in Task \ {current} : pc'[t] = pc[t]
    BY <1>1 DEF TypeOK
  <1>3. pc[current] \in {"boot", "idle", "exitsw"}
    BY DEF IdleInv
  <1>4. x = "dead" => current # Idle /\ name[current] \notin Servers
    BY <1>1 DEF IdleInv, ServerInv
  <1>5. /\ runq' \in Seq(Task) /\ current' \in Task /\ RunQueueExact' /\ CurrentInv'
        /\ current' \in ToSet(runq) \cup {Idle}
    <2>1. \A t : t \in ToSet(runq) <=>
            t \in Task \ {Idle} /\ state'[t] = "runnable" /\ pc'[t] # "dead"
      BY <1>1, <1>2 DEF RunQueueExact
    <2>2. state'[Idle] = "runnable" /\ pc'[Idle] # "dead"
      BY <1>2, <1>4, ConstantFacts DEF IdleInv
    <2>3. ToSet(runq) = {t \in Task \ {Idle} : state'[t] = "runnable" /\ pc'[t] # "dead"}
      BY <2>1
    <2>4. Switch(runq, state')
      BY DEF Switch
    <2>5. current = Idle \/ runq # <<>>
      BY DEF ExitInv
    <2> QED
      BY <1>1, <2>2, <2>3, <2>4, <2>5, SwitchLemma
  <1>6. \A t \in Task : Sending(t)' <=> Sending(t)
    BY <1>2, <1>3 DEF Sending, SendPc
  <1>7. \A t \in Task : Receiving(t)' <=> Receiving(t)
    BY <1>1, <1>2 DEF Receiving
  <1>8. TypeOK'
    BY <1>5 DEF TypeOK, Pc
  <1>9. OnlyExpectedFaults' /\ SendersExact'
    BY <1>6 DEF OnlyExpectedFaults, SendersExact
  <1>10. Handshake'
    <2> SUFFICES ASSUME NEW s \in Task, Picked(s)'
                 PROVE  (Receiving(out[s].dst) /\ waitFor[out[s].dst] = s)'
      BY DEF Handshake
    <2>1. out[s].dst \in Task /\ Receiving(out[s].dst) /\ waitFor[out[s].dst] = s
      BY <1>6 DEF Handshake, SendInv, Picked
    <2> QED
      BY <2>1, <1>7
  <1>11. NoLostRendezvous' /\ WaitInv'
    BY <1>7 DEF NoLostRendezvous, WaitInv
  <1>12. IdleInv'
    BY <1>1, <1>2, <1>4, ConstantFacts DEF IdleInv
  <1>13. \A t \in Task : pc'[t] \notin {"callrecv", "exitsw", "tell"}
    BY <1>2 DEF PcInv
  <1>14. PcInv'
    BY <1>1, <1>2, <1>13 DEF PcInv
  <1>15. ReadInv'
    BY <1>2, <1>3 DEF ReadInv
  <1>16. ServerInv'
    BY <1>1, <1>2, <1>4, <1>6, ConstantFacts DEF ServerInv, IdleInv
  <1>17. SendInv'
    BY <1>6 DEF SendInv
  <1>18. TellInv' /\ ExitInv'
    BY <1>5, <1>13 DEF TellInv, ExitInv
  <1>19. DeliveredStep /\ DeadStep
    BY <1>2, <1>3 DEF DeliveredStep, DeadStep
  <1> QED
    BY <1>5, <1>8, <1>9, <1>10, <1>11, <1>12, <1>14, <1>15, <1>16, <1>17, <1>18, <1>19
       DEF StepOK

(* The last task_switch of task_exit.                                      *)
LEMMA FinishExitStep ==
    ASSUME IInv, FinishExit
    PROVE  StepOK
  <1>1. pc[current] # "dead"
    BY DEF IInv, CurrentInv
  <1> QED
    BY <1>1, LeaveStep DEF FinishExit

(* The first task_switch, of the idle task.                                *)
LEMMA BootSwitchStep ==
    ASSUME IInv, BootSwitch
    PROVE  StepOK
  <1>1. current = Idle
    BY DEF BootSwitch, Running, IInv, IdleInv, TypeOK
  <1> QED
    BY <1>1, LeaveStep DEF BootSwitch, Running

(* Steps that touch none of what the invariant is about: a PANIC of those  *)
(* that well-behaved programs can meet, and the shared buffer.             *)
LEMMA QuietStep ==
    ASSUME IInv, fault' \in {fault, "switched to idle task", "no free task slots"},
           shared' \in [Task -> {"null", "own", "stale"}],
           UNCHANGED <<current, state, name, destroyed, waitFor, senders, message, runq, pc, out>>
    PROVE  StepOK
  <1> USE DEF IInv
  <1>1. TypeOK' /\ OnlyExpectedFaults'
    BY DEF TypeOK, OnlyExpectedFaults, Faults
  <1>2. \A t \in Task : (Sending(t)' <=> Sending(t)) /\ (Receiving(t)' <=> Receiving(t))
                     /\ (Picked(t)' <=> Picked(t))
    BY DEF Sending, Receiving, Picked
  <1>3. RunQueueExact'
    BY DEF RunQueueExact
  <1>4. SendersExact'
    BY <1>2 DEF SendersExact
  <1>5. Handshake'
    BY <1>2 DEF Handshake, SendInv, Picked
  <1>6. NoLostRendezvous'
    BY <1>2 DEF NoLostRendezvous
  <1>7. CurrentInv' /\ IdleInv' /\ PcInv' /\ ReadInv' /\ WaitInv'
    BY <1>2 DEF CurrentInv, IdleInv, PcInv, ReadInv, WaitInv
  <1>8. ServerInv' /\ SendInv' /\ TellInv' /\ ExitInv'
    BY <1>2 DEF ServerInv, SendInv, TellInv, ExitInv, Lookup, Ready
  <1>9. DeliveredStep /\ DeadStep
    BY DEF DeliveredStep, DeadStep
  <1> QED
    BY <1>1, <1>3, <1>4, <1>5, <1>6, <1>7, <1>8, <1>9 DEF StepOK

(* ipc_share_buffer and ipc_copy.                                          *)
LEMMA BufferStep ==
    ASSUME IInv, \/ ipc_share_buffer
                 \/ \E n \in Names : (\E d \in Task : Lookup(n, d) /\ shared[d] = "own") /\ ipc_copy(n)
    PROVE  StepOK
  <1>1. CASE ipc_share_buffer
    BY <1>1, QuietStep DEF ipc_share_buffer, IInv, TypeOK
  <1>2. CASE \E n \in Names : (\E d \in Task : Lookup(n, d) /\ shared[d] = "own") /\ ipc_copy(n)
    <2>1. PICK n \in Names, d \in Task : Lookup(n, d) /\ shared[d] = "own" /\ ipc_copy(n)
      BY <1>2
    <2>2. ~NotFound(n)
      BY <2>1 DEF Lookup, NotFound
    <2>3. PICK e \in Task :
            /\ Lookup(n, e)
            /\ CASE shared[e] = "null"  -> Panic("no shared buffer")
                 [] shared[e] = "own"   -> UNCHANGED vars
                 [] shared[e] = "stale" -> Panic("stale buffer")
      BY <2>1, <2>2 DEF ipc_copy
    <2>4. e = d
      BY <2>1, <2>3, LookupUnique
    <2>5. UNCHANGED vars
      BY <2>1, <2>3, <2>4
    <2> QED
      BY <2>5, QuietStep DEF vars, IInv, TypeOK
  <1> QED
    BY <1>1, <1>2

(* A free slot is of no task that somebody sends to, waits for or holds in *)
(* a queue.                                                                *)
LEMMA UnusedFacts ==
    ASSUME IInv, NEW t \in Task, state[t] = "unused" \/ pc[t] = "dead"
    PROVE  /\ t # Idle
           /\ state[t] # "blocked"
           /\ ~Sending(t) /\ ~Receiving(t)
           /\ ~OnSenders(t) /\ ~OnRunq(t)
           /\ name[t] \notin Servers
           /\ \A s \in Task : Sending(s) => out[s].dst # t
           /\ senders[t] = <<>>
           /\ pc[t] \in {"user", "dead"}
           /\ t # current
  <1> USE DEF IInv
  <1>1. t # Idle /\ t # current
    BY DEF IdleInv, CurrentInv
  <1>2. state[t] # "blocked" /\ pc[t] \in {"user", "dead"}
    BY DEF PcInv, SendPc
  <1>3. ~Sending(t) /\ ~Receiving(t) /\ ~OnSenders(t) /\ ~OnRunq(t)
    BY <1>2 DEF Sending, SendPc, Receiving, OnSenders, OnRunq, SendersExact, RunQueueExact
  <1>4. name[t] \notin Servers
    BY DEF ServerInv
  <1>5. \A s \in Task : Sending(s) => out[s].dst # t
    BY <1>4 DEF SendInv
  <1>6. senders[t] = <<>>
    <2>1. senders[t] \in Seq(Task)
      BY DEF TypeOK
    <2>2. SUFFICES ASSUME senders[t] # <<>> PROVE FALSE
      OBVIOUS
    <2>3. Last(senders[t]) \in ToSet(senders[t]) /\ ToSet(senders[t]) \subseteq Task
      BY <2>1, <2>2, EmptyList, ElementsSeq
    <2> QED
      BY <2>3, <1>5 DEF SendersExact
  <1> QED
    BY <1>1, <1>2, <1>3, <1>4, <1>5, <1>6

(* vm_create, with a new slot or a used one.                               *)
LEMMA VmCreateStep ==
    ASSUME IInv, fault = "none", pc[current] = "user", NEW n \in Names \ Servers, VmCreate(n)
    PROVE  StepOK
  <1> USE DEF IInv
  <1>1. PICK t \in Task :
        /\ state[t] = "unused"
        /\ name' = [name EXCEPT ![t] = n]
        /\ senders' = [senders EXCEPT ![t] = <<>>]
        /\ state' = [state EXCEPT ![t] = "runnable"]
        /\ pc' = [pc EXCEPT ![t] = "user"]
        /\ out' = [out EXCEPT ![t] = NoOut]
        /\ IF OnSenders(t) \/ senders[t] # <<>> \/ OnRunq(t)
           THEN fault' = "relinked" /\ runq' = runq
           ELSE Push(t)
        /\ UNCHANGED <<current, destroyed, waitFor, message, shared>>
    BY DEF VmCreate, FreeSlot
  <1>2. /\ t # Idle /\ t # current /\ ~Sending(t) /\ ~Receiving(t) /\ ~OnSenders(t) /\ ~OnRunq(t)
        /\ name[t] \notin Servers /\ (\A s \in Task : Sending(s) => out[s].dst # t)
        /\ senders[t] = <<>> /\ pc[t] \in {"user", "dead"}
    BY <1>1, UnusedFacts
  <1>3. /\ current \in Task /\ current # Idle /\ runq \in Seq(Task) /\ IsInjective(runq)
    BY RunningFacts
  <1>4. senders' = senders
    BY <1>1, <1>2 DEF TypeOK
  <1>5. runq' = Append(runq, t) /\ fault' = fault
    BY <1>1, <1>2 DEF Push
  <1>6. runq' \in Seq(Task) /\ IsInjective(runq') /\ ToSet(runq') = ToSet(runq) \cup {t}
    BY <1>2, <1>3, <1>5, PushSeq DEF OnRunq
  <1>7. state'[t] = "runnable" /\ pc'[t] = "user" /\ name'[t] = n
    BY <1>1 DEF TypeOK
  <1>8. \A u \in Task \ {t} :
            state'[u] = state[u] /\ pc'[u] = pc[u] /\ name'[u] = name[u] /\ out'[u] = out[u]
    BY <1>1 DEF TypeOK
  <1>9. \A u \in Task : Sending(u)' <=> Sending(u)
    BY <1>2, <1>7, <1>8 DEF Sending, SendPc
  <1>10. \A u \in Task : Receiving(u)' <=> Receiving(u)
    BY <1>2, <1>7, <1>8 DEF Receiving
  <1>11. TypeOK'
    <2>1. pc' \in [Task -> Pc] /\ name' \in [Task -> Names \cup {""}]
      BY <1>1 DEF TypeOK, Pc
    <2>2. out' \in [Task -> Out] /\ state' \in [Task -> States]
      BY <1>1, BodyFacts DEF TypeOK, States
    <2> QED
      BY <1>1, <1>4, <1>5, <1>6, <2>1, <2>2 DEF TypeOK
  <1>12. OnlyExpectedFaults' /\ CurrentInv'
    BY <1>1, <1>2, <1>3, <1>5, <1>8 DEF OnlyExpectedFaults, CurrentInv
  <1>13. RunQueueExact'
    <2>1. \A u : u \in ToSet(runq') <=>
            u \in Task \ {current, Idle} /\ state'[u] = "runnable" /\ pc'[u] # "dead"
      BY <1>2, <1>6, <1>7, <1>8 DEF RunQueueExact
    <2> QED
      BY <2>1, <1>1, <1>6 DEF RunQueueExact
  <1>14. SendersExact'
    BY <1>2, <1>4, <1>8, <1>9 DEF SendersExact
  <1>15. Handshake'
    <2> SUFFICES ASSUME NEW s \in Task, Picked(s)'
                 PROVE  (Receiving(out[s].dst) /\ waitFor[out[s].dst] = s)'
      BY DEF Handshake
    <2>1. s # t /\ Picked(s) /\ out'[s] = out[s]
      BY <1>2, <1>8, <1>9 DEF Picked
    <2>2. out[s].dst \in Task /\ Receiving(out[s].dst) /\ waitFor[out[s].dst] = s
      BY <2>1 DEF Handshake, SendInv, Picked
    <2> QED
      BY <2>1, <2>2, <1>1, <1>10
  <1>16. NoLostRendezvous' /\ WaitInv'
    BY <1>1, <1>4, <1>10 DEF NoLostRendezvous, WaitInv
  <1>17. IdleInv'
    BY <1>2, <1>7, <1>8, ConstantFacts DEF IdleInv
  <1>18. PcInv' /\ ReadInv'
    BY <1>1, <1>2, <1>7, <1>8 DEF PcInv, ReadInv
  <1>19. ServerInv'
    <2>1. \A u \in Booted : BootNames[u - 1] \in Servers => u # t /\ u \in Task
      BY <1>2, ConstantFacts DEF ServerInv
    <2>2. \A u \in Task : name'[u] \in Servers => u # t
      BY <1>7
    <2> QED
      BY <2>1, <2>2, <1>1, <1>8, <1>9 DEF ServerInv
  <1>20. SendInv'
    BY <1>2, <1>8, <1>9 DEF SendInv
  <1>21. TellInv' /\ ExitInv'
    BY <1>1, <1>2, <1>3, <1>8 DEF TellInv, ExitInv
  <1>22. DeliveredStep /\ DeadStep
    BY <1>1, <1>8 DEF DeliveredStep, DeadStep
  <1> QED
    BY <1>11, <1>12, <1>13, <1>14, <1>15, <1>16, <1>17, <1>18, <1>19, <1>20, <1>21, <1>22
       DEF StepOK

(* task_destroy up to its ipc_send.                                        *)
LEMMA TaskDestroyStep ==
    ASSUME IInv, fault = "none", pc[current] = "user", NEW t \in Task, Done(t),
           name[t] = "shell" \/ MaySend("shell"), TaskDestroy(t)
    PROVE  StepOK
  <1> USE DEF IInv
  <1>1. /\ state' = [state EXCEPT ![t] = "unused"]
        /\ shared' = [shared EXCEPT ![t] = IF @ = "null" THEN @ ELSE "stale"]
        /\ \/ UNCHANGED <<pc, out>>
           \/ /\ name[t] # "shell"
              /\ pc' = [pc EXCEPT ![current] = "tell"]
              /\ out' = [out EXCEPT ![current] =
                            [dst |-> 0, to |-> "shell", body |-> DestroyMsg(t)]]
        /\ UNCHANGED <<current, name, destroyed, waitFor, senders, message, runq, fault>>
    BY DEF TaskDestroy
  <1>2. /\ pc[t] = "dead" /\ t # Idle /\ t # current /\ ~Sending(t) /\ ~Receiving(t)
        /\ name[t] \notin Servers /\ \A s \in Task : Sending(s) => out[s].dst # t
    BY UnusedFacts DEF Done
  <1>3. current \in Task /\ current # Idle /\ state[current] = "runnable"
    BY RunningFacts
  <1>4. state'[t] = "unused" /\ \A u \in Task \ {t} : state'[u] = state[u]
    BY <1>1 DEF TypeOK
  <1>5. \A u \in Task \ {current} : pc'[u] = pc[u] /\ out'[u] = out[u]
    BY <1>1 DEF TypeOK
  <1>6. /\ out' \in [Task -> Out]
        /\ \/ pc'[current] = "user"
           \/ /\ pc'[current] = "tell" /\ out'[current].to = "shell"
              /\ out'[current].body = DestroyMsg(t) /\ name[t] # "shell"
    <2>1. CASE UNCHANGED <<pc, out>>
      BY <2>1 DEF TypeOK
    <2>2. CASE /\ name[t] # "shell"
               /\ pc' = [pc EXCEPT ![current] = "tell"]
               /\ out' = [out EXCEPT ![current] =
                             [dst |-> 0, to |-> "shell", body |-> DestroyMsg(t)]]
      <3> DEFINE o == [dst |-> 0, to |-> "shell", body |-> DestroyMsg(t)]
      <3>1. o \in Out /\ o.to = "shell" /\ o.body = DestroyMsg(t)
        BY BodyFacts, ConstantFacts
      <3>2. out' = [out EXCEPT ![current] = o]
        BY <2>2
      <3> HIDE DEF o
      <3>3. out' \in [Task -> Out] /\ out'[current] = o /\ pc'[current] = "tell"
        BY <2>2, <3>1, <3>2, <1>3 DEF TypeOK
      <3> QED
        BY <2>2, <3>1, <3>3
    <2> QED
      BY <1>1, <2>1, <2>2
  <1>7. \A u \in Task : Sending(u)' <=> Sending(u)
    BY <1>5, <1>6 DEF Sending, SendPc
  <1>8. \A u \in Task : Receiving(u)' <=> Receiving(u)
    BY <1>2, <1>3, <1>4, <1>5, <1>6 DEF Receiving
  <1>9. TypeOK'
    <2>2. shared' \in [Task -> {"null", "own", "stale"}]
      BY <1>1 DEF TypeOK
    <2>3. pc' \in [Task -> Pc] /\ state' \in [Task -> States]
      BY <1>1 DEF TypeOK, Pc, States
    <2> QED
      BY <1>1, <1>6, <2>2, <2>3 DEF TypeOK
  <1>10. OnlyExpectedFaults' /\ CurrentInv'
    BY <1>1, <1>2, <1>3, <1>4, <1>6 DEF OnlyExpectedFaults, CurrentInv
  <1>11. RunQueueExact'
    BY <1>1, <1>2, <1>3, <1>4, <1>5 DEF RunQueueExact
  <1>12. SendersExact'
    <2>1. \A s \in Task : Sending(s) => state'[s] = state[s] /\ out'[s] = out[s]
      BY <1>2, <1>4, <1>5 DEF Sending, SendPc
    <2> QED
      BY <2>1, <1>1, <1>7 DEF SendersExact
  <1>13. Handshake'
    <2> SUFFICES ASSUME NEW s \in Task, Picked(s)'
                 PROVE  (Receiving(out[s].dst) /\ waitFor[out[s].dst] = s)'
      BY DEF Handshake
    <2>1. s # t /\ s # current /\ Picked(s) /\ out'[s] = out[s]
      BY <1>2, <1>4, <1>5, <1>7 DEF Picked, Sending, SendPc
    <2>2. out[s].dst \in Task /\ Receiving(out[s].dst) /\ waitFor[out[s].dst] = s
      BY <2>1 DEF Handshake, SendInv, Picked
    <2> QED
      BY <2>1, <2>2, <1>1, <1>8
  <1>14. NoLostRendezvous' /\ WaitInv'
    BY <1>1, <1>8 DEF NoLostRendezvous, WaitInv
  <1>15. IdleInv'
    BY <1>1, <1>2, <1>3, <1>4, <1>5, <1>6, ConstantFacts DEF IdleInv
  <1>16. PcInv' /\ ReadInv'
    BY <1>1, <1>2, <1>3, <1>4, <1>5, <1>6 DEF PcInv, ReadInv, SendPc
  <1>17. ServerInv'
    BY <1>1, <1>2, <1>4, <1>5, <1>6, <1>7 DEF ServerInv
  <1>18. SendInv'
    <2>1. \A s \in Task : Sending(s) => out'[s] = out[s]
      BY <1>5 DEF Sending, SendPc
    <2> QED
      BY <2>1, <1>1, <1>7 DEF SendInv
  <1>19. TellInv'
    <2> SUFFICES ASSUME pc'[current] = "tell" PROVE TellInv'
      BY <1>1 DEF TellInv
    <2>1. /\ out'[current].to = "shell" /\ out'[current].body \in Body /\ name[t] # "shell"
      BY <1>6, BodyFacts
    <2>2. PICK d \in Task \ {current} : Lookup("shell", d) /\ Ready(d) /\ pc[d] = "recv"
      BY <2>1, ConstantFacts DEF MaySend
    <2>3. d # t
      BY <2>2, <1>2
    <2>4. (Lookup("shell", d) /\ Ready(d) /\ pc[d] = "recv")'
      BY <2>2, <2>3, <1>1, <1>4, <1>5 DEF Lookup, Ready
    <2> QED
      BY <2>1, <2>4, <1>1 DEF TellInv
  <1>20. ExitInv'
    BY <1>1, <1>6 DEF ExitInv
  <1>21. DeliveredStep /\ DeadStep
    BY <1>1, <1>5, <1>6 DEF DeliveredStep, DeadStep, CurrentInv
  <1> QED
    BY <1>9, <1>10, <1>11, <1>12, <1>13, <1>14, <1>15, <1>16, <1>17, <1>18, <1>19, <1>20, <1>21
       DEF StepOK

(* The ipc_send of task_destroy.                                           *)
LEMMA TellShellStep ==
    ASSUME IInv, TellShell
    PROVE  StepOK
  <1>1. /\ fault = "none" /\ pc[current] = "tell"
        /\ ipc_send("shell", out[current].body, "send") /\ UNCHANGED destroyed
    BY DEF TellShell, Running
  <1>2. out[current].body \in Body /\ ToWaiting("shell")
    BY <1>1 DEF IInv, TellInv, ToWaiting
  <1>3. "shell" \in Names /\ "send" \in SendPc /\ destroyed' \in [Task -> BOOLEAN]
    BY <1>1, ConstantFacts DEF SendPc, IInv, TypeOK
  <1> QED
    BY <1>1, <1>2, <1>3, SendStep

----------------------------------------------------------------------------
(* Ipc: the theorems                                                       *)

(* The invariant holds after task_init and the creation of the boot tasks. *)
LEMMA InitInv == Init => IInv
  <1> SUFFICES ASSUME Init PROVE IInv
    OBVIOUS
  <1> DEFINE n == Len(BootNames)
  <1>1. n \in Nat /\ Booted = 2..(n + 1)
    BY BootAssumption, ElementsSeq DEF BootAssumption, Booted
  <1>2. runq = [j \in 1..n |-> j + 1]
    BY DEF Init
  <1> HIDE DEF n
  <1>3. runq \in Seq(Task) /\ Len(runq) = n /\ \A j \in 1..n : runq[j] = j + 1
    <2>1. \A j \in 1..n : j + 1 \in Task
      <3>1. \A j \in 1..n : j + 1 \in Booted
        BY <1>1
      <3> QED
        BY <3>1, ConstantFacts
    <2> QED
      BY <1>1, <1>2, <2>1
  <1>4. IsInjective(runq)
    BY <1>1, <1>3, ElementsSeq DEF IsInjective
  <1>5. ToSet(runq) = Booted
    <2>1. \A x : x \in ToSet(runq) <=> \E j \in 1..n : x = j + 1
      BY <1>3, ElementsSeq
    <2>2. \A x \in Booted : x - 1 \in 1..n /\ x = (x - 1) + 1
      BY <1>1
    <2>3. \A j \in 1..n : j + 1 \in Booted
      BY <1>1
    <2> QED
      BY <2>1, <2>2, <2>3
  <1>6. /\ Idle \in Task /\ Idle \notin Booted /\ Booted \subseteq Task
    BY ConstantFacts
  <1>7. \A t \in Task : /\ state[t] \in {"runnable", "unused"}
                        /\ state[t] = "runnable" <=> t \in Booted \cup {Idle}
                        /\ pc[t] \in {"boot", "user"}
                        /\ pc[t] = "boot" <=> t = Idle
                        /\ t \in Booted => name[t] = BootNames[t - 1]
                        /\ t \notin Booted => name[t] = ""
                        /\ senders[t] = <<>> /\ message[t] = NoMsg
    BY <1>6 DEF Init
  <1>8. \A t \in Task : ~Sending(t) /\ ~Receiving(t)
    BY <1>7 DEF Sending, SendPc, Receiving
  <1>9. current = Idle /\ fault = "none"
    BY DEF Init
  <1>10. TypeOK
    <2>1. name \in [Task -> Names \cup {""}]
      BY ConstantFacts DEF Init
    <2>2. senders \in [Task -> Seq(Task)] /\ waitFor \in [Task -> Task \cup {ANY, DENY}]
      <3>1. <<>> \in Seq(Task)
        BY EmptyList
      <3> QED
        BY <3>1 DEF Init
    <2>3. message \in [Task -> Message] /\ out \in [Task -> Out]
      BY BodyFacts DEF Init
    <2> QED
      BY <1>3, <1>6, <2>1, <2>2, <2>3 DEF Init, TypeOK, States, Pc, Faults
  <1>11. RunQueueExact
    BY <1>4, <1>5, <1>6, <1>7, <1>9 DEF RunQueueExact
  <1>12. SendersExact
    BY <1>7, <1>8, EmptyList DEF SendersExact
  <1>13. OnlyExpectedFaults /\ Handshake /\ NoLostRendezvous
    BY <1>8, <1>9 DEF OnlyExpectedFaults, Handshake, NoLostRendezvous, Picked
  <1>14. CurrentInv /\ IdleInv
    BY <1>6, <1>7, <1>9, ConstantFacts DEF CurrentInv, IdleInv
  <1>15. PcInv /\ ReadInv /\ WaitInv
    BY <1>7, <1>8 DEF PcInv, ReadInv, WaitInv
  <1>16. ServerInv /\ SendInv
    BY <1>6, <1>7, <1>8, ConstantFacts DEF ServerInv, SendInv
  <1>17. TellInv /\ ExitInv
    BY <1>6, <1>7, <1>9 DEF TellInv, ExitInv
  <1> QED
    BY <1>10, <1>11, <1>12, <1>13, <1>14, <1>15, <1>16, <1>17 DEF IInv

(* Every step of well-behaved programs and of the kernel under them.       *)
LEMMA NextStep ==
    ASSUME IInv, [Next]_vars
    PROVE  StepOK
  <1>1. CASE UNCHANGED vars
    BY <1>1, QuietStep DEF vars, IInv, TypeOK
  <1>2. CASE KernelStep
    <2>1. CASE IdlePanic
      BY <2>1, QuietStep DEF IdlePanic, Panic, IInv, TypeOK
    <2> QED
      BY <1>2, <2>1, ResumeSendStep, FinishReceiveStep, CallReceiveStep, FinishExitStep,
         TellShellStep, BootSwitchStep DEF KernelStep
  <1>3. CASE Program
    <2> USE <1>3
    <2>1. fault = "none" /\ pc[current] = "user"
      BY DEF Program, Running
    <2>2. current \in Task /\ SendPc = {"send", "call", "exit"} /\ Payload \subseteq Body
      BY <2>1, RunningFacts, BodyFacts DEF SendPc
    <2>3. destroyed \in [Task -> BOOLEAN] /\ out \in [Task -> Out]
      BY DEF IInv, TypeOK
    <2>4. ASSUME NEW n \in Names, NEW b \in Payload, MaySend(n), ipc_send(n, b, "send"),
                 UNCHANGED destroyed
          PROVE  StepOK
      <3>1. ToServer(n, "send") \/ ToWaiting(n)
        BY <2>2, <2>4, MaySendFacts
      <3> QED
        BY <2>1, <2>2, <2>3, <2>4, <3>1, SendStep
    <2>5. ASSUME NEW n \in Servers, NEW b \in Payload, MaySend(n), ipc_call(n, b)
          PROVE  StepOK
      <3>1. ToServer(n, "call") \/ ToWaiting(n)
        BY <2>2, <2>5, MaySendFacts
      <3>2. n \in Names
        BY ConstantFacts
      <3> QED
        BY <2>1, <2>2, <2>3, <2>5, <3>1, <3>2, SendStep DEF ipc_call
    <2>6. ASSUME NEW src \in Task \cup {ANY}, ipc_receive(src), UNCHANGED out
          PROVE  StepOK
      BY <2>1, <2>3, <2>6, ReceiveStep
    <2>7. ASSUME name[current] \notin Servers, task_exit
          PROVE  StepOK
      <3>1. ipc_send("vm", ExitMsg(current), "exit") /\ destroyed' \in [Task -> BOOLEAN]
        BY <2>3, <2>7 DEF task_exit
      <3>2. "vm" \in Names /\ ExitMsg(current) \in Body
        BY <2>2, ConstantFacts, BodyFacts
      <3>3. ToServer("vm", "exit")
        BY <2>7, VmServes
      <3> QED
        BY <2>1, <2>2, <2>7, <3>1, <3>2, <3>3, SendStep
    <2>8. ASSUME NEW n \in Names \ Servers, vm_create(n)
          PROVE  StepOK
      <3>1. CASE VmCreate(n)
        BY <2>1, <3>1, VmCreateStep
      <3>2. CASE VmCreatePanic
        BY <3>2, QuietStep DEF VmCreatePanic, Panic, IInv, TypeOK
      <3> QED
        BY <2>8, <3>1, <3>2 DEF vm_create
    <2>9. ASSUME NEW t \in Task, Done(t), name[t] = "shell" \/ MaySend("shell"), task_destroy(t)
          PROVE  StepOK
      <3>1. TaskDestroy(t)
        BY <2>9 DEF task_destroy, TaskDestroyPanic, Done
      <3> QED
        BY <2>1, <2>9, <3>1, TaskDestroyStep
    <2> QED
      BY <2>4, <2>5, <2>6, <2>7, <2>8, <2>9, BufferStep DEF Program
  <1> QED
    BY <1>1, <1>2, <1>3 DEF Next

(* IInv is an inductive invariant of the kernel under well-behaved         *)
(* programs.                                                               *)
THEOREM Invariance == Spec => []IInv
  <1>1. IInv /\ [Next]_vars => IInv'
    BY NextStep DEF StepOK
  <1> QED
    BY InitInv, <1>1, PTL DEF Spec

(* The kernel's data keep their types.                                     *)
THEOREM TypeCorrect == Spec => []TypeOK
  <1>1. IInv => TypeOK
    BY DEF IInv
  <1> QED
    BY Invariance, <1>1, PTL

(* However many tasks there are, the system of well-behaved programs stops *)
(* only when nobody can run or no slot is free (task.c:158, list.c:15).    *)
THEOREM FaultsExpected == Spec => []OnlyExpectedFaults
  <1>1. IInv => OnlyExpectedFaults
    BY DEF IInv
  <1> QED
    BY Invariance, <1>1, PTL

(* No wake-up is lost or doubled (task.c:46).                              *)
THEOREM RunQueueCorrect == Spec => []RunQueueExact
  <1>1. IInv => RunQueueExact
    BY DEF IInv
  <1> QED
    BY Invariance, <1>1, PTL

(* Blocked senders and sender queues agree (ipc.c:58, ipc.c:81).           *)
THEOREM SendersCorrect == Spec => []SendersExact
  <1>1. IInv => SendersExact
    BY DEF IInv
  <1> QED
    BY Invariance, <1>1, PTL

(* A picked sender finds its receiver as it left it (ipc.c:63-68).         *)
THEOREM HandshakeKept == Spec => []Handshake
  <1>1. IInv => Handshake
    BY DEF IInv
  <1> QED
    BY Invariance, <1>1, PTL

(* Nobody waits for a task that waits in its queue (ipc.c:75-87).          *)
THEOREM RendezvousFound == Spec => []NoLostRendezvous
  <1>1. IInv => NoLostRendezvous
    BY DEF IInv
  <1> QED
    BY Invariance, <1>1, PTL

(* No message is put over an unread one or into a task that waits for      *)
(* something else (ipc.c:65).                                              *)
THEOREM DeliveryCorrect == Spec => DeliveredToReceiver
  <1>1. IInv /\ [Next]_vars => DeliveredStep
    BY NextStep DEF StepOK
  <1> QED
    BY Invariance, <1>1, PTL DEF Spec, DeliveredToReceiver, DeliveredStep

(* An exited task never runs again (task.c:156-158).                       *)
THEOREM ExitIsFinal == Spec => DeadStaysDead
  <1>1. IInv /\ [Next]_vars =>
           \A t \in Task : pc[t] = "dead" /\ state[t] # "unused" =>
              /\ current' # t
              /\ pc'[t] = "dead"
    <2> SUFFICES ASSUME IInv, [Next]_vars, NEW t \in Task, pc[t] = "dead", state[t] # "unused"
                 PROVE  current' # t /\ pc'[t] = "dead"
      OBVIOUS
    <2>1. pc'[t] = "dead" /\ pc'[current'] # "dead"
      BY NextStep DEF StepOK, DeadStep, IInv, CurrentInv
    <2> QED
      BY <2>1
  <1> QED
    BY Invariance, <1>1, PTL DEF Spec, DeadStaysDead

----------------------------------------------------------------------------
(* Ipc implements Rendezvous                                               *)

\* What task t shows of itself to Rendezvous.
OfferOf(t) == [to |-> out[t].dst, msg |-> [src |-> name[t], body |-> out[t].body]]
AcceptOf(t) == IF waitFor[t] = ANY THEN Task ELSE {waitFor[t]}

Accept(src) == IF src = ANY THEN Task ELSE {src}

(* The values of the refinement mapping.                                   *)
LEMMA BarFacts ==
    ASSUME NEW t \in Task
    PROVE  /\ Sending(t) => sendingBar[t] = OfferOf(t)
           /\ ~Sending(t) => sendingBar[t] = NoSend
           /\ Receiving(t) => receivingBar[t] = AcceptOf(t)
           /\ ~Receiving(t) => receivingBar[t] = {}
  BY DEF sendingBar, receivingBar, OfferOf, AcceptOf

(* The mapped variables are functions on tasks.                            *)
LEMMA BarFunctions ==
    /\ sendingBar = [t \in Task |-> sendingBar[t]] /\ DOMAIN sendingBar = Task
    /\ receivingBar = [t \in Task |-> receivingBar[t]] /\ DOMAIN receivingBar = Task
  BY DEF sendingBar, receivingBar

(* A step after which the tasks look as before, except for task u.         *)
LEMMA SendingChange ==
    ASSUME NEW u \in Task, \A t \in Task \ {u} : sendingBar'[t] = sendingBar[t]
    PROVE  sendingBar' = [sendingBar EXCEPT ![u] = sendingBar'[u]]
  BY DEF sendingBar

(* The same of what tasks wait for.                                        *)
LEMMA ReceivingChange ==
    ASSUME NEW u \in Task, \A t \in Task \ {u} : receivingBar'[t] = receivingBar[t]
    PROVE  receivingBar' = [receivingBar EXCEPT ![u] = receivingBar'[u]]
  BY DEF receivingBar

(* The task with the CPU, between calls, shows nothing.                    *)
LEMMA FreeCurrent ==
    ASSUME IInv, pc[current] \in {"user", "tell", "callrecv"}
    PROVE  R!Free(current) /\ current \in Task
  <1>1. current \in Task /\ state[current] = "runnable"
    BY RunningFacts
  <1>2. ~Sending(current) /\ ~Receiving(current) /\ message[current] = NoMsg
    BY <1>1 DEF Sending, SendPc, Receiving, IInv, ReadInv
  <1> QED
    BY <1>1, <1>2, BarFacts DEF R!Free

(* A step that changes nothing a task shows is not seen.                   *)
LEMMA Stutter ==
    ASSUME message' = message,
           \A t \in Task : /\ Sending(t)' <=> Sending(t)
                           /\ Receiving(t)' <=> Receiving(t)
                           /\ Sending(t) => out'[t] = out[t] /\ name'[t] = name[t]
                           /\ Receiving(t) => waitFor'[t] = waitFor[t]
    PROVE  UNCHANGED R!vars
  <1>1. sendingBar' = sendingBar
    BY DEF sendingBar
  <1>2. receivingBar' = receivingBar
    BY DEF receivingBar
  <1> QED
    BY <1>1, <1>2 DEF R!vars

----------------------------------------------------------------------------
(* One lemma for each kind of step that Rendezvous has                     *)

(* The end of ipc_send is SendNow when the receiver was waiting already,   *)
(* and Complete when the sender had been queued.                           *)
LEMMA DeliverRefines ==
    ASSUME IInv, fault = "none", NEW d \in Task \ {current}, NEW b \in Body, NEW k \in SendPc,
           Receiving(d), waitFor[d] \in {ANY, current}, name[current] \in Names,
           \/ pc[current] \in {"user", "tell"}
           \/ Sending(current) /\ out[current].dst = d /\ out[current].body = b,
           Deliver(d, b), pc' = [pc EXCEPT ![current] = After(k)],
           \A t \in Task \ {current} : out'[t] = out[t],
           UNCHANGED <<current, name, waitFor, senders, shared>>
    PROVE  R!Next
  <1> USE DEF IInv
  <1>1. After(k) \in {"user", "callrecv", "exitsw"}
    BY DEF After, SendPc
  <1>2. current \in Task /\ state[current] = "runnable" /\ pc[current] # "recv"
    BY DEF TypeOK, CurrentInv, Sending, SendPc
  <1>3. /\ pc'[current] = After(k) /\ \A t \in Task \ {current} : pc'[t] = pc[t]
        /\ state'[d] = "runnable" /\ \A t \in Task \ {d} : state'[t] = state[t]
        /\ message' = [message EXCEPT ![d] = [src |-> name[current], body |-> b]]
        /\ message'[d] = [src |-> name[current], body |-> b]
    BY <1>2 DEF TypeOK, Deliver
  <1>4. message[d] = NoMsg /\ [src |-> name[current], body |-> b] \in Message \ {NoMsg}
    BY BodyFacts DEF ReadInv, Receiving
  <1>5. ~Sending(current)' /\ \A t \in Task \ {current} : Sending(t)' <=> Sending(t)
    BY <1>1, <1>3 DEF Sending, SendPc
  <1>6. \A t \in Task : Receiving(t)' <=> (Receiving(t) /\ t # d)
    BY <1>1, <1>2, <1>3 DEF Receiving
  <1>7. sendingBar'[current] = NoSend /\ \A t \in Task \ {current} : sendingBar'[t] = sendingBar[t]
    BY <1>2, <1>5 DEF sendingBar
  <1>8. receivingBar'[d] = {} /\ \A t \in Task \ {d} : receivingBar'[t] = receivingBar[t]
    BY <1>6 DEF receivingBar
  <1>9. receivingBar' = [receivingBar EXCEPT ![d] = {}]
    BY <1>8, ReceivingChange
  <1>10. receivingBar[d] = AcceptOf(d)
    BY BarFacts
  <1>11. CASE pc[current] \in {"user", "tell"}
    <2>1. R!Free(current)
      BY <1>11, FreeCurrent
    <2>2. sendingBar' = sendingBar
      <3>1. sendingBar[current] = NoSend
        BY <2>1 DEF R!Free
      <3>2. \A t \in Task : sendingBar'[t] = sendingBar[t]
        BY <3>1, <1>7
      <3> QED
        BY <3>2, BarFunctions DEF sendingBar
    <2>3. current \in receivingBar[d]
      BY <1>2, <1>10 DEF AcceptOf
    <2>4. message' = [message EXCEPT ![d] = message'[d]]
      BY <1>3
    <2>5. R!SendNow(current, d)
      BY <2>1, <2>2, <2>3, <2>4, <1>3, <1>4, <1>9 DEF R!SendNow
    <2> QED
      BY <2>5, <1>2 DEF R!Next
  <1>12. CASE Sending(current) /\ out[current].dst = d /\ out[current].body = b
    <2>1. sendingBar[current] = [to |-> d, msg |-> [src |-> name[current], body |-> b]]
      BY <1>2, <1>12, BarFacts DEF OfferOf
    <2>2. sendingBar[current] # NoSend
      <3>1. 0 \notin Task
        BY ConstantFacts
      <3>2. sendingBar[current].to = d /\ NoSend.to = 0
        BY <2>1 DEF NoSend
      <3> QED
        BY <3>1, <3>2
    <2>3. waitFor[d] = current
      BY <1>2, <1>12 DEF Handshake, Picked
    <2>4. receivingBar[d] = {current}
      BY <1>2, <1>10, <2>3, ConstantFacts DEF AcceptOf, ANY
    <2>5. sendingBar' = [sendingBar EXCEPT ![current] = NoSend]
      BY <1>2, <1>7, SendingChange
    <2>6. sendingBar[current].to = d /\ sendingBar[current].msg = [src |-> name[current], body |-> b]
      BY <2>1
    <2>7. R!Complete(current)
      BY <2>2, <2>4, <2>5, <2>6, <1>3, <1>4, <1>9 DEF R!Complete
    <2> QED
      BY <2>7, <1>2 DEF R!Next
  <1> QED
    BY <1>11, <1>12

(* A sender that is queued makes an offer.                                 *)
LEMMA QueueRefines ==
    ASSUME IInv, fault = "none", NEW n \in Servers, NEW b \in Body, NEW k \in SendPc,
           pc[current] \in {"user", "tell"}, SendQueue(n, b, k)
    PROVE  R!Next
  <1> USE DEF IInv
  <1>1. PICK d \in Task \ {current} :
        /\ name[d] = n /\ ~Ready(d)
        /\ out' = [out EXCEPT ![current] = [dst |-> d, to |-> n, body |-> b]]
        /\ pc' = [pc EXCEPT ![current] = k]
        /\ state' = [state EXCEPT ![current] = "blocked"]
        /\ UNCHANGED <<name, waitFor, message, shared>>
    BY RunningFacts DEF SendQueue, Lookup
  <1>2. current \in Task /\ state[current] = "runnable" /\ name[current] \in Names
    BY RunningFacts
  <1>3. /\ state'[current] = "blocked" /\ pc'[current] = k
        /\ out'[current].dst = d /\ out'[current].body = b
        /\ \A t \in Task \ {current} : state'[t] = state[t] /\ pc'[t] = pc[t] /\ out'[t] = out[t]
    <2> DEFINE o == [dst |-> d, to |-> n, body |-> b]
    <2>1. o.dst = d /\ o.body = b /\ out' = [out EXCEPT ![current] = o]
      BY <1>1
    <2> HIDE DEF o
    <2> QED
      BY <1>1, <1>2, <2>1 DEF TypeOK
  <1>4. pc'[current] \in SendPc /\ \A t \in Task \ {current} : Sending(t)' <=> Sending(t)
    BY <1>3 DEF Sending
  <1>5. \A t \in Task : Receiving(t)' <=> Receiving(t)
    BY <1>2, <1>3 DEF Receiving, SendPc
  <1>6. /\ sendingBar'[current] = [to |-> d, msg |-> [src |-> name[current], body |-> b]]
        /\ \A t \in Task \ {current} : sendingBar'[t] = sendingBar[t]
    BY <1>1, <1>2, <1>3, <1>4 DEF sendingBar, Sending
  <1>7. receivingBar' = receivingBar
    BY <1>1, <1>5 DEF receivingBar
  <1>8. current \notin receivingBar[d]
    BY <1>1, BarFacts DEF AcceptOf, Ready, Receiving
  <1>9. R!Free(current)
    BY FreeCurrent
  <1>10. sendingBar'[current] \in [to : {d}, msg : Message \ {NoMsg}]
    <2>1. [src |-> name[current], body |-> b] \in Message \ {NoMsg}
      BY <1>2, BodyFacts
    <2> QED
      BY <2>1, <1>6
  <1>11. sendingBar' = [sendingBar EXCEPT ![current] = sendingBar'[current]]
    BY <1>2, <1>6, SendingChange
  <1>12. R!Offer(current, d)
    BY <1>1, <1>7, <1>8, <1>9, <1>10, <1>11 DEF R!Offer
  <1> QED
    BY <1>2, <1>12 DEF R!Next

(* Who offers to the task that calls ipc_receive is in its queue.          *)
LEMMA OffersQueued ==
    ASSUME IInv, pc[current] \in {"user", "callrecv"}, NEW src \in Task \cup {ANY}
    PROVE  /\ Accept(src) \in {Task} \cup {{s} : s \in Task} /\ Accept(src) # {}
           /\ \A s : s \in R!Offers(current, Accept(src)) <=>
                s \in ToSet(senders[current]) /\ src \in {ANY, s}
  <1> USE DEF IInv
  <1>1. current \in Task /\ state[current] = "runnable" /\ 0 \notin Task
    BY RunningFacts, ConstantFacts
  <1>2. Accept(src) \in {Task} \cup {{s} : s \in Task} /\ Accept(src) # {}
    BY <1>1 DEF Accept
  <1>3. \A s : s \in Accept(src) <=> s \in Task /\ src \in {ANY, s}
    BY <1>1 DEF Accept, ANY
  <1>4. \A s \in Task : sendingBar[s] # NoSend /\ sendingBar[s].to = current <=>
                         Sending(s) /\ out[s].dst = current
    <2> TAKE s \in Task
    <2>1. NoSend.to = 0 /\ OfferOf(s).to = out[s].dst
      BY DEF NoSend, OfferOf
    <2>2. CASE Sending(s)
      BY <2>1, <2>2, <1>1, BarFacts
    <2>3. CASE ~Sending(s)
      BY <2>3, BarFacts
    <2> QED
      BY <2>2, <2>3
  <1>5. \A s \in Task : Sending(s) /\ out[s].dst = current <=> s \in ToSet(senders[current])
    <2> SUFFICES ASSUME NEW s \in Task, Sending(s), out[s].dst = current PROVE state[s] = "blocked"
      BY <1>1 DEF SendersExact
    <2>1. ~Picked(s)
      BY <1>1 DEF Handshake, Receiving
    <2> QED
      BY <2>1 DEF Picked, TypeOK, States, PcInv, Sending, SendPc
  <1>6. ToSet(senders[current]) \subseteq Task
    <2>1. senders[current] \in Seq(Task)
      BY <1>1 DEF TypeOK
    <2> QED
      BY <2>1, ElementsSeq
  <1> QED
    BY <1>2, <1>3, <1>4, <1>5, <1>6 DEF R!Offers

(* ipc_receive waits for whom it names, or for the sender it picks.        *)
LEMMA ReceiveRefines ==
    ASSUME IInv, fault = "none", NEW src \in Task \cup {ANY}, pc[current] \in {"user", "callrecv"},
           ipc_receive(src), \A t \in Task \ {current} : out'[t] = out[t]
    PROVE  R!Next
  <1> USE DEF IInv
  <1>1. current \in Task /\ state[current] = "runnable"
    BY RunningFacts
  <1>2. R!Free(current)
    BY FreeCurrent
  <1>3. name' = name /\ message' = message
    BY DEF ipc_receive
  <1>4. ASSUME NEW x \in Task \cup {ANY}, waitFor' = [waitFor EXCEPT ![current] = x],
               pc' = [pc EXCEPT ![current] = "recv"], state'[current] = "blocked",
               \A t \in Task \ {current} : Receiving(t)' <=> Receiving(t)
        PROVE  /\ sendingBar' = sendingBar
               /\ receivingBar' = [receivingBar EXCEPT ![current] = Accept(x)]
    <2>1. /\ pc'[current] = "recv" /\ waitFor'[current] = x
          /\ \A t \in Task \ {current} : pc'[t] = pc[t] /\ waitFor'[t] = waitFor[t]
      BY <1>1, <1>4 DEF TypeOK
    <2>2. \A t \in Task : Sending(t)' <=> Sending(t)
      BY <1>1, <2>1 DEF Sending, SendPc
    <2>3. ~Sending(current)
      BY DEF Sending, SendPc
    <2>4. sendingBar' = sendingBar
      BY <1>3, <2>2, <2>3 DEF sendingBar
    <2>5. receivingBar'[current] = Accept(x)
      BY <1>1, <1>4, <2>1 DEF receivingBar, Receiving, Accept
    <2>6. \A t \in Task \ {current} : receivingBar'[t] = receivingBar[t]
      BY <1>4, <2>1 DEF receivingBar
    <2> QED
      BY <1>1, <2>4, <2>5, <2>6, ReceivingChange
  <1>5. CASE ReceiveNone(src)
    <2>1. /\ \A j \in DOMAIN senders[current] : src \notin {ANY, senders[current][j]}
          /\ waitFor' = [waitFor EXCEPT ![current] = src]
          /\ pc' = [pc EXCEPT ![current] = "recv"]
          /\ state' = [state EXCEPT ![current] = "blocked"]
      BY <1>5 DEF ReceiveNone, Wait
    <2>2. state'[current] = "blocked" /\ \A t \in Task \ {current} : Receiving(t)' <=> Receiving(t)
      BY <1>1, <2>1 DEF TypeOK, Receiving
    <2>3. sendingBar' = sendingBar /\ receivingBar' = [receivingBar EXCEPT ![current] = Accept(src)]
      BY <1>4, <2>1, <2>2
    <2>4. R!Offers(current, Accept(src)) = {}
      <3>1. \A s \in ToSet(senders[current]) : src \notin {ANY, s}
        BY <2>1 DEF ToSet
      <3> QED
        BY <3>1, OffersQueued
    <2>5. R!Receive(current, Accept(src))
      BY <1>2, <1>3, <2>3, <2>4, OffersQueued DEF R!Receive
    <2> QED
      BY <1>1, <2>5, OffersQueued DEF R!Next
  <1>6. CASE ReceivePick(src)
    <2>1. PICK j \in DOMAIN senders[current] :
          LET s == senders[current][j] IN
          /\ src \in {ANY, s}
          /\ IF OnRunq(s) THEN TRUE
             ELSE Wait(s, [state EXCEPT ![s] = "runnable"], Append(runq, s))
      BY <1>6 DEF ReceivePick
    <2> DEFINE s == senders[current][j]
    <2>2. s \in ToSet(senders[current]) /\ src \in {ANY, s}
      BY <2>1 DEF ToSet
    <2>3. s \in Task /\ s # current /\ state[s] = "blocked" /\ Sending(s)
      <3>1. senders[current] \in Seq(Task)
        BY <1>1 DEF TypeOK
      <3>2. s \in Task
        BY <2>2, <3>1, ElementsSeq
      <3> QED
        BY <1>1, <2>2, <3>2 DEF SendersExact
    <2>4. ~OnRunq(s)
      BY <2>3 DEF OnRunq, RunQueueExact
    <2>5. Wait(s, [state EXCEPT ![s] = "runnable"], Append(runq, s))
      BY <2>1, <2>4
    <2> HIDE DEF s
    <2>6. /\ waitFor' = [waitFor EXCEPT ![current] = s]
          /\ pc' = [pc EXCEPT ![current] = "recv"]
          /\ state' = [[state EXCEPT ![s] = "runnable"] EXCEPT ![current] = "blocked"]
      BY <2>5 DEF Wait
    <2>7. state'[current] = "blocked" /\ \A t \in Task \ {current} : Receiving(t)' <=> Receiving(t)
      BY <1>1, <2>3, <2>6 DEF TypeOK, Receiving, Sending, SendPc
    <2>8. sendingBar' = sendingBar /\ receivingBar' = [receivingBar EXCEPT ![current] = Accept(s)]
      BY <1>4, <2>3, <2>6, <2>7
    <2>9. Accept(s) = {s}
      BY <2>3, ConstantFacts DEF Accept, ANY
    <2>10. R!Commit(current, Accept(src))
      BY <1>2, <1>3, <2>2, <2>8, <2>9, OffersQueued DEF R!Commit
    <2> QED
      BY <1>1, <2>10, OffersQueued DEF R!Next
  <1> QED
    BY <1>5, <1>6 DEF ipc_receive

(* Reading the message is Read.                                            *)
LEMMA FinishReceiveRefines ==
    ASSUME IInv, FinishReceive
    PROVE  R!Next
  <1> USE DEF IInv
  <1>1. /\ pc[current] = "recv"
        /\ waitFor' = [waitFor EXCEPT ![current] = DENY]
        /\ message' = [message EXCEPT ![current] = NoMsg]
        /\ pc' = [pc EXCEPT ![current] = "user"]
        /\ UNCHANGED <<current, state, name, destroyed, senders, shared, runq, out, fault>>
    BY DEF FinishReceive, Running
  <1>2. current \in Task /\ state[current] = "runnable"
    BY <1>1, RunningFacts
  <1>3. pc'[current] = "user" /\ \A t \in Task \ {current} : pc'[t] = pc[t] /\ waitFor'[t] = waitFor[t]
    BY <1>1, <1>2 DEF TypeOK
  <1>4. \A t \in Task : (Sending(t)' <=> Sending(t)) /\ (Receiving(t)' <=> Receiving(t))
    BY <1>1, <1>2, <1>3 DEF Sending, SendPc, Receiving
  <1>5. sendingBar' = sendingBar
    BY <1>1, <1>4 DEF sendingBar
  <1>6. receivingBar' = receivingBar
    BY <1>2, <1>3, <1>4 DEF receivingBar, Receiving
  <1>7. message[current] # NoMsg
    BY <1>1, <1>2 DEF ReadInv
  <1>8. R!Read(current)
    BY <1>1, <1>5, <1>6, <1>7 DEF R!Read
  <1> QED
    BY <1>2, <1>8 DEF R!Next

(* Both ends of an ipc_send that well-behaved programs make.               *)
LEMMA SendRefines ==
    ASSUME IInv, fault = "none", NEW n \in Names, NEW b \in Body, NEW k \in SendPc,
           pc[current] \in {"user", "tell"}, k = "exit" => name[current] \notin Servers,
           ToServer(n, k) \/ ToWaiting(n), ipc_send(n, b, k)
    PROVE  R!Next
  <1>1. current \in Task /\ name[current] \in Names
    BY RunningFacts
  <1>2. CASE SendReady(n, b, k)
    <2>1. PICK d \in Task \ {current} :
            /\ Lookup(n, d) /\ Ready(d) /\ Deliver(d, b)
            /\ pc' = [pc EXCEPT ![current] = After(k)]
            /\ \A t \in Task \ {current} : out'[t] = out[t]
            /\ UNCHANGED <<current, name, waitFor, senders, shared>>
      BY <1>2 DEF SendReady, IInv, TypeOK
    <2>2. pc[d] = "recv"
      BY <1>1, <2>1, ReadyReceives
    <2>3. Receiving(d) /\ waitFor[d] \in {ANY, current}
      BY <2>1, <2>2 DEF Receiving, Ready
    <2> QED
      BY <1>1, <2>1, <2>3, DeliverRefines
  <1>3. CASE SendQueue(n, b, k)
    BY <1>3, QueueRefines, LookupUnique DEF ToServer, ToWaiting, SendQueue
  <1>4. ~SendPanic(n)
    BY <1>1, SendFinds
  <1> QED
    BY <1>2, <1>3, <1>4 DEF ipc_send

(* Delivering after the switch is Complete.                                *)
LEMMA ResumeSendRefines ==
    ASSUME IInv, ResumeSend
    PROVE  R!Next
  <1>1. PICK k \in SendPc :
        /\ Running(k)
        /\ Deliver(out[current].dst, out[current].body)
        /\ pc' = [pc EXCEPT ![current] = After(k)]
        /\ \A t \in Task \ {current} : out'[t] = out[t]
        /\ UNCHANGED <<current, name, destroyed, waitFor, senders, shared>>
    BY DEF ResumeSend, IInv, TypeOK
  <1>2. fault = "none" /\ pc[current] = k
    BY <1>1 DEF Running
  <1>3. current \in Task /\ state[current] = "runnable" /\ name[current] \in Names
    BY <1>2, RunningFacts
  <1>4. Sending(current) /\ Picked(current)
    BY <1>2, <1>3 DEF Sending, Picked
  <1>5. Receiving(out[current].dst) /\ waitFor[out[current].dst] = current
    BY <1>3, <1>4 DEF IInv, Handshake
  <1>6. out[current].dst \in Task \ {current} /\ out[current].body \in Body
    BY <1>3, <1>4 DEF IInv, SendInv
  <1> QED
    BY <1>1, <1>2, <1>3, <1>4, <1>5, <1>6, DeliverRefines

(* The receive of a call is Receive or Commit.                             *)
LEMMA CallReceiveRefines ==
    ASSUME IInv, CallReceive
    PROVE  R!Next
  <1>1. fault = "none" /\ pc[current] = "callrecv"
    BY DEF CallReceive, Running
  <1>2. \A t \in Task \ {current} : out'[t] = out[t]
    BY DEF CallReceive, IInv, TypeOK
  <1>3. \E src \in Task \cup {ANY} : ipc_receive(src)
    BY DEF CallReceive
  <1> QED
    BY <1>1, <1>2, <1>3, ReceiveRefines

(* Creating, ending and destroying tasks, the buffer and the idle task are *)
(* not seen.                                                               *)
LEMMA LifeRefines ==
    ASSUME IInv, \/ FinishExit \/ BootSwitch \/ IdlePanic
                 \/ pc[current] = "user" /\ \E n \in Names : vm_create(n)
                 \/ pc[current] = "user" /\ \E t \in Task : Done(t) /\ task_destroy(t)
                 \/ ipc_share_buffer \/ \E n \in Names : ipc_copy(n)
    PROVE  UNCHANGED R!vars
  <1> USE DEF IInv
  <1>1. CASE FinishExit \/ BootSwitch
    <2>1. /\ pc[current] \in {"exitsw", "boot"} \/ UNCHANGED pc
          /\ \E x \in {"dead", "idle"} : pc' = [pc EXCEPT ![current] = x] \/ UNCHANGED pc
          /\ UNCHANGED <<state, name, waitFor, message, out>>
      BY <1>1 DEF FinishExit, BootSwitch, Running, Panic
    <2>2. \A t \in Task : (Sending(t)' <=> Sending(t)) /\ (Receiving(t)' <=> Receiving(t))
      BY <2>1 DEF Sending, SendPc, Receiving, TypeOK
    <2> QED
      BY <2>1, <2>2, Stutter
  <1>2. CASE IdlePanic \/ ipc_share_buffer \/ \E n \in Names : ipc_copy(n)
    <2>1. UNCHANGED <<pc, state, name, waitFor, message, out>>
      <3>1. CASE IdlePanic \/ ipc_share_buffer
        BY <3>1 DEF IdlePanic, ipc_share_buffer, Panic
      <3>2. CASE \E n \in Names : ipc_copy(n)
        <4>1. CASE \E why \in {"not found", "no shared buffer", "stale buffer"} : Panic(why)
          BY <4>1 DEF Panic
        <4>2. CASE UNCHANGED vars
          BY <4>2 DEF vars
        <4>3. \A d \in Task : shared[d] \in {"null", "own", "stale"}
          BY DEF TypeOK
        <4> QED
          BY <3>2, <4>1, <4>2, <4>3 DEF ipc_copy
      <3> QED
        BY <1>2, <3>1, <3>2
    <2>2. \A t \in Task : (Sending(t)' <=> Sending(t)) /\ (Receiving(t)' <=> Receiving(t))
      BY <2>1 DEF Sending, Receiving
    <2> QED
      BY <2>1, <2>2, Stutter
  <1>3. CASE pc[current] = "user" /\ \E n \in Names : vm_create(n)
    <2>1. PICK n \in Names : vm_create(n)
      BY <1>3
    <2>2. CASE VmCreatePanic
      BY <2>2, Stutter DEF VmCreatePanic, Panic, Sending, Receiving
    <2>3. CASE VmCreate(n)
      <3>1. PICK t \in Task :
            /\ state[t] = "unused"
            /\ name' = [name EXCEPT ![t] = n]
            /\ state' = [state EXCEPT ![t] = "runnable"]
            /\ pc' = [pc EXCEPT ![t] = "user"]
            /\ out' = [out EXCEPT ![t] = NoOut]
            /\ UNCHANGED <<waitFor, message>>
        BY <2>3 DEF VmCreate, FreeSlot
      <3>2. ~Sending(t) /\ ~Receiving(t)
        BY <3>1, UnusedFacts
      <3>3. /\ pc'[t] = "user"
            /\ \A u \in Task \ {t} : /\ pc'[u] = pc[u] /\ state'[u] = state[u]
                                     /\ name'[u] = name[u] /\ out'[u] = out[u]
        BY <3>1 DEF TypeOK
      <3>4. \A u \in Task : (Sending(u)' <=> Sending(u)) /\ (Receiving(u)' <=> Receiving(u))
        BY <3>2, <3>3 DEF Sending, SendPc, Receiving
      <3> QED
        BY <3>1, <3>2, <3>3, <3>4, Stutter
    <2> QED
      BY <2>1, <2>2, <2>3 DEF vm_create
  <1>4. CASE pc[current] = "user" /\ \E t \in Task : Done(t) /\ task_destroy(t)
    <2>1. PICK t \in Task : Done(t) /\ TaskDestroy(t)
      BY <1>4 DEF task_destroy, TaskDestroyPanic, Done
    <2>2. pc[t] = "dead" /\ ~Sending(t) /\ ~Receiving(t)
      BY <2>1, UnusedFacts DEF Done
    <2>3. current \in Task /\ state[current] = "runnable"
      BY <1>4, RunningFacts
    <2>4. /\ \A u \in Task \ {t} : state'[u] = state[u]
          /\ \A u \in Task \ {current} : pc'[u] = pc[u] /\ out'[u] = out[u]
          /\ pc'[current] \in {"user", "tell"} /\ state'[t] = "unused"
          /\ UNCHANGED <<name, waitFor, message>>
      BY <1>4, <2>1, <2>3 DEF TaskDestroy, TypeOK
    <2>5. ~Sending(current) /\ ~Receiving(current) /\ pc'[current] \notin SendPc
      BY <1>4, <2>3, <2>4 DEF Sending, SendPc, Receiving
    <2>6. \A u \in Task : (Sending(u)' <=> Sending(u)) /\ (Receiving(u)' <=> Receiving(u))
      <3> TAKE u \in Task
      <3>1. CASE u = current
        BY <3>1, <2>3, <2>4, <2>5 DEF Sending, Receiving
      <3>2. CASE u # current /\ u # t
        BY <3>2, <2>4 DEF Sending, Receiving
      <3>3. CASE u # current /\ u = t
        BY <3>3, <2>2, <2>4 DEF Sending, Receiving
      <3> QED
        BY <3>1, <3>2, <3>3
    <2> QED
      BY <2>4, <2>5, <2>6, Stutter
  <1> QED
    BY <1>1, <1>2, <1>3, <1>4

----------------------------------------------------------------------------
(* Ipc implements Rendezvous: the theorem                                  *)

(* Every step of the kernel is a step of Rendezvous or changes nothing there. *)
LEMMA NextRefines ==
    ASSUME IInv, [Next]_vars
    PROVE  [R!Next]_(R!vars)
  <1>1. CASE UNCHANGED vars
    BY <1>1, Stutter DEF vars, Sending, Receiving
  <1>2. CASE KernelStep
    <2>1. CASE TellShell
      <3>1. /\ fault = "none" /\ pc[current] = "tell"
            /\ ipc_send("shell", out[current].body, "send")
        BY <2>1 DEF TellShell, Running
      <3>2. out[current].body \in Body /\ ToWaiting("shell")
        BY <3>1 DEF IInv, TellInv, ToWaiting
      <3>3. "shell" \in Names /\ "send" \in SendPc
        BY ConstantFacts DEF SendPc
      <3> QED
        BY <3>1, <3>2, <3>3, SendRefines
    <2> QED
      BY <1>2, <2>1, ResumeSendRefines, FinishReceiveRefines, CallReceiveRefines, LifeRefines
         DEF KernelStep
  <1>3. CASE Program
    <2> USE <1>3
    <2>1. fault = "none" /\ pc[current] = "user"
      BY DEF Program, Running
    <2>2. current \in Task /\ SendPc = {"send", "call", "exit"} /\ Payload \subseteq Body
      BY <2>1, RunningFacts, BodyFacts DEF SendPc
    <2>3. ASSUME NEW n \in Names, NEW b \in Payload, MaySend(n), ipc_send(n, b, "send")
          PROVE  R!Next
      <3>1. ToServer(n, "send") \/ ToWaiting(n)
        BY <2>2, <2>3, MaySendFacts
      <3> QED
        BY <2>1, <2>2, <2>3, <3>1, SendRefines
    <2>4. ASSUME NEW n \in Servers, NEW b \in Payload, MaySend(n), ipc_call(n, b)
          PROVE  R!Next
      <3>1. ToServer(n, "call") \/ ToWaiting(n)
        BY <2>2, <2>4, MaySendFacts
      <3>2. n \in Names
        BY ConstantFacts
      <3> QED
        BY <2>1, <2>2, <2>4, <3>1, <3>2, SendRefines DEF ipc_call
    <2>5. ASSUME NEW src \in Task \cup {ANY}, ipc_receive(src), UNCHANGED out
          PROVE  R!Next
      BY <2>1, <2>5, ReceiveRefines
    <2>6. ASSUME name[current] \notin Servers, task_exit
          PROVE  R!Next
      <3>1. ipc_send("vm", ExitMsg(current), "exit")
        BY <2>6 DEF task_exit
      <3>2. "vm" \in Names /\ ExitMsg(current) \in Body
        BY <2>2, ConstantFacts, BodyFacts
      <3>3. ToServer("vm", "exit")
        BY <2>6, VmServes
      <3> QED
        BY <2>1, <2>2, <2>6, <3>1, <3>2, <3>3, SendRefines
    <2> QED
      BY <2>1, <2>3, <2>4, <2>5, <2>6, LifeRefines DEF Program
  <1> QED
    BY <1>1, <1>2, <1>3 DEF Next

(* The kernel starts where Rendezvous does.                                *)
LEMMA InitRefines == Init => R!Init
  <1> SUFFICES ASSUME Init PROVE R!Init
    OBVIOUS
  <1>1. \A t \in Task : ~Sending(t) /\ ~Receiving(t)
    BY DEF Init, Sending, SendPc, Receiving
  <1>2. sendingBar = [t \in Task |-> NoSend] /\ receivingBar = [t \in Task |-> {}]
    BY <1>1 DEF sendingBar, receivingBar
  <1> QED
    BY <1>2 DEF R!Init, Init

(* ipc.c (ipc.c:38-107) is a synchronous rendezvous for all well-behaved   *)
(* programs: each message sent is taken once, by the task it was sent to,  *)
(* while that task accepts its sender.                                     *)
THEOREM Refinement == Spec => ImplementsRendezvous
  <1>1. IInv /\ [Next]_vars => [R!Next]_(R!vars)
    BY NextRefines
  <1> QED
    BY Invariance, InitRefines, <1>1, PTL DEF Spec, ImplementsRendezvous, R!Spec

----------------------------------------------------------------------------
(* System: the line editor of the shell                                    *)

\* The first n characters of cmdline are those of the line.
Stored(n) == \A k \in 1..n : cmdline[k - 1] = line[k]

\* What was typed after the prompt and the return that is to come.
Typed == Append(line, CR)

\* More was typed than cmdline takes.
TooLong == Len(line) >= LineSize - 1 /\ Stored(LineSize - 1)

\* The shell has read i characters and the rest of the line is to come.
Reading ==
    /\ i <= LineSize - 1 /\ i + Len(rest) = Len(line) + 1
    /\ rest # <<>> /\ \A k \in 1..Len(rest) : rest[k] = Typed[i + k]
    /\ Stored(i)

Labels == {"start", "prompt", "readline", "command", "spawned", "waitend", "exited", "loop", "dispatch",
           "opened", "shared", "read", "closed", "created", "serve", "copied"}

LineTypeOK ==
    /\ at \in [Task -> Labels]
    /\ cmdline \in [0..(LineSize - 1) -> Chars] /\ i \in 0..(LineSize + 1) /\ overrun \in BOOLEAN
    /\ line \in Seq(Chars) /\ rest \in Seq(Chars \cup {CR})
    /\ typed \in 0..MaxHello

LineInv ==
    /\ LineTypeOK
    /\ (at[SHELL] = "readline" /\ ~overrun) =>
          \/ i = 0 /\ line = <<>> /\ rest = <<>>
          \/ Reading
          \/ i = LineSize /\ TooLong
    /\ (at[SHELL] = "command" /\ ~overrun) =>
          i < LineSize - 1 /\ i = Len(line) /\ Stored(i) /\ cmdline[i] = NUL
    /\ (at[SHELL] \in {"prompt", "command", "spawned", "waitend"} /\ ~overrun) => rest = <<>>
    /\ overrun => TooLong

(* The constants of the line editor.                                       *)
LEMMA LineConstants ==
    /\ LineSize \in Nat /\ LineSize >= 7 /\ MaxHello \in Nat
    /\ Len(Hello) = 5 /\ Len(Exit) = 4 /\ DOMAIN Hello = 1..5 /\ DOMAIN Exit = 1..4
    /\ \A w \in {Hello, Exit} : \A k \in 1..Len(w) : w[k] # NUL
    /\ NUL \in Chars /\ CR \notin Chars /\ Lines \subseteq Seq(Chars)
  <1>1. Len(Hello) = 5 /\ Len(Exit) = 4 /\ DOMAIN Hello = 1..5 /\ DOMAIN Exit = 1..4
    BY DEF Hello, Exit
  <1>2. \A k \in 1..5 : Hello[k] # NUL
    BY DEF Hello, NUL
  <1>3. \A k \in 1..4 : Exit[k] # NUL
    BY DEF Exit, NUL
  <1>4. \A w \in {Hello, Exit} : \A k \in 1..Len(w) : w[k] # NUL
    BY <1>1, <1>2, <1>3
  <1>5. LineSize \in Nat /\ LineSize >= 7 /\ MaxHello \in Nat
    BY <1>1, SystemAssumption DEF SystemAssumption
  <1> QED
    BY <1>1, <1>4, <1>5, SystemAssumption DEF SystemAssumption

(* The slots of the boot tasks are slots.                                  *)
LEMMA Slots ==
    /\ Idle = 1 /\ VM = 2 /\ SHELL = 3 /\ FS = 4
    /\ Idle \in Task /\ VM \in Task /\ SHELL \in Task /\ FS \in Task
    /\ Task = 1..NumTask /\ NumTask \in Nat /\ NumTask >= 5
  <1>1. NumTask \in Nat /\ NumTask >= 5
    BY SystemAssumption, BootAssumption DEF SystemAssumption, BootAssumption
  <1> QED
    BY <1>1 DEF Task, Idle, VM, SHELL, FS

(* Appending the return to a line.                                         *)
LEMMA AppendReturn ==
    ASSUME NEW s \in Seq(Chars)
    PROVE  /\ Append(s, CR) \in Seq(Chars \cup {CR}) /\ Append(s, CR) # <<>>
           /\ Len(Append(s, CR)) = Len(s) + 1
           /\ Append(s, CR)[Len(s) + 1] = CR /\ \A k \in 1..Len(s) : Append(s, CR)[k] = s[k]
  <1>1. s \in Seq(Chars \cup {CR})
    OBVIOUS
  <1> QED
    BY <1>1

(* What is typed first is the line; what is typed after it is behind it.   *)
LEMMA ExtendLine ==
    ASSUME NEW s \in Seq(Chars), NEW l \in Seq(Chars)
    PROVE  /\ s \o l \in Seq(Chars) /\ Len(s \o l) = Len(s) + Len(l)
           /\ \A k \in 1..Len(s) : (s \o l)[k] = s[k]
           /\ s = <<>> => s \o l = l
  <1>1. /\ s \o l \in Seq(Chars) /\ Len(s \o l) = Len(s) + Len(l)
        /\ \A k \in 1..(Len(s) + Len(l)) : (s \o l)[k] = IF k <= Len(s) THEN s[k] ELSE l[k - Len(s)]
    BY ST!ConcatProperties
  <1>2. Len(s) \in Nat /\ Len(l) \in Nat
    OBVIOUS
  <1>3. \A k \in 1..Len(s) : k \in 1..(Len(s) + Len(l)) /\ k <= Len(s)
    BY <1>2
  <1>4. s = <<>> => s \o l = l
    <2> SUFFICES ASSUME s = <<>> PROVE s \o l = l
      OBVIOUS
    <2>1. Len(s) = 0
      OBVIOUS
    <2>2. Len(s \o l) = Len(l) /\ \A k \in 1..Len(l) : (s \o l)[k] = l[k]
      BY <2>1, <1>1, <1>2
    <2> QED
      BY <2>2, <1>1, ST!SeqEqual
  <1> QED
    BY <1>1, <1>3, <1>4

(* Someone types a line: it is to be read, or comes after a line that was  *)
(* too long.                                                               *)
LEMMA TypeLineKeepsLine ==
    ASSUME LineInv, TypeLine
    PROVE  LineInv'
  <1> USE DEF LineInv, LineTypeOK, Labels
  <1>1. PICK l \in Lines :
           /\ IF l = Hello THEN typed < MaxHello /\ typed' = typed + 1 ELSE typed' = typed
           /\ line' = line \o l /\ rest' = Append(l, CR)
           /\ UNCHANGED <<at, cmdline, i, overrun>>
           /\ ~overrun /\ at[SHELL] = "readline" /\ rest = <<>>
    BY DEF TypeLine, Here
  <1>2. /\ l \in Seq(Chars) /\ Len(l) \in Nat /\ Len(line) \in Nat
        /\ LineSize \in Nat /\ LineSize >= 7 /\ MaxHello \in Nat
    BY LineConstants
  <1>3. /\ line' \in Seq(Chars) /\ Len(line') = Len(line) + Len(l)
        /\ \A k \in 1..Len(line) : line'[k] = line[k]
        /\ line = <<>> => line' = l
    BY <1>1, <1>2, ExtendLine
  <1>4. rest' \in Seq(Chars \cup {CR}) /\ Len(rest') = Len(l) + 1 /\ rest' # <<>>
    BY <1>1, <1>2, AppendReturn
  <1>5. LineTypeOK'
    BY <1>1, <1>2, <1>3, <1>4
  <1>6. CASE i = LineSize /\ TooLong
    <2>1. UNCHANGED <<i, cmdline, at, overrun>>
      BY <1>1
    <2>2. Len(line') >= LineSize - 1
      BY <1>2, <1>3, <1>6 DEF TooLong
    <2>3. \A k \in 1..(LineSize - 1) : k \in 1..Len(line)
      BY <1>2, <1>6 DEF TooLong
    <2>4. \A k \in 1..(LineSize - 1) : cmdline[k - 1] = line'[k]
      BY <1>3, <1>6, <2>3 DEF TooLong, Stored
    <2>5. (i = LineSize /\ TooLong)'
      BY <1>6, <2>1, <2>2, <2>4 DEF TooLong, Stored
    <2> QED
      BY <1>1, <1>5, <2>5
  <1>7. CASE i = 0 /\ line = <<>>
    <2>1. line' = l /\ Typed' = rest'
      BY <1>1, <1>3, <1>7 DEF Typed
    <2>2. Reading'
      BY <1>1, <1>2, <1>4, <1>7, <2>1 DEF Reading, Stored
    <2> QED
      BY <1>1, <1>5, <2>2
  <1> QED
    BY <1>1, <1>6, <1>7 DEF Reading

(* getchar: the character is stored, or is the one that is dropped, or the *)
(* return that ends the line, or is stored behind cmdline.                 *)
LEMMA GetCharKeepsLine ==
    ASSUME LineInv, GetChar
    PROVE  LineInv'
  <1> USE DEF LineInv, LineTypeOK
  <1>1. /\ rest # <<>> /\ rest' = Tail(rest)
        /\ at[SHELL] = "readline" /\ current = SHELL /\ ~overrun
        /\ UNCHANGED <<line, typed>>
    BY DEF GetChar, Here
  <1>2. /\ LineSize \in Nat /\ LineSize >= 7 /\ SHELL \in Task
        /\ NUL \in Chars /\ CR \notin Chars /\ i \in Nat /\ Len(line) \in Nat
    BY LineConstants, Slots
  <1>3. /\ rest' \in Seq(Chars \cup {CR}) /\ Len(rest) \in Nat \ {0} /\ Len(rest') = Len(rest) - 1
        /\ \A k \in 1..Len(rest') : rest'[k] = rest[k + 1]
        /\ Head(rest) = rest[1] /\ rest[1] \in Chars \cup {CR}
        /\ rest' = <<>> <=> Len(rest) = 1
    <2>1. rest \in Seq(Chars \cup {CR}) /\ rest # <<>>
      BY <1>1
    <2>2. Len(rest) \in Nat \ {0} /\ Head(rest) = rest[1] /\ rest[1] \in Chars \cup {CR}
      BY <2>1
    <2>3. /\ rest' \in Seq(Chars \cup {CR}) /\ Len(rest') = Len(rest) - 1
          /\ \A k \in 1..Len(rest') : rest'[k] = rest[k + 1]
      BY <2>1, <1>1, ST!HeadTailProperties
    <2>4. rest' = <<>> <=> Len(rest') = 0
      BY <2>3, ST!EmptySeq
    <2> QED
      BY <2>2, <2>3, <2>4
  <1>4. \A l \in Labels : Goto(l) => at' \in [Task -> Labels] /\ at'[SHELL] = l
    BY <1>1, <1>2 DEF Goto
  <1>5. /\ Len(Typed) = Len(line) + 1 /\ Typed[Len(line) + 1] = CR
        /\ \A k \in 1..Len(line) : Typed[k] = line[k] /\ line[k] \in Chars
        /\ Typed' = Typed
    BY <1>1, AppendReturn DEF Typed
  <1>6. CASE i = LineSize - 1
    <2>1. i' = LineSize /\ UNCHANGED <<cmdline, overrun, at>>
      BY <1>2, <1>6 DEF GetChar
    <2>2. TooLong
      BY <1>1, <1>2, <1>3, <1>6 DEF Reading, TooLong
    <2>3. TooLong'
      BY <1>1, <2>1, <2>2 DEF TooLong, Stored
    <2> QED
      BY <1>1, <1>2, <1>3, <2>1, <2>3
  <1>7. CASE i = LineSize
    <2>1. overrun' = TRUE /\ UNCHANGED cmdline
      BY <1>2, <1>7 DEF GetChar, EndLine, StoreChar
    <2>2. at' \in [Task -> Labels] /\ i' \in 0..(LineSize + 1)
      BY <1>2, <1>4, <1>7 DEF GetChar, EndLine, Labels
    <2>3. TooLong
      BY <1>1, <1>2, <1>7 DEF Reading
    <2>4. TooLong'
      BY <1>1, <2>1, <2>3 DEF TooLong, Stored
    <2> QED
      BY <1>1, <1>3, <2>1, <2>2, <2>4
  <1>8. CASE i < LineSize - 1
    <2>1. Reading
      BY <1>1, <1>2, <1>8
    <2>2. rest[1] = Typed[i + 1] /\ i + Len(rest) = Len(line) + 1
      BY <2>1, <1>2, <1>3 DEF Reading
    <2>3. CASE Head(rest) = CR
      <3>1. ~(i < Len(line))
        <4> SUFFICES ASSUME i < Len(line) PROVE FALSE
          OBVIOUS
        <4>1. i + 1 \in 1..Len(line)
          BY <1>2
        <4>2. Typed[i + 1] \in Chars
          BY <1>5, <4>1
        <4> QED
          BY <1>2, <1>3, <2>2, <2>3, <4>2
      <3>2. i = Len(line) /\ rest' = <<>>
        BY <3>1, <1>2, <1>3, <2>2
      <3>3. i' = i /\ cmdline' = [cmdline EXCEPT ![i] = NUL] /\ UNCHANGED overrun /\ Goto("command")
        BY <1>2, <1>8, <2>3 DEF GetChar, EndLine, StoreChar
      <3>4. /\ cmdline' \in [0..(LineSize - 1) -> Chars] /\ cmdline'[i] = NUL
            /\ \A k \in 1..i : cmdline'[k - 1] = cmdline[k - 1]
        BY <3>3, <1>2, <1>8
      <3>5. Stored(i)'
        BY <3>3, <3>4, <2>1, <1>1 DEF Stored, Reading
      <3>6. at' \in [Task -> Labels] /\ at'[SHELL] = "command"
        BY <3>3, <1>4 DEF Labels
      <3> QED
        BY <1>1, <1>2, <1>3, <1>8, <3>2, <3>3, <3>4, <3>5, <3>6
    <2>4. CASE Head(rest) # CR
      <3>1. i < Len(line) /\ rest[1] = line[i + 1] /\ rest[1] \in Chars
        <4>1. i # Len(line)
          BY <1>3, <1>5, <2>2, <2>4
        <4>2. i < Len(line)
          BY <4>1, <1>2, <1>3, <2>2
        <4>3. i + 1 \in 1..Len(line)
          BY <4>2, <1>2
        <4> QED
          BY <4>2, <4>3, <1>5, <2>2
      <3>2. /\ i' = i + 1 /\ cmdline' = [cmdline EXCEPT ![i] = rest[1]]
            /\ UNCHANGED <<overrun, at>>
        BY <1>2, <1>3, <1>8, <2>4 DEF GetChar, StoreChar
      <3>3. /\ cmdline' \in [0..(LineSize - 1) -> Chars] /\ cmdline'[i] = rest[1]
            /\ \A k \in 1..i : cmdline'[k - 1] = cmdline[k - 1]
        BY <3>1, <3>2, <1>2, <1>8
      <3>4. \A k \in 1..(i + 1) : cmdline'[k - 1] = line[k]
        <4> SUFFICES ASSUME NEW k \in 1..(i + 1) PROVE cmdline'[k - 1] = line[k]
          OBVIOUS
        <4>1. CASE k = i + 1
          BY <4>1, <3>1, <3>3, <1>2
        <4>2. CASE k # i + 1
          <5>1. k \in 1..i
            BY <4>2, <1>2
          <5> QED
            BY <5>1, <3>3, <2>1 DEF Reading, Stored
        <4> QED
          BY <4>1, <4>2
      <3>5. \A k \in 1..Len(rest') : rest'[k] = Typed[(i + 1) + k]
        <4> SUFFICES ASSUME NEW k \in 1..Len(rest') PROVE rest'[k] = Typed[(i + 1) + k]
          OBVIOUS
        <4>1. k + 1 \in 1..Len(rest) /\ i + (k + 1) = (i + 1) + k
          BY <1>2, <1>3
        <4> QED
          BY <4>1, <1>3, <2>1 DEF Reading
      <3>6. i' <= LineSize - 1 /\ i' + Len(rest') = Len(line) + 1 /\ rest' # <<>>
        <4>1. i' = i + 1 /\ Len(rest') = Len(rest) - 1 /\ Len(rest) \in Nat
              /\ i + Len(rest) = Len(line) + 1 /\ i < Len(line)
          BY <1>3, <2>2, <3>1, <3>2
        <4>2. \A j, p, q \in Nat : j + p = q + 1 /\ j < q => p # 1 /\ (j + 1) + (p - 1) = q + 1
          OBVIOUS
        <4>3. Len(rest) # 1 /\ i' + Len(rest') = Len(line) + 1
          <5>1. i \in Nat /\ Len(rest) \in Nat /\ Len(line) \in Nat
            BY ONLY <4>1, <1>2
          <5>2. Len(rest) # 1
            BY ONLY <4>1, <5>1
          <5>3. (i + 1) + (Len(rest) - 1) = Len(line) + 1
            BY ONLY <4>1, <4>2, <5>1
          <5>4. i' + Len(rest') = (i + 1) + (Len(rest) - 1)
            BY ONLY <4>1
          <5> QED
            BY ONLY <5>2, <5>3, <5>4
        <4>4. i' <= LineSize - 1
          BY <4>1, <1>2, <1>8
        <4> QED
          BY <4>2, <4>3, <4>4, <1>3
      <3>7. Stored(i)'
        BY <1>1, <3>2, <3>4 DEF Stored
      <3>8. \A k \in 1..Len(rest') : rest'[k] = Typed'[i' + k]
        BY <1>5, <3>2, <3>5
      <3>9. Reading'
        BY <1>1, <3>6, <3>7, <3>8 DEF Reading
      <3> QED
        BY <1>1, <1>2, <1>3, <1>8, <3>2, <3>3, <3>9
    <2> QED
      BY <2>3, <2>4
  <1>9. i = LineSize - 1 \/ i = LineSize \/ i < LineSize - 1
    BY <1>1, <1>2 DEF Reading
  <1> QED
    BY <1>6, <1>7, <1>8, <1>9

(* The prompt starts a new line.                                           *)
LEMMA PromptKeepsLine ==
    ASSUME LineInv, ShellPrompt
    PROVE  LineInv'
  <1>1. /\ i' = 0 /\ line' = <<>> /\ UNCHANGED <<typed, cmdline, overrun, rest>>
        /\ at[SHELL] = "prompt" /\ ~overrun /\ at' = [at EXCEPT ![SHELL] = "readline"]
    BY DEF ShellPrompt, Here, Goto
  <1>2. SHELL \in Task /\ LineSize \in Nat
    BY Slots, LineConstants
  <1> QED
    BY <1>1, <1>2 DEF LineInv, LineTypeOK, Labels

(* Nothing else reads or writes what is typed.                             *)
LEMMA OthersKeepLine ==
    ASSUME LineInv, UNCHANGED <<typed, lineVars>>, at' \in [Task -> Labels],
           \/ at'[SHELL] = at[SHELL]
           \/ at'[SHELL] \in {"start", "exited"}
           \/ /\ ~overrun
              /\ at[SHELL] \in {"command", "spawned", "waitend"}
              /\ at'[SHELL] \in {"prompt", "spawned", "waitend"}
    PROVE  LineInv'
  BY DEF LineInv, LineTypeOK, lineVars, Reading, TooLong, Stored, Typed

(* Every step keeps the line editor's invariant. *)
LEMMA LineStep ==
    ASSUME LineInv, [SysNext]_sysVars
    PROVE  LineInv'
  <1> USE DEF LineInv, LineTypeOK
  <1>1. \A l \in Labels : Goto(l) => /\ at' \in [Task -> Labels]
                                     /\ current = SHELL => at'[SHELL] = l
                                     /\ current # SHELL => at'[SHELL] = at[SHELL]
    BY Slots DEF Goto
  <1>2. VM # SHELL /\ FS # SHELL /\ VM \in Task /\ FS \in Task /\ SHELL \in Task
    BY Slots
  <1>3. CASE UNCHANGED <<typed, lineVars, at>>
    BY <1>3, OthersKeepLine
  <1>4. CASE RunHello \/ RunExit \/ UnknownCommand \/ ShellSpawned \/ ShellWaitEnd
    <2>1. UNCHANGED <<typed, lineVars>> /\ ~overrun /\ current = SHELL
          /\ at[SHELL] \in {"command", "spawned", "waitend"}
      BY <1>4 DEF RunHello, RunExit, UnknownCommand, ShellSpawned, ShellWaitEnd, Here
    <2>2. Goto("spawned") \/ Goto("exited") \/ Goto("prompt") \/ Goto("waitend") \/ UNCHANGED at
      BY <1>4 DEF RunHello, RunExit, UnknownCommand, ShellSpawned, ShellWaitEnd
    <2>3. at' \in [Task -> Labels] /\ (at'[SHELL] \in {"prompt", "spawned", "waitend", "exited"} \/ at' = at)
      BY <1>1, <2>1, <2>2 DEF Labels
    <2> QED
      BY <2>1, <2>3, OthersKeepLine
  <1>5. CASE VmReceive \/ VmDispatch \/ VmShare \/ VmRead \/ VmClose \/ VmReply
             \/ FsReceive \/ FsServe \/ FsReadReply \/ HelloRun
    <2>1. UNCHANGED <<typed, lineVars>> /\ current # SHELL
      BY <1>5, <1>2 DEF VmReceive, VmDispatch, VmShare, VmRead, VmClose, VmReply,
            FsReceive, FsServe, FsReadReply, HelloRun, Here
    <2>2. \/ Goto("dispatch") \/ Goto("opened") \/ Goto("loop") \/ Goto("shared") \/ Goto("read")
          \/ Goto("closed") \/ Goto("serve") \/ Goto("copied") \/ Goto("exited")
      BY <1>5 DEF VmReceive, VmDispatch, VmShare, VmRead, VmClose, VmReply,
            FsReceive, FsServe, FsOpen, FsRead, FsClose, FsIgnore, FsReadReply, HelloRun
    <2>3. at' \in [Task -> Labels] /\ at'[SHELL] = at[SHELL]
      BY <1>1, <2>1, <2>2 DEF Labels
    <2> QED
      BY <2>1, <2>3, OthersKeepLine
  <1>6. CASE VmLaunch
    <2>1. UNCHANGED <<typed, lineVars>>
      BY <1>6 DEF VmLaunch
    <2>2. \/ UNCHANGED at
          \/ \E t \in Task : at' = [at EXCEPT ![VM] = "created", ![t] = "start"]
      BY <1>6 DEF VmLaunch
    <2>3. at' \in [Task -> Labels] /\ (at'[SHELL] = at[SHELL] \/ at'[SHELL] = "start")
      BY <1>2, <2>2 DEF Labels
    <2> QED
      BY <2>1, <2>3, OthersKeepLine
  <1>7. CASE SysKernel \/ UNCHANGED sysVars
    BY <1>3, <1>7 DEF SysKernel, sysVars, progVars
  <1> QED
    BY <1>4, <1>5, <1>6, <1>7, TypeLineKeepsLine, GetCharKeepsLine, PromptKeepsLine
       DEF SysNext, Machine

(* It holds when the machine starts. *)
LEMMA LineInit == SysInit => LineInv
  <1>1. LineSize \in Nat /\ LineSize >= 7 /\ MaxHello \in Nat /\ NUL \in Chars /\ SHELL \in Task
        /\ SHELL # VM
    BY LineConstants, Slots
  <1>2. <<>> \in Seq(Chars) /\ <<>> \in Seq(Chars \cup {CR})
    OBVIOUS
  <1> SUFFICES ASSUME SysInit PROVE LineInv
    OBVIOUS
  <1>3. \A t \in Task : at[t] \in {"loop", "prompt", "start"}
    BY DEF SysInit
  <1>4. at \in [Task -> Labels] /\ at[SHELL] = "prompt"
    BY <1>1, <1>3 DEF SysInit, Labels
  <1>5. /\ cmdline \in [0..(LineSize - 1) -> Chars] /\ i \in 0..(LineSize + 1) /\ overrun = FALSE
        /\ line = <<>> /\ rest = <<>> /\ typed \in 0..MaxHello
    BY <1>1 DEF SysInit
  <1> QED
    BY <1>2, <1>4, <1>5 DEF LineInv, LineTypeOK

(* What it is to begin with a word.                                        *)
LEMMA PrefixByCharacter ==
    ASSUME NEW S, NEW w \in Seq(S), NEW s \in Seq(S)
    PROVE  IsPrefix(w, s) <=> Len(w) <= Len(s) /\ \A k \in 1..Len(w) : w[k] = s[k]
  <1>1. Len(w) \in Nat /\ Len(s) \in Nat
    OBVIOUS
  <1>2. ASSUME Len(w) <= Len(s)
        PROVE  SubSeq(w, 1, Len(w)) = SubSeq(s, 1, Len(w)) <=> \A k \in 1..Len(w) : w[k] = s[k]
    <2>1. /\ SubSeq(w, 1, Len(w)) \in Seq(S) /\ Len(SubSeq(w, 1, Len(w))) = Len(w)
          /\ \A k \in 1..Len(w) : SubSeq(w, 1, Len(w))[k] = w[k]
      BY <1>1
    <2>2. /\ SubSeq(s, 1, Len(w)) \in Seq(S) /\ Len(SubSeq(s, 1, Len(w))) = Len(w)
          /\ \A k \in 1..Len(w) : SubSeq(s, 1, Len(w))[k] = s[k]
      BY <1>1, <1>2
    <2>3. ASSUME SubSeq(w, 1, Len(w)) = SubSeq(s, 1, Len(w)), NEW k \in 1..Len(w)
          PROVE  w[k] = s[k]
      BY <2>1, <2>2, <2>3
    <2>4. ASSUME \A k \in 1..Len(w) : w[k] = s[k]
          PROVE  SubSeq(w, 1, Len(w)) = SubSeq(s, 1, Len(w))
      BY <2>1, <2>2, <2>4, ST!SeqEqual
    <2> QED
      BY <2>3, <2>4
  <1> QED
    BY <1>2 DEF IsPrefix

(* What is in cmdline when the shell compares it is what was typed.        *)
LEMMA CommandInv ==
    ASSUME LineInv
    PROVE  CommandsAsTyped
  <1> SUFFICES ASSUME at[SHELL] = "command", NEW w \in {Hello, Exit}
               PROVE  Is(w) <=> IsPrefix(w, line) /\ (line = w \/ line[Len(w) + 1] = NUL)
    BY DEF CommandsAsTyped
  <1> DEFINE m == Len(w)
             n == Len(line)
             S == Chars \cup ToSet(w)
  <1>1. /\ m \in {4, 5} /\ DOMAIN w = 1..m /\ \A k \in 1..m : w[k] # NUL
        /\ LineSize \in Nat /\ LineSize >= 7
    BY LineConstants
  <1>2. line \in Seq(Chars) /\ n \in Nat /\ i \in Nat
    BY DEF LineInv, LineTypeOK
  <1>3. IsPrefix(w, line) <=> m <= n /\ \A k \in 1..m : w[k] = line[k]
    <2>1. w \in Seq(S) /\ line \in Seq(S)
      <3>1. w \in Seq(ToSet(w))
        BY DEF Hello, Exit, ToSet
      <3> QED
        BY <3>1, <1>2
    <2> QED
      BY <2>1, PrefixByCharacter
  <1>4. Is(w) <=> (\A k \in 1..m : cmdline[k - 1] = w[k]) /\ cmdline[m] = NUL
    BY <1>1 DEF Is
  <1>5. line = w => n = m
    OBVIOUS
  <1>6. m = n /\ (\A k \in 1..m : w[k] = line[k]) => line = w
    <2>1. w \in Seq(S) /\ line \in Seq(S)
      <3>1. w \in Seq(ToSet(w))
        BY DEF Hello, Exit, ToSet
      <3> QED
        BY <3>1, <1>2
    <2> QED
      BY <2>1, ST!SeqEqual
  <1> HIDE DEF m, n, S
  <1>7. CASE overrun
    <2>1. n >= LineSize - 1 /\ \A k \in 1..(LineSize - 1) : cmdline[k - 1] = line[k]
      BY <1>7 DEF LineInv, TooLong, Stored, n
    <2>2. m < n /\ m + 1 \in 1..(LineSize - 1) /\ (m + 1) - 1 = m
      BY <1>1, <1>2, <2>1
    <2>3. cmdline[m] = line[m + 1]
      BY <2>1, <2>2
    <2>4. \A k \in 1..m : k \in 1..(LineSize - 1)
      BY <1>1
    <2>5. \A k \in 1..m : cmdline[k - 1] = line[k]
      BY <2>1, <2>4
    <2>6. m <= n /\ m # n
      BY <1>1, <1>2, <2>2
    <2> QED
      BY <1>3, <1>4, <1>5, <2>3, <2>5, <2>6 DEF m
  <1>8. CASE ~overrun
    <2>1. n < LineSize - 1 /\ (\A k \in 1..n : cmdline[k - 1] = line[k]) /\ cmdline[n] = NUL
      BY <1>8 DEF LineInv, Stored, n
    <2>2. CASE m < n
      <3>1. /\ m + 1 \in 1..n /\ (m + 1) - 1 = m /\ m <= n /\ m # n
            /\ \A k \in 1..m : k \in 1..n
        BY <1>1, <1>2, <2>2
      <3>2. cmdline[m] = line[m + 1] /\ \A k \in 1..m : cmdline[k - 1] = line[k]
        BY <2>1, <3>1
      <3> QED
        BY <1>3, <1>4, <1>5, <3>1, <3>2 DEF m
    <2>3. CASE m = n
      BY <1>1, <1>2, <1>3, <1>4, <1>6, <2>1, <2>3
    <2>4. CASE m > n
      <3>1. n + 1 \in 1..m /\ (n + 1) - 1 = n /\ ~(m <= n)
        BY <1>1, <1>2, <2>4
      <3>2. cmdline[n] # w[n + 1]
        BY <1>1, <2>1, <3>1
      <3>3. ~Is(w)
        BY <1>4, <3>1, <3>2
      <3> QED
        BY <1>3, <3>1, <3>3
    <2> QED
      BY <1>1, <1>2, <2>2, <2>3, <2>4
  <1> QED
    BY <1>7, <1>8

(* However long the line buffer is and whatever is typed, a command runs   *)
(* when it is what was typed (shell/main.c:11-50).                         *)
THEOREM CommandsCorrect == SysSpec => []CommandsAsTyped
  <1>1. SysSpec => []LineInv
    BY LineInit, LineStep, PTL DEF SysSpec
  <1> QED
    BY <1>1, CommandInv, PTL

(* Only LineSize - 1 characters or more get behind cmdline                 *)
(* (shell/main.c:15-23).                                                   *)
THEOREM OverrunOnlyByLongLines == SysSpec => []OnlyLongLinesOverrun
  <1>1. SysSpec => []LineInv
    BY LineInit, LineStep, PTL DEF SysSpec
  <1>2. LineInv => OnlyLongLinesOverrun
    BY DEF LineInv, TooLong, OnlyLongLinesOverrun
  <1> QED
    BY <1>1, <1>2, PTL

----------------------------------------------------------------------------
(* System: the conversation of the four programs                           *)
(*                                                                         *)
(* One task runs at a time and every message is waited for, so the system  *)
(* is at one of a few points, each said by who has the CPU, who was woken  *)
(* and who waits for whom.                                                 *)

HELLO == 5  \* the slot hello gets: the first that is free

\* Task t has the CPU, at p in the kernel and l in its program.
Runs(t, p, l) == current = t /\ pc[t] = p /\ at[t] = l

\* Task t is to run for the first time.
Fresh(t, l) == state[t] = "runnable" /\ pc[t] = "user" /\ at[t] = l

\* Task t waits in ipc_receive for w; its program will go on at l.
Waits(t, l, w) == state[t] = "blocked" /\ pc[t] = "recv" /\ at[t] = l /\ waitFor[t] = w

\* Task t has been woken by message m.
Woken(t, l, m) == state[t] = "runnable" /\ pc[t] = "recv" /\ at[t] = l /\ message[t] = m

Dead(t) == state[t] = "runnable" /\ pc[t] = "dead" /\ at[t] = "exited" /\ destroyed[t]
Gone(t) == state[t] = "unused" /\ at[t] = "exited"

Says(n, b) == [src |-> n, body |-> b]

VmIdle  == Waits(VM, "dispatch", ANY)
FsIdle  == Waits(FS, "serve", ANY)
NoHello == state[HELLO] = "unused"
AllClosed == \A fd \in DOMAIN files : ~files[fd]
OneOpen   == \A fd \in DOMAIN files : files[fd] <=> fd = 0

\* From boot to the first prompt; the run queue is a stack, so fs runs first.
AtBoot ==
    /\ current = Idle /\ pc[Idle] = "boot" /\ runq = <<VM, SHELL, FS>>
    /\ Fresh(VM, "loop") /\ Fresh(SHELL, "prompt") /\ Fresh(FS, "loop")
    /\ NoHello /\ AllClosed
FsFirst ==
    /\ Runs(FS, "user", "loop") /\ runq = <<VM, SHELL>>
    /\ Fresh(VM, "loop") /\ Fresh(SHELL, "prompt")
    /\ NoHello /\ AllClosed

\* The shell reads or looks at a line; the vm server has not run yet or waits.
VmAside ==
    \/ Fresh(VM, "loop") /\ runq = <<VM>>
    \/ VmIdle /\ runq = <<>>
Quiet == VmAside /\ FsIdle /\ NoHello /\ AllClosed
Prompting == \E l \in {"prompt", "readline", "command"} : Runs(SHELL, "user", l) /\ Quiet

\* The shell asks the vm server: for hello, with a call, or for its own end.
Asks       == {"spawned", "exited"}
AskPc(l)   == IF l = "spawned" THEN "call" ELSE "exit"
AskBody(l) == IF l = "spawned" THEN SpawnMsg ELSE ExitMsg(SHELL)
AskRest(l) ==
    /\ FsIdle /\ NoHello /\ AllClosed
    /\ l = "exited" => destroyed[SHELL]
AskOut(l) == out[SHELL] = [dst |-> VM, to |-> "vm", body |-> AskBody(l)]

AskQueued(l) ==
    /\ Runs(VM, "user", "loop") /\ runq = <<>>
    /\ state[SHELL] = "blocked" /\ pc[SHELL] = AskPc(l) /\ at[SHELL] = l /\ AskOut(l) /\ AskRest(l)
AskPicked(l) ==
    /\ Runs(SHELL, AskPc(l), l) /\ runq = <<>> /\ AskOut(l)
    /\ Waits(VM, "dispatch", SHELL) /\ AskRest(l)
AskSent(l) ==
    /\ Runs(SHELL, After(AskPc(l)), l) /\ runq = <<VM>>
    /\ l = "spawned" => out[SHELL].to = "vm"
    /\ Woken(VM, "dispatch", Says("shell", AskBody(l))) /\ AskRest(l)

\* The shell has left the CPU.
ShellAway(l) == IF l = "spawned" THEN Waits(SHELL, l, VM) ELSE Dead(SHELL)
AskGot(l) ==
    /\ Runs(VM, "recv", "dispatch") /\ runq = <<>> /\ message[VM] = Says("shell", AskBody(l))
    /\ ShellAway(l) /\ AskRest(l)
AskTaken(l) ==
    /\ Runs(VM, "user", "dispatch") /\ runq = <<>> /\ msg[VM] = Says("shell", AskBody(l))
    /\ ShellAway(l) /\ AskRest(l)

Asking == \E l \in Asks : AskQueued(l) \/ AskPicked(l) \/ AskSent(l) \/ AskGot(l) \/ AskTaken(l)

\* The vm server's three calls to fs, named by where it goes on; fs finds descriptor 0.
FsCalls == {"opened", "read", "closed"}
Request(l) == CASE l = "opened" -> OpenMsg [] l = "read" -> ReadMsg(0) [] l = "closed" -> CloseMsg(0)
Reply(l)   == CASE l = "opened" -> OpenReply(0) [] l = "read" -> ReadReply(0) [] l = "closed" -> CloseReply(0)

\* The file and the buffer before and after fs has served each.
Before(l) ==
    CASE l = "opened" -> AllClosed
      [] l = "read"   -> OneOpen /\ shared[VM] = "own" /\ buf \in {"blank", "null"}
      [] l = "closed" -> OneOpen /\ buf = "image"
Served(l) ==
    CASE l = "opened" -> OneOpen
      [] l = "read"   -> OneOpen /\ buf = "image"
      [] l = "closed" -> AllClosed /\ buf = "image"

Called(l) ==
    /\ Runs(VM, "callrecv", l) /\ runq = <<FS>> /\ out[VM].to = "fs"
    /\ Woken(FS, "serve", Says("vm", Request(l))) /\ Before(l)
FsGot(l) ==
    /\ Runs(FS, "recv", "serve") /\ runq = <<>> /\ message[FS] = Says("vm", Request(l))
    /\ Waits(VM, l, FS) /\ Before(l)
FsTaken(l) ==
    /\ Runs(FS, "user", "serve") /\ runq = <<>> /\ msg[FS] = Says("vm", Request(l))
    /\ Waits(VM, l, FS) /\ Before(l)
FsCopied ==
    /\ Runs(FS, "user", "copied") /\ runq = <<>> /\ msg[FS] = Says("vm", Request("read"))
    /\ Waits(VM, "read", FS) /\ (~clobbered => Served("read"))
Replied(l) ==
    /\ Runs(FS, "user", "loop") /\ runq = <<VM>>
    /\ Woken(VM, l, Says("fs", Reply(l))) /\ Served(l)
VmGot(l) ==
    /\ Runs(VM, "recv", l) /\ runq = <<>> /\ message[VM] = Says("fs", Reply(l))
    /\ FsIdle /\ Served(l)
VmTaken(l) ==
    /\ Runs(VM, "user", l) /\ runq = <<>> /\ msg[VM] = Says("fs", Reply(l))
    /\ FsIdle /\ Served(l)
VmShared ==
    /\ Runs(VM, "user", "shared") /\ runq = <<>> /\ msg[VM] = Says("fs", Reply("opened"))
    /\ FsIdle /\ Before("read")

ShellWaitsTid == Waits(SHELL, "spawned", VM) /\ NoHello
Loading ==
    /\ ShellWaitsTid
    /\ \/ \E l \in FsCalls : Called(l) \/ FsGot(l) \/ FsTaken(l) \/ Replied(l) \/ VmGot(l) \/ VmTaken(l)
       \/ FsCopied
       \/ VmShared

\* hello is there and has not run.  The shell, woken after it, runs before it.
HelloReady == Fresh(HELLO, "start") /\ newTid = HELLO
Created  == /\ Runs(VM, "user", "created") /\ runq = <<HELLO>>
            /\ HelloReady /\ Waits(SHELL, "spawned", VM)
TidSent  == /\ Runs(VM, "user", "loop") /\ runq = <<HELLO, SHELL>>
            /\ HelloReady /\ Woken(SHELL, "spawned", Says("vm", SpawnReply(HELLO)))
TidGot   == /\ Runs(SHELL, "recv", "spawned") /\ runq = <<HELLO>>
            /\ HelloReady /\ VmIdle /\ message[SHELL] = Says("vm", SpawnReply(HELLO))
TidTaken  == /\ Runs(SHELL, "user", "spawned") /\ runq = <<HELLO>>
            /\ HelloReady /\ VmIdle /\ msg[SHELL] = Says("vm", SpawnReply(HELLO))

\* hello runs and ends while the shell waits for its end.
ShellWaitsEnd == Waits(SHELL, "waitend", ANY) /\ newTask = HELLO
HelloRuns == /\ Runs(HELLO, "user", "start") /\ runq = <<>>
            /\ ShellWaitsEnd /\ VmIdle
EndSent  == /\ Runs(HELLO, "exitsw", "exited") /\ runq = <<VM>> /\ destroyed[HELLO]
            /\ ShellWaitsEnd /\ Woken(VM, "dispatch", Says("hello", ExitMsg(HELLO)))
EndGot   == /\ Runs(VM, "recv", "dispatch") /\ runq = <<>> /\ message[VM] = Says("hello", ExitMsg(HELLO))
            /\ ShellWaitsEnd /\ Dead(HELLO)
EndTaken  == /\ Runs(VM, "user", "dispatch") /\ runq = <<>> /\ msg[VM] = Says("hello", ExitMsg(HELLO))
            /\ ShellWaitsEnd /\ Dead(HELLO)

HelloThere == name[HELLO] = "hello" /\ FsIdle /\ AllClosed
WithHello ==
    /\ HelloThere
    /\ \/ Created \/ TidSent \/ TidGot \/ TidTaken
       \/ HelloRuns \/ EndSent \/ EndGot \/ EndTaken

\* The shell is told of the end.
Telling  == /\ Runs(VM, "tell", "loop") /\ runq = <<>>
            /\ out[VM].to = "shell" /\ out[VM].body = DestroyMsg(HELLO) /\ ShellWaitsEnd
Told     == /\ Runs(VM, "user", "loop") /\ runq = <<SHELL>>
            /\ newTask = HELLO /\ Woken(SHELL, "waitend", Says("vm", DestroyMsg(HELLO)))
ShellGot == /\ Runs(SHELL, "recv", "waitend") /\ runq = <<>> /\ VmIdle
            /\ newTask = HELLO /\ message[SHELL] = Says("vm", DestroyMsg(HELLO))
ShellTaken == /\ Runs(SHELL, "user", "waitend") /\ runq = <<>> /\ VmIdle
             /\ newTask = HELLO /\ msg[SHELL] = Says("vm", DestroyMsg(HELLO))

HelloGone == NoHello /\ FsIdle /\ AllClosed
Ending ==
    /\ HelloGone
    /\ Telling \/ Told \/ ShellGot \/ ShellTaken

\* The shell has exited.
Leaving  == Runs(VM, "user", "loop") /\ runq = <<>> /\ Gone(SHELL) /\ FsIdle /\ NoHello
Stopping == current = Idle /\ pc[Idle] = "idle" /\ Gone(SHELL) /\ VmIdle /\ FsIdle

\* What holds at every point.
Base ==
    /\ name[VM] = "vm" /\ name[SHELL] = "shell" /\ name[FS] = "fs" /\ name[HELLO] \in {"", "hello"}
    /\ \A t \in Task \ {Idle, VM, SHELL, FS, HELLO} : state[t] = "unused" /\ name[t] = ""
    /\ \A t \in Task \ {VM, SHELL, FS} : at[t] \in {"start", "exited"}
    /\ pc[Idle] = "boot" => current = Idle
    /\ files \in [0..(NumMaxFile - 1) -> BOOLEAN]

Conversation ==
    /\ Base
    /\ \/ AtBoot \/ FsFirst \/ Prompting \/ Asking \/ Loading \/ WithHello \/ Ending \/ Leaving \/ Stopping
    /\ fault # "none" => fault = "switched to idle task" /\ Stopping

ProgTypeOK ==
    /\ at \in [Task -> Labels]
    /\ msg \in [Task -> Message]
    /\ newTask \in Task \cup {0} /\ newTid \in Task \cup {0}
    /\ buf \in {"none", "null", "blank", "image"}
    /\ heap \in 0..HeapCap
    /\ clobbered \in BOOLEAN

SysInv == ProgTypeOK /\ IInv /\ Conversation

(* Who runs, and where, says at which point the conversation is.           *)
LEMMA Distinct ==
    /\ Idle # VM /\ Idle # SHELL /\ Idle # FS /\ Idle # HELLO /\ VM # SHELL /\ VM # FS
    /\ VM # HELLO /\ SHELL # FS /\ SHELL # HELLO /\ FS # HELLO
    /\ Idle \in Task /\ VM \in Task /\ SHELL \in Task /\ FS \in Task /\ HELLO \in Task
    /\ Task \subseteq Nat /\ ANY \notin Task /\ DENY \notin Task /\ DENY # ANY
  <1>1. Idle = 1 /\ VM = 2 /\ SHELL = 3 /\ FS = 4 /\ HELLO = 5 /\ Task = 1..NumTask
        /\ NumTask \in Nat /\ NumTask >= 5 /\ ANY = 0 /\ DENY = -1
    BY Slots DEF HELLO, ANY, DENY
  <1> QED
    BY <1>1

(* At which points of the conversation the vm can be running, by the line of
   its program and the kernel call it is inside of. *)
LEMMA VmPoints ==
    ASSUME Conversation, current = VM
    PROVE  /\ pc[VM] = "user" =>
              \/ at[VM] = "loop" /\ \/ \E l \in Asks : AskQueued(l)
                                    \/ HelloThere /\ TidSent
                                    \/ HelloGone /\ Told
                                    \/ Leaving
              \/ at[VM] = "dispatch" /\ \/ \E l \in Asks : AskTaken(l)
                                        \/ HelloThere /\ EndTaken
              \/ at[VM] \in FsCalls /\ ShellWaitsTid /\ VmTaken(at[VM])
              \/ at[VM] = "shared" /\ ShellWaitsTid /\ VmShared
              \/ at[VM] = "created" /\ HelloThere /\ Created
           /\ pc[VM] = "recv" =>
              \/ \E l \in Asks : AskGot(l)
              \/ HelloThere /\ EndGot
              \/ ShellWaitsTid /\ \E l \in FsCalls : VmGot(l)
           /\ pc[VM] = "callrecv" => ShellWaitsTid /\ \E l \in FsCalls : Called(l)
           /\ pc[VM] = "tell" => HelloGone /\ Telling
           /\ pc[VM] \in {"user", "recv", "callrecv", "tell"}
  <1> USE Distinct DEF Runs
  <1>1. CASE AtBoot \/ FsFirst \/ Prompting \/ Stopping
    BY <1>1 DEF AtBoot, FsFirst, Prompting, Stopping
  <1>2. CASE Asking
    BY <1>2 DEF Asking, AskQueued, AskPicked, AskSent, AskGot, AskTaken
  <1>3. CASE Loading
    BY <1>3 DEF Loading, FsCalls, Called, FsGot, FsTaken, Replied, VmGot, VmTaken, FsCopied, VmShared
  <1>4. CASE WithHello
    BY <1>4 DEF WithHello, Created, TidSent, TidGot, TidTaken, HelloRuns, EndSent, EndGot, EndTaken
  <1>5. CASE Ending \/ Leaving
    BY <1>5 DEF Ending, Leaving, Telling, Told, ShellGot, ShellTaken
  <1> QED
    BY <1>1, <1>2, <1>3, <1>4, <1>5 DEF Conversation

(* What the shell asks, and where it goes on.                              *)
LEMMA AskFacts ==
    ASSUME NEW l \in Asks
    PROVE  /\ AskPc(l) \in SendPc
           /\ \/ l = "spawned" /\ AskPc(l) = "call" /\ AskBody(l) = SpawnMsg /\ After(AskPc(l)) = "callrecv"
              \/ l = "exited" /\ AskPc(l) = "exit" /\ AskBody(l) = ExitMsg(SHELL) /\ After(AskPc(l)) = "exitsw"
  <1>1. CASE l = "spawned"
    BY <1>1 DEF AskPc, AskBody, After, SendPc
  <1>2. CASE l = "exited"
    BY <1>2 DEF AskPc, AskBody, After, SendPc
  <1> QED
    BY <1>1, <1>2 DEF Asks

(* The three places of the kernel from which a task sends. *)
LEMMA SendPcFacts ==
    /\ SendPc = {"send", "call", "exit"}
    /\ "user" \notin SendPc /\ "recv" \notin SendPc /\ "callrecv" \notin SendPc /\ "exitsw" \notin SendPc
  BY DEF SendPc

(* At which points of the conversation the shell can be running. *)
LEMMA ShellPoints ==
    ASSUME Conversation, current = SHELL
    PROVE  /\ pc[SHELL] = "user" =>
              \/ at[SHELL] \in {"prompt", "readline", "command"} /\ Quiet
              \/ at[SHELL] = "spawned" /\ HelloThere /\ TidTaken
              \/ at[SHELL] = "waitend" /\ HelloGone /\ ShellTaken
           /\ pc[SHELL] \in SendPc => \E l \in Asks : AskPicked(l)
           /\ pc[SHELL] = "callrecv" => AskSent("spawned")
           /\ pc[SHELL] = "exitsw" => AskSent("exited")
           /\ pc[SHELL] = "recv" => (HelloThere /\ TidGot) \/ (HelloGone /\ ShellGot)
           /\ pc[SHELL] \in SendPc \cup {"user", "callrecv", "exitsw", "recv"}
  <1> USE Distinct, SendPcFacts DEF Runs
  <1>1. CASE AtBoot \/ FsFirst \/ Prompting \/ Stopping
    BY <1>1 DEF AtBoot, FsFirst, Prompting, Stopping
  <1>2. CASE Asking
    <2>1. PICK l \in Asks : AskQueued(l) \/ AskPicked(l) \/ AskSent(l) \/ AskGot(l) \/ AskTaken(l)
      BY <1>2 DEF Asking
    <2>2. /\ AskPc(l) \in SendPc
          /\ \/ l = "spawned" /\ After(AskPc(l)) = "callrecv"
             \/ l = "exited" /\ After(AskPc(l)) = "exitsw"
      BY AskFacts
    <2>3. CASE AskQueued(l) \/ AskGot(l) \/ AskTaken(l)
      BY <2>3 DEF AskQueued, AskGot, AskTaken
    <2>4. CASE AskPicked(l)
      BY <2>2, <2>4 DEF AskPicked
    <2>5. CASE AskSent(l)
      <3>1. pc[SHELL] = After(AskPc(l)) /\ at[SHELL] = l
        BY <2>5 DEF AskSent
      <3>2. (l = "spawned" /\ pc[SHELL] = "callrecv") \/ (l = "exited" /\ pc[SHELL] = "exitsw")
        BY <2>2, <3>1
      <3> QED
        BY <2>5, <3>2
    <2> QED
      BY <2>1, <2>3, <2>4, <2>5
  <1>3. CASE Loading
    BY <1>3 DEF Loading, FsCalls, Called, FsGot, FsTaken, Replied, VmGot, VmTaken, FsCopied, VmShared
  <1>4. CASE WithHello
    BY <1>4 DEF WithHello, Created, TidSent, TidGot, TidTaken, HelloRuns, EndSent, EndGot, EndTaken
  <1>5. CASE Ending \/ Leaving
    BY <1>5 DEF Ending, Leaving, Telling, Told, ShellGot, ShellTaken
  <1> QED
    BY <1>1, <1>2, <1>3, <1>4, <1>5 DEF Conversation

(* At which points of the conversation fs, hello and the idle task can be
   running; no other task ever is. *)
LEMMA OtherPoints ==
    ASSUME Conversation
    PROVE  /\ current = FS =>
              /\ pc[FS] = "user" =>
                    \/ at[FS] = "loop" /\ FsFirst
                    \/ at[FS] = "loop" /\ ShellWaitsTid /\ \E l \in FsCalls : Replied(l)
                    \/ at[FS] = "serve" /\ ShellWaitsTid /\ \E l \in FsCalls : FsTaken(l)
                    \/ at[FS] = "copied" /\ ShellWaitsTid /\ FsCopied
              /\ pc[FS] = "recv" => ShellWaitsTid /\ \E l \in FsCalls : FsGot(l)
              /\ pc[FS] \in {"user", "recv"}
           /\ current = HELLO => HelloThere /\ (HelloRuns \/ EndSent)
           /\ current = Idle => AtBoot \/ Stopping
           /\ current \in {Idle, VM, SHELL, FS, HELLO}
  <1> USE Distinct DEF Runs
  <1>1. CASE AtBoot \/ FsFirst \/ Prompting \/ Stopping
    BY <1>1 DEF AtBoot, FsFirst, Prompting, Stopping
  <1>2. CASE Asking
    BY <1>2 DEF Asking, AskQueued, AskPicked, AskSent, AskGot, AskTaken
  <1>3. CASE Loading
    BY <1>3 DEF Loading, FsCalls, Called, FsGot, FsTaken, Replied, VmGot, VmTaken, FsCopied, VmShared
  <1>4. CASE WithHello
    BY <1>4 DEF WithHello, Created, TidSent, TidGot, TidTaken, HelloRuns, EndSent, EndGot, EndTaken
  <1>5. CASE Ending \/ Leaving
    BY <1>5 DEF Ending, Leaving, Telling, Told, ShellGot, ShellTaken
  <1> QED
    BY <1>1, <1>2, <1>3, <1>4, <1>5 DEF Conversation

----------------------------------------------------------------------------
(* What the kernel's operators do at these points                          *)

(* list_pop_tail takes what list_push_back put there.                      *)
LEMMA PopPushed ==
    ASSUME NEW S, NEW s \in Seq(S), NEW e \in S
    PROVE  Append(s, e) # <<>> /\ Last(Append(s, e)) = e /\ Front(Append(s, e)) = s
  <1> DEFINE r == Append(s, e)
  <1>1. /\ r \in Seq(S) /\ Len(s) \in Nat /\ Len(r) = Len(s) + 1 /\ r[Len(s) + 1] = e /\ r # <<>>
        /\ \A k \in 1..Len(s) : r[k] = s[k]
    OBVIOUS
  <1> HIDE DEF r
  <1>2. Front(r) \in Seq(S) /\ Len(Front(r)) = Len(s) /\ \A k \in 1..Len(s) : Front(r)[k] = r[k]
    BY <1>1 DEF Front
  <1>3. Front(r) = s
    BY <1>1, <1>2, ST!SeqEqual
  <1>4. Last(r) = e
    BY <1>1 DEF Last
  <1> QED
    BY <1>1, <1>3, <1>4 DEF r

(* The list operations of the scheduler on the run queues that occur.      *)
LEMMA OneQueued ==
    ASSUME NEW x
    PROVE  /\ <<x>> # <<>> /\ Append(<<>>, x) = <<x>>
           /\ Last(<<x>>) = x /\ Front(<<x>>) = <<>>
  <1> DEFINE S == {x}
  <1>1. <<>> \in Seq(S) /\ x \in S
    OBVIOUS
  <1>2. Append(<<>>, x) = <<x>>
    <2>1. Append(<<>>, x) \in Seq(S) /\ Len(Append(<<>>, x)) = 1 /\ Append(<<>>, x)[1] = x
      BY <1>1
    <2> QED
      BY <2>1
  <1> HIDE DEF S
  <1>3. Append(<<>>, x) # <<>> /\ Last(Append(<<>>, x)) = x /\ Front(Append(<<>>, x)) = <<>>
    BY <1>1, PopPushed
  <1> QED
    BY <1>2, <1>3

(* The same of two tasks on the run queue.                                 *)
LEMMA TwoQueued ==
    ASSUME NEW x, NEW y
    PROVE  /\ <<x, y>> # <<>> /\ Append(<<x>>, y) = <<x, y>>
           /\ Last(<<x, y>>) = y /\ Front(<<x, y>>) = <<x>>
  <1> DEFINE S == {x, y}
  <1>1. <<x>> \in Seq(S) /\ <<x, y>> \in Seq(S) /\ x \in S /\ y \in S
    OBVIOUS
  <1> HIDE DEF S
  <1>2. Append(<<x>>, y) = <<x, y>>
    <2>1. /\ Append(<<x>>, y) \in Seq(S) /\ Len(Append(<<x>>, y)) = 2
          /\ Append(<<x>>, y)[1] = x /\ Append(<<x>>, y)[2] = y
      BY <1>1
    <2>2. Len(<<x, y>>) = 2 /\ <<x, y>>[1] = x /\ <<x, y>>[2] = y
      OBVIOUS
    <2>3. \A k \in 1..2 : k = 1 \/ k = 2
      OBVIOUS
    <2> QED
      BY <1>1, <2>1, <2>2, <2>3, ST!SeqEqual
  <1>3. /\ Append(<<x>>, y) # <<>> /\ Last(Append(<<x>>, y)) = y
        /\ Front(Append(<<x>>, y)) = <<x>>
    BY <1>1, PopPushed
  <1> QED
    BY <1>2, <1>3

(* The same of the three that kernel_main creates.                         *)
LEMMA ThreeQueued ==
    ASSUME NEW x, NEW y, NEW z
    PROVE  <<x, y, z>> # <<>> /\ Last(<<x, y, z>>) = z /\ Front(<<x, y, z>>) = <<x, y>>
  <1> DEFINE S == {x, y, z}
  <1>1. <<x, y>> \in Seq(S) /\ <<x, y, z>> \in Seq(S) /\ x \in S /\ y \in S /\ z \in S
    OBVIOUS
  <1> HIDE DEF S
  <1>2. Append(<<x, y>>, z) = <<x, y, z>>
    <2>1. /\ Append(<<x, y>>, z) \in Seq(S) /\ Len(Append(<<x, y>>, z)) = 3
          /\ Append(<<x, y>>, z)[1] = x /\ Append(<<x, y>>, z)[2] = y /\ Append(<<x, y>>, z)[3] = z
      <3>1. Len(<<x, y>>) = 2 /\ <<x, y>>[1] = x /\ <<x, y>>[2] = y
        OBVIOUS
      <3> QED
        BY <1>1, <3>1
    <2>2. Len(<<x, y, z>>) = 3 /\ <<x, y, z>>[1] = x /\ <<x, y, z>>[2] = y /\ <<x, y, z>>[3] = z
      OBVIOUS
    <2>3. \A k \in 1..3 : k = 1 \/ k = 2 \/ k = 3
      OBVIOUS
    <2> QED
      BY <1>1, <2>1, <2>2, <2>3, ST!SeqEqual
  <1>3. /\ Append(<<x, y>>, z) # <<>> /\ Last(Append(<<x, y>>, z)) = z
        /\ Front(Append(<<x, y>>, z)) = <<x, y>>
    BY <1>1, PopPushed
  <1> QED
    BY <1>2, <1>3

(* Each name a program sends to is that of one slot.                       *)
LEMMA NamesOfSlots ==
    ASSUME SysInv
    PROVE  /\ Lookup("vm", VM) /\ Lookup("shell", SHELL) /\ Lookup("fs", FS)
           /\ \A d \in Task : /\ Lookup("vm", d) => d = VM
                              /\ Lookup("shell", d) => d = SHELL
                              /\ Lookup("fs", d) => d = FS
           /\ ~NotFound("vm") /\ ~NotFound("shell") /\ ~NotFound("fs")
           /\ name[VM] = "vm" /\ name[SHELL] = "shell" /\ name[FS] = "fs"
           /\ \A t \in Task \ {VM, FS} : name[t] \notin Servers
  <1> USE Distinct
  <1>1. name[Idle] = "" /\ Servers = {"vm", "fs"}
    BY SystemAssumption DEF SysInv, IInv, IdleInv, SystemAssumption
  <1>2. /\ \A t \in Task : /\ name[t] = "vm" <=> t = VM
                           /\ name[t] = "shell" <=> t = SHELL
                           /\ name[t] = "fs" <=> t = FS
        /\ \A t \in Task \ {VM, FS} : name[t] \notin Servers
    BY <1>1 DEF SysInv, Conversation, Base
  <1>3. \A d \in Task : \A u \in 1..(d - 1) : u \in Task /\ u # d
    <2>1. NumTask \in Nat
      BY ConstantFacts
    <2> QED
      BY ONLY <2>1 DEF Task
  <1>4. ~NotFound("vm") /\ ~NotFound("shell") /\ ~NotFound("fs")
    BY <1>2 DEF NotFound
  <1>5. \A d \in Task : /\ Lookup("vm", d) <=> d = VM
                        /\ Lookup("shell", d) <=> d = SHELL
                        /\ Lookup("fs", d) <=> d = FS
    BY <1>2, <1>3 DEF Lookup
  <1> QED
    BY <1>2, <1>4, <1>5

(* Nobody is queued when all who are blocked wait in ipc_receive.          *)
LEMMA Calm ==
    ASSUME SysInv, \A s \in {VM, SHELL, FS, HELLO} : state[s] = "blocked" => pc[s] = "recv"
    PROVE  \A d \in Task : senders[d] = <<>>
  <1> USE Distinct
  <1>1. state[Idle] = "runnable"
    BY DEF SysInv, IInv, IdleInv
  <1>2. \A s \in Task : ~(state[s] = "blocked" /\ Sending(s))
    BY <1>1, SendPcFacts DEF SysInv, Conversation, Base, Sending
  <1>3. \A d \in Task : ToSet(senders[d]) = {} /\ senders[d] \in Seq(Task)
    <2>1. \A d \in Task : senders[d] \in Seq(Task)
      BY DEF SysInv, IInv, TypeOK
    <2>2. \A s, d \in Task : s \notin ToSet(senders[d])
      BY <1>2 DEF SysInv, IInv, SendersExact
    <2> QED
      BY <2>1, <2>2, ElementsSeq
  <1> QED
    BY <1>3, EmptyList

\* Message m is put into d, which waited; the sender goes on at p.
Delivered(d, m, p) ==
    /\ current' = current /\ runq' = Append(runq, d) /\ fault' = "none"
    /\ state'[d] = "runnable" /\ message'[d] = m /\ pc'[current] = p
    /\ \A t \in Task \ {d} : state'[t] = state[t] /\ message'[t] = message[t]
    /\ \A t \in Task \ {current} : pc'[t] = pc[t] /\ out'[t] = out[t]
    /\ UNCHANGED <<name, waitFor, shared>>

\* The task that blocks leaves the CPU to the one pushed last.
Yields ==
    /\ current' = IF runq # <<>> THEN Last(runq) ELSE Idle
    /\ runq' = IF runq # <<>> THEN Front(runq) ELSE runq

\* The current task blocks, in the kernel at p.
Blocks(p) ==
    /\ Yields /\ fault' = "none"
    /\ state'[current] = "blocked" /\ pc'[current] = p
    /\ \A t \in Task \ {current} : state'[t] = state[t] /\ pc'[t] = pc[t]
    /\ UNCHANGED <<name, message, shared>>

\* It waits in ipc_receive for src.
Parks(src) ==
    /\ Blocks("recv")
    /\ waitFor'[current] = src
    /\ \A t \in Task \ {current} : waitFor'[t] = waitFor[t]
    /\ UNCHANGED destroyed

(* ipc_send to a task that accepts the sender.                             *)
LEMMA SendDelivers ==
    ASSUME SysInv, fault = "none", pc[current] \in {"user", "tell"},
           NEW n, NEW d \in Task \ {current}, Lookup(n, d), Ready(d),
           NEW b, NEW k \in SendPc, ipc_send(n, b, k)
    PROVE  /\ Delivered(d, Says(name[current], b), After(k))
           /\ k = "call" => out'[current] = [dst |-> d, to |-> n, body |-> b]
  <1>1. current \in Task /\ TypeOK /\ IInv
    BY DEF SysInv, IInv, TypeOK
  <1>2. ~NotFound(n) /\ ~Lookup(n, current) /\ \A e \in Task : Lookup(n, e) => e = d
    BY <1>1, LookupUnique DEF NotFound, Lookup
  <1>3. SendReady(n, b, k)
    BY <1>2 DEF ipc_send, SendQueue, SendPanic
  <1>4. /\ Deliver(d, b)
        /\ pc' = [pc EXCEPT ![current] = After(k)]
        /\ out' = [out EXCEPT ![current] =
                      IF k = "call" THEN [dst |-> d, to |-> n, body |-> b] ELSE NoOut]
        /\ UNCHANGED <<current, name, waitFor, senders, shared>>
    BY <1>2, <1>3 DEF SendReady
  <1>5. d \notin ToSet(runq)
    BY <1>1 DEF IInv, RunQueueExact, Ready
  <1>6. runq' = Append(runq, d) /\ fault' = "none"
    BY <1>4, <1>5 DEF Deliver, Push, OnRunq
  <1> QED
    BY <1>1, <1>4, <1>6 DEF Deliver, Delivered, Says, TypeOK

(* ipc_send to a task that is doing something else.                        *)
LEMMA SendBlocks ==
    ASSUME SysInv, fault = "none", pc[current] = "user",
           NEW n, NEW d \in Task \ {current}, Lookup(n, d), ~Ready(d),
           NEW b, NEW k \in SendPc, ipc_send(n, b, k)
    PROVE  /\ Blocks(k) /\ UNCHANGED waitFor
           /\ out'[current] = [dst |-> d, to |-> n, body |-> b]
           /\ \A t \in Task \ {current} : out'[t] = out[t]
  <1>1. current \in Task /\ TypeOK /\ IInv /\ ~OnSenders(current)
    BY RunningFacts DEF SysInv, IInv, TypeOK
  <1>2. ~NotFound(n) /\ ~Lookup(n, current) /\ \A e \in Task : Lookup(n, e) => e = d
    BY <1>1, LookupUnique DEF NotFound, Lookup
  <1>3. SendQueue(n, b, k)
    BY <1>2 DEF ipc_send, SendReady, SendPanic
  <1>4. /\ out' = [out EXCEPT ![current] = [dst |-> d, to |-> n, body |-> b]]
        /\ pc' = [pc EXCEPT ![current] = k]
        /\ state' = [state EXCEPT ![current] = "blocked"]
        /\ Switch(runq, state')
        /\ fault' = fault
        /\ UNCHANGED <<name, waitFor, message, shared>>
    BY <1>1, <1>2, <1>3 DEF SendQueue
  <1>5. state'[current] = "blocked"
    BY <1>1, <1>4 DEF TypeOK
  <1>6. Yields
    BY <1>4, <1>5 DEF Switch, Yields
  <1> QED
    BY <1>1, <1>4, <1>5, <1>6 DEF Blocks, TypeOK

(* ipc_receive when nobody is queued.                                      *)
LEMMA ReceiveParks ==
    ASSUME SysInv, fault = "none",
           \A s \in {VM, SHELL, FS, HELLO} : state[s] = "blocked" => pc[s] = "recv",
           NEW src, ipc_receive(src)
    PROVE  Parks(src)
  <1>1. current \in Task /\ TypeOK /\ senders[current] = <<>>
    BY Calm DEF SysInv, IInv, TypeOK
  <1>2. DOMAIN senders[current] = {}
    BY <1>1
  <1>3. ReceiveNone(src) /\ UNCHANGED <<name, destroyed, message, shared>>
    BY <1>2 DEF ipc_receive, ReceivePick
  <1>4. /\ waitFor' = [waitFor EXCEPT ![current] = src]
        /\ state' = [state EXCEPT ![current] = "blocked"]
        /\ pc' = [pc EXCEPT ![current] = "recv"]
        /\ Switch(runq, state') /\ fault' = fault
    BY <1>3 DEF ReceiveNone, Wait
  <1>5. state'[current] = "blocked"
    BY <1>1, <1>4 DEF TypeOK
  <1>6. Yields
    BY <1>4, <1>5 DEF Switch, Yields
  <1> QED
    BY <1>1, <1>3, <1>4, <1>5, <1>6 DEF Blocks, Parks, TypeOK

----------------------------------------------------------------------------
(* The steps of the conversation: each takes its point to the next         *)

\* What the programs keep while the kernel runs.
ProgramsKeep == UNCHANGED <<at, newTask, newTid, buf, files, clobbered>>

(* The servers' slots stay theirs and the other slots stay unused.         *)
LEMMA BaseKept ==
    ASSUME SysInv, UNCHANGED name,
           \A t \in Task \ {Idle, VM, SHELL, FS, HELLO} : state'[t] = state[t],
           \A t \in Task \ {VM, SHELL, FS} : at'[t] \in {at[t], "exited"},
           current # Idle => pc'[Idle] = pc[Idle], current = Idle => pc'[Idle] # "boot",
           files' \in [0..(NumMaxFile - 1) -> BOOLEAN]
    PROVE  Base'
  BY Distinct DEF SysInv, Conversation, Base

(* A task that was woken has the CPU and takes its message                 *)
(* (ipc.c:94-102).                                                         *)
LEMMA TakesMessage ==
    ASSUME SysInv, SysKernel, FinishReceive
    PROVE  Conversation'
  <1> USE Distinct DEF Runs
  <1>1. /\ current \in Task /\ pc[current] = "recv" /\ pc'[current] = "user" /\ fault' = "none"
        /\ msg'[current] = message[current]
        /\ \A t \in Task \ {current} : pc'[t] = pc[t] /\ waitFor'[t] = waitFor[t]
        /\ UNCHANGED <<current, runq, state, name, destroyed, shared>> /\ ProgramsKeep
    BY DEF SysInv, IInv, TypeOK, ProgTypeOK, SysKernel, FinishReceive, Running, ProgramsKeep
  <1>2. Conversation /\ pc[Idle] # "recv"
    BY DEF SysInv, IInv, IdleInv
  <1>3. Base' /\ current # Idle
    BY <1>1, <1>2, BaseKept DEF ProgramsKeep, SysInv, Conversation, Base
  <1> USE <1>1 DEF ProgramsKeep
  <1>4. CASE current = VM
    <2>1. CASE \E l \in Asks : AskGot(l)
      <3>1. PICK l \in Asks : AskGot(l)
        BY <2>1
      <3>2. AskTaken(l)'
        BY <3>1, <1>4 DEF AskGot, AskTaken, ShellAway, Waits, Dead, AskRest, FsIdle, NoHello, AllClosed
      <3> QED
        BY <3>2, <1>3 DEF Asking, Conversation
    <2>2. CASE HelloThere /\ EndGot
      <3>1. HelloThere' /\ EndTaken'
        BY <2>2, <1>4 DEF HelloThere, EndGot, EndTaken, ShellWaitsEnd, Waits, Dead, FsIdle, AllClosed
      <3> QED
        BY <3>1, <1>3 DEF WithHello, Conversation
    <2>3. CASE ShellWaitsTid /\ \E l \in FsCalls : VmGot(l)
      <3>1. PICK l \in FsCalls : VmGot(l)
        BY <2>3
      <3>2. ShellWaitsTid' /\ VmTaken(l)'
        BY <2>3, <3>1, <1>4 DEF ShellWaitsTid, NoHello, VmGot, VmTaken, Waits, FsIdle, Served, OneOpen, AllClosed
      <3> QED
        BY <3>2, <1>3 DEF Loading, Conversation
    <2> QED
      BY <1>2, <1>4, <2>1, <2>2, <2>3, VmPoints
  <1>5. CASE current = SHELL
    <2>1. CASE HelloThere /\ TidGot
      <3>1. HelloThere' /\ TidTaken'
        BY <2>1, <1>5 DEF HelloThere, TidGot, TidTaken, HelloReady, Fresh, VmIdle, Waits, FsIdle, AllClosed
      <3> QED
        BY <3>1, <1>3 DEF WithHello, Conversation
    <2>2. CASE HelloGone /\ ShellGot
      <3>1. HelloGone' /\ ShellTaken'
        BY <2>2, <1>5 DEF HelloGone, ShellGot, ShellTaken, NoHello, VmIdle, Waits, FsIdle, AllClosed
      <3> QED
        BY <3>1, <1>3 DEF Ending, Conversation
    <2> QED
      BY <1>2, <1>5, <2>1, <2>2, ShellPoints
  <1>6. CASE current = FS
    <2>1. ShellWaitsTid /\ \E l \in FsCalls : FsGot(l)
      BY <1>2, <1>6, OtherPoints
    <2>2. PICK l \in FsCalls : FsGot(l)
      BY <2>1
    <2>3. ShellWaitsTid'
      BY <2>1, <1>6 DEF ShellWaitsTid, NoHello, Waits
    <2>4. Before(l)'
      BY <2>2 DEF FsGot, Before, OneOpen, AllClosed
    <2>5. FsTaken(l)'
      BY <2>2, <2>4, <1>6 DEF FsGot, FsTaken, Waits
    <2> QED
      BY <2>3, <2>5, <1>3 DEF Loading, Conversation
  <1>7. current # HELLO
    BY <1>2, OtherPoints DEF HelloRuns, EndSent
  <1> QED
    BY <1>2, <1>3, <1>4, <1>5, <1>6, <1>7, OtherPoints

(* A caller waits for the reply of the task it called (ipc.c:106-110).     *)
LEMMA CallWaits ==
    ASSUME SysInv, SysKernel, CallReceive
    PROVE  Conversation'
  <1> USE Distinct, OneQueued, TwoQueued DEF Runs
  <1>1. /\ current \in Task /\ fault = "none" /\ pc[current] = "callrecv" /\ Conversation
        /\ ProgramsKeep
    BY DEF SysInv, IInv, TypeOK, SysKernel, CallReceive, Running, ProgramsKeep
  <1>2. files \in [0..(NumMaxFile - 1) -> BOOLEAN] /\ pc[Idle] # "callrecv"
    BY DEF SysInv, Conversation, Base, IInv, IdleInv
  <1>3. ASSUME NEW src \in Task, Parks(src) PROVE Base'
    BY <1>1, <1>2, <1>3, BaseKept, VmPoints, ShellPoints, OtherPoints DEF Parks, Blocks, ProgramsKeep
  <1>4. CASE current = VM
    <2>1. PICK l \in FsCalls : ShellWaitsTid /\ Called(l)
      BY <1>1, <1>4, VmPoints
    <2>2. Parks(FS)
      <3>1. ipc_receive(FS)
        BY <2>1, <1>4, NamesOfSlots DEF CallReceive, Called
      <3>2. \A s \in {VM, SHELL, FS, HELLO} : state[s] = "blocked" => pc[s] = "recv"
        BY <2>1, <1>4, RunningFacts, <1>1
           DEF ShellWaitsTid, NoHello, Called, Waits, Woken, SysInv
      <3> QED
        BY <1>1, <3>1, <3>2, ReceiveParks
    <2>3. ShellWaitsTid' /\ FsGot(l)'
      BY <1>1, <1>4, <2>1, <2>2
         DEF Parks, Blocks, Yields, ProgramsKeep, ShellWaitsTid, NoHello, Called, FsGot, Waits, Woken, Before,
             OneOpen, AllClosed
    <2> QED
      BY <1>3, <2>2, <2>3 DEF Loading, Conversation, Parks, Blocks
  <1>5. CASE current = SHELL
    <2>1. AskSent("spawned") /\ "spawned" \in Asks
      BY <1>1, <1>5, ShellPoints DEF Asks
    <2>2. Parks(VM)
      <3>1. ipc_receive(VM)
        BY <2>1, <1>5, NamesOfSlots DEF CallReceive, AskSent
      <3>2. \A s \in {VM, SHELL, FS, HELLO} : state[s] = "blocked" => pc[s] = "recv"
        BY <2>1, <1>5, RunningFacts, <1>1
           DEF AskRest, FsIdle, NoHello, AskSent, Waits, Woken, SysInv
      <3> QED
        BY <1>1, <3>1, <3>2, ReceiveParks
    <2>3. AskGot("spawned")'
      BY <1>1, <1>5, <2>1, <2>2
         DEF Parks, Blocks, Yields, ProgramsKeep, AskSent, AskGot, AskRest, ShellAway, Waits, Woken, NoHello, FsIdle,
             AllClosed
    <2> QED
      BY <1>3, <2>1, <2>2, <2>3 DEF Asking, Conversation, Parks, Blocks
  <1>6. current \notin {FS, HELLO, Idle}
    BY <1>1, <1>2, OtherPoints DEF HelloRuns, EndSent
  <1> QED
    BY <1>1, <1>4, <1>5, <1>6, OtherPoints

(* A task that has exited leaves the CPU to the vm server (task.c:155-158). *)
LEMMA LeavesForGood ==
    ASSUME SysInv, SysKernel, FinishExit
    PROVE  Conversation'
  <1> USE Distinct, OneQueued, TwoQueued DEF Runs
  <1>1. /\ current \in Task /\ fault = "none" /\ Conversation /\ ProgramsKeep
        /\ pc[current] # "dead" /\ state[current] = "runnable"
    BY DEF SysInv, IInv, TypeOK, CurrentInv, SysKernel, FinishExit, ProgramsKeep
  <1>2. /\ pc[current] = "exitsw" /\ pc'[current] = "dead" /\ Switch(runq, state)
        /\ \A t \in Task \ {current} : pc'[t] = pc[t]
        /\ UNCHANGED <<state, name, destroyed, waitFor, message, shared, fault>>
    BY <1>1 DEF FinishExit, SysInv, IInv, TypeOK
  <1>3. files \in [0..(NumMaxFile - 1) -> BOOLEAN] /\ pc[Idle] # "exitsw"
    BY DEF SysInv, Conversation, Base, IInv, IdleInv
  <1>4. Base'
    BY <1>1, <1>2, <1>3, BaseKept DEF ProgramsKeep
  <1>5. CASE current = SHELL
    <2>1. AskSent("exited") /\ "exited" \in Asks
      BY <1>1, <1>2, <1>5, ShellPoints DEF Asks
    <2>2. AskGot("exited")'
      BY <1>1, <1>2, <1>5, <2>1
         DEF Switch, ProgramsKeep, AskSent, AskGot, AskRest, ShellAway, Dead, Woken, Waits, NoHello, FsIdle, AllClosed
    <2> QED
      BY <1>1, <1>2, <1>4, <2>1, <2>2 DEF Asking, Conversation
  <1>6. CASE current = HELLO
    <2>1. HelloThere /\ EndSent
      BY <1>1, <1>2, <1>6, OtherPoints DEF HelloRuns
    <2>2. HelloThere' /\ EndGot'
      BY <1>1, <1>2, <1>6, <2>1
         DEF Switch, ProgramsKeep, HelloThere, EndSent, EndGot, ShellWaitsEnd, Dead, Woken, Waits, FsIdle, AllClosed
    <2> QED
      BY <1>1, <1>2, <1>4, <2>2 DEF WithHello, Conversation
  <1>7. current \notin {VM, FS, Idle}
    BY <1>1, <1>2, <1>3, VmPoints, OtherPoints
  <1> QED
    BY <1>1, <1>5, <1>6, <1>7, OtherPoints

(* The vm server tells the shell that hello has ended (task.c:181-186).    *)
LEMMA TellsShell ==
    ASSUME SysInv, SysKernel, TellShell
    PROVE  Conversation'
  <1> USE Distinct DEF Runs
  <1>1. /\ current \in Task /\ fault = "none" /\ Conversation /\ ProgramsKeep
        /\ pc[current] = "tell" /\ pc[Idle] # "tell"
        /\ ipc_send("shell", out[current].body, "send") /\ UNCHANGED destroyed
    BY DEF SysInv, IInv, TypeOK, IdleInv, SysKernel, TellShell, Running, ProgramsKeep
  <1>2. current = VM /\ HelloGone /\ Telling
    BY <1>1, VmPoints, ShellPoints, OtherPoints, SendPcFacts DEF HelloRuns, EndSent
  <1>3. Lookup("shell", SHELL) /\ Ready(SHELL) /\ name[VM] = "vm"
    BY <1>2, NamesOfSlots DEF Telling, ShellWaitsEnd, Waits, Ready
  <1>4. Delivered(SHELL, Says("vm", DestroyMsg(HELLO)), "user")
    <2>1. "send" \in SendPc /\ After("send") = "user"
      BY DEF SendPc, After
    <2>2. Delivered(SHELL, Says(name[current], out[current].body), After("send"))
      BY ONLY <1>1, <1>2, <1>3, <2>1, SendDelivers, SysInv, Distinct
    <2> QED
      BY <1>2, <1>3, <2>1, <2>2 DEF Telling
  <1>5. HelloGone' /\ Told'
    BY <1>1, <1>2, <1>4, OneQueued, TwoQueued
       DEF Delivered, ProgramsKeep, HelloGone, Telling, Told, ShellWaitsEnd, Woken, Waits, NoHello, FsIdle, AllClosed
  <1>6. Base'
    BY <1>1, <1>2, <1>4, BaseKept DEF Delivered, ProgramsKeep, Conversation, Base
  <1> QED
    BY <1>4, <1>5, <1>6 DEF Delivered, Ending, Conversation

(* The idle task gives the CPU to fs, and has it again when nobody is left *)
(* (main.c:49-54).                                                         *)
LEMMA IdleSteps ==
    ASSUME SysInv, SysKernel, BootSwitch \/ IdlePanic
    PROVE  Conversation'
  <1> USE Distinct DEF Runs
  <1>1. /\ current \in Task /\ Conversation /\ ProgramsKeep /\ fault = "none"
        /\ pc[current] \in {"boot", "idle"}
    BY DEF SysInv, IInv, TypeOK, SysKernel, BootSwitch, IdlePanic, Running, ProgramsKeep
  <1>2. current = Idle /\ (AtBoot \/ Stopping)
    BY <1>1, VmPoints, ShellPoints, OtherPoints, SendPcFacts DEF HelloRuns, EndSent
  <1>3. CASE BootSwitch
    <2>1. /\ AtBoot /\ pc'[Idle] = "idle" /\ Switch(runq, state)
          /\ \A t \in Task \ {Idle} : pc'[t] = pc[t]
          /\ UNCHANGED <<state, name, destroyed, waitFor, message, shared, fault>>
      BY <1>1, <1>2, <1>3 DEF BootSwitch, Running, Stopping, SysInv, IInv, TypeOK
    <2>2. current' = FS /\ runq' = <<VM, SHELL>>
      <3>1. runq # <<>> /\ Last(runq) = FS /\ Front(runq) = <<VM, SHELL>>
        BY <2>1, ThreeQueued DEF AtBoot
      <3> QED
        BY <2>1, <3>1 DEF Switch
    <2>4. FsFirst'
      BY <1>1, <2>1, <2>2 DEF ProgramsKeep, AtBoot, FsFirst, Fresh, NoHello, AllClosed
    <2>3. Base'
      BY <1>1, <1>2, <2>1, BaseKept DEF ProgramsKeep, Conversation, Base
    <2> QED
      BY <1>1, <2>1, <2>3, <2>4 DEF Conversation
  <1>4. CASE IdlePanic
    <2>1. /\ Stopping /\ fault' = "switched to idle task"
          /\ UNCHANGED <<current, state, name, waitFor, runq, pc>>
      BY <1>1, <1>2, <1>4 DEF IdlePanic, Panic, Running, AtBoot
    <2>2. Stopping' /\ Base'
      BY <1>1, <2>1, BaseKept DEF ProgramsKeep, Stopping, Gone, VmIdle, FsIdle, Waits, Conversation, Base
    <2> QED
      BY <2>1, <2>2 DEF Conversation
  <1> QED
    BY <1>3, <1>4

(* The shell, picked by the vm server, delivers its request                *)
(* (ipc.c:63-68).                                                          *)
LEMMA PickedSends ==
    ASSUME SysInv, SysKernel, ResumeSend
    PROVE  Conversation'
  <1> USE Distinct DEF Runs
  <1>1. /\ current \in Task /\ Conversation /\ ProgramsKeep /\ fault = "none"
        /\ pc[current] \in SendPc /\ pc[Idle] \notin SendPc
    BY SendPcFacts DEF SysInv, IInv, TypeOK, IdleInv, SysKernel, ResumeSend, Running, ProgramsKeep
  <1>2. PICK l \in Asks : current = SHELL /\ AskPicked(l)
    BY <1>1, VmPoints, ShellPoints, OtherPoints, SendPcFacts DEF HelloRuns, EndSent
  <1>3. /\ Deliver(VM, AskBody(l))
        /\ pc' = [pc EXCEPT ![SHELL] = After(AskPc(l))]
        /\ out' = IF AskPc(l) = "call" THEN out ELSE [out EXCEPT ![SHELL] = NoOut]
        /\ UNCHANGED <<current, name, destroyed, waitFor, senders, shared>>
    <2>1. /\ pc[current] = AskPc(l) /\ current = SHELL /\ out[current].dst = VM
          /\ out[current].body = AskBody(l)
      BY <1>2 DEF AskPicked, AskOut
    <2>2. /\ Deliver(out[current].dst, out[current].body)
          /\ pc' = [pc EXCEPT ![current] = After(AskPc(l))]
          /\ out' = IF AskPc(l) = "call" THEN out ELSE [out EXCEPT ![current] = NoOut]
          /\ UNCHANGED <<current, name, destroyed, waitFor, senders, shared>>
      BY <2>1 DEF ResumeSend, Running
    <2> QED
      BY <2>1, <2>2
  <1>4. VM \notin ToSet(runq) /\ name[SHELL] = "shell"
    BY <1>2, NamesOfSlots DEF AskPicked, Waits, SysInv, IInv, RunQueueExact
  <1>5. /\ runq' = Append(runq, VM) /\ fault' = "none"
        /\ state' = [state EXCEPT ![VM] = "runnable"]
        /\ message' = [message EXCEPT ![VM] = Says("shell", AskBody(l))]
    BY <1>1, <1>2, <1>3, <1>4 DEF Deliver, Push, OnRunq, Says
  <1>6. /\ state'[VM] = "runnable" /\ message'[VM] = Says("shell", AskBody(l))
        /\ pc'[SHELL] = After(AskPc(l))
        /\ \A t \in Task \ {VM} : state'[t] = state[t] /\ message'[t] = message[t]
        /\ \A t \in Task \ {SHELL} : pc'[t] = pc[t]
    BY <1>3, <1>5 DEF SysInv, IInv, TypeOK
  <1>7. l = "spawned" => out'[SHELL].to = "vm"
    <2>1. l = "spawned" => AskPc(l) = "call" /\ out[SHELL].to = "vm"
      BY <1>2, AskFacts DEF AskPicked, AskOut
    <2> QED
      BY <1>3, <2>1
  <1>8. AskSent(l)'
    BY <1>1, <1>2, <1>3, <1>5, <1>6, <1>7, OneQueued, TwoQueued
       DEF ProgramsKeep, AskPicked, AskSent, AskRest, Waits, Woken, NoHello, FsIdle, AllClosed
  <1>9. Base'
    BY <1>1, <1>2, <1>3, <1>6, BaseKept DEF ProgramsKeep, Conversation, Base
  <1> QED
    BY <1>5, <1>8, <1>9 DEF Asking, Conversation

\* What a step of a program is shown to do.
GoodStep == [Next]_vars /\ Conversation'

(* What programs send is among what Ipc lets them send.                    *)
LEMMA Payloads ==
    /\ SpawnMsg \in Payload /\ OpenMsg \in Payload
    /\ \A t \in Task : SpawnReply(t) \in Payload
    /\ \A fd \in Fd : {OpenReply(fd), ReadMsg(fd), ReadReply(fd), CloseMsg(fd), CloseReply(fd)} \subseteq Payload
    /\ 0 \in Fd /\ "vm" \in Servers /\ "fs" \in Servers /\ "shell" \in Names /\ "hello" \in Names \ Servers
    /\ Servers \subseteq Names
  <1>1. 0 \in Fd
    BY SystemAssumption DEF SystemAssumption, Fd
  <1>2. /\ "vm" \in Servers /\ "fs" \in Servers /\ "shell" \in Names /\ "hello" \in Names \ Servers
        /\ Servers \subseteq Names
    BY SystemAssumption, ConstantFacts DEF SystemAssumption
  <1>3. SysPayload \subseteq Payload
    BY SystemAssumption DEF SystemAssumption
  <1> QED
    BY <1>1, <1>2, <1>3 DEF SysPayload

(* What Here says.                                                         *)
LEMMA HereFacts ==
    ASSUME SysInv, NEW t \in Task, NEW l, Here(t, l)
    PROVE  /\ current = t /\ pc[t] = "user" /\ at[t] = l /\ fault = "none" /\ ~clobbered
           /\ Running("user") /\ Conversation /\ t # Idle /\ name[t] \in Names
           /\ files \in [0..(NumMaxFile - 1) -> BOOLEAN]
           /\ at \in [Task -> Labels]
  BY RunningFacts DEF SysInv, Here, Running, ProgTypeOK, Conversation, Base

(* The shell reads a line: nobody else notices.                            *)
LEMMA ShellReads ==
    ASSUME SysInv, ShellPrompt \/ TypeLine \/ GetChar \/ UnknownCommand
    PROVE  GoodStep
  <1> USE Distinct
  <1>1. PICK l \in {"prompt", "readline", "command"} : Here(SHELL, l)
    BY DEF ShellPrompt, TypeLine, GetChar, UnknownCommand
  <1>2. /\ current = SHELL /\ pc[SHELL] = "user" /\ at[SHELL] = l /\ fault = "none" /\ Conversation
        /\ files \in [0..(NumMaxFile - 1) -> BOOLEAN] /\ at \in [Task -> Labels]
    BY <1>1, HereFacts
  <1>3. Quiet
    BY <1>2, ShellPoints
  <1>4. /\ UNCHANGED vars /\ UNCHANGED files
        /\ at'[SHELL] \in {"prompt", "readline", "command"}
        /\ \A t \in Task \ {SHELL} : at'[t] = at[t]
    BY <1>2 DEF ShellPrompt, TypeLine, GetChar, UnknownCommand, NoCall, Goto, EndLine
  <1>5. /\ UNCHANGED <<current, state, name, waitFor, runq, pc, fault>>
    BY <1>4 DEF vars
  <1>6. Prompting'
    BY <1>2, <1>3, <1>4, <1>5
       DEF Prompting, Runs, Quiet, VmAside, VmIdle, FsIdle, Fresh, Waits, NoHello, AllClosed
  <1>7. Base'
    BY <1>2, <1>4, <1>5, BaseKept
  <1> QED
    BY <1>2, <1>4, <1>5, <1>6, <1>7 DEF GoodStep, Conversation

(* The shell asks the vm server, which waits or has not run yet.           *)
LEMMA ShellAsks ==
    ASSUME SysInv, NEW l \in Asks, Here(SHELL, "command"),
           ipc_send("vm", AskBody(l), AskPc(l)),
           at' = [at EXCEPT ![SHELL] = l], UNCHANGED <<files, clobbered>>,
           l = "exited" => destroyed'[SHELL]
    PROVE  Conversation' /\ MaySend("vm")
  <1> USE Distinct DEF Runs
  <1>1. /\ current = SHELL /\ pc[SHELL] = "user" /\ at[SHELL] = "command" /\ fault = "none" /\ Conversation
        /\ files \in [0..(NumMaxFile - 1) -> BOOLEAN] /\ at \in [Task -> Labels]
    BY HereFacts
  <1>2. Quiet
    BY <1>1, ShellPoints
  <1>3. AskPc(l) \in SendPc /\ (l = "spawned" => AskPc(l) = "call")
    BY AskFacts
  <1>4. at'[SHELL] = l /\ \A t \in Task \ {SHELL} : at'[t] = at[t]
    BY <1>1
  <1>5. Lookup("vm", VM) /\ name[SHELL] = "shell" /\ name[SHELL] \notin Servers /\ "vm" \in Servers
    BY NamesOfSlots, Payloads
  <1>6. MaySend("vm")
    BY <1>1, <1>5 DEF MaySend
  <1>7. CASE Fresh(VM, "loop") /\ runq = <<VM>>
    <2>1. ~Ready(VM)
      BY <1>7 DEF Fresh, Ready
    <2>2. /\ Blocks(AskPc(l)) /\ UNCHANGED waitFor
          /\ out'[current] = [dst |-> VM, to |-> "vm", body |-> AskBody(l)]
      BY <1>1, <1>3, <1>5, <2>1, SendBlocks
    <2>3. current' = VM /\ runq' = <<>>
      BY <1>7, <2>2, OneQueued DEF Blocks, Yields
    <2>4. AskQueued(l)'
      BY <1>1, <1>2, <1>4, <1>7, <2>2, <2>3
         DEF Blocks, AskQueued, AskOut, AskRest, Quiet, Fresh, FsIdle, Waits, NoHello, AllClosed
    <2>5. Base'
      BY <1>1, <1>4, <2>2, BaseKept DEF Blocks
    <2> QED
      BY <1>6, <2>2, <2>4, <2>5 DEF Blocks, Asking, Conversation
  <1>8. CASE VmIdle /\ runq = <<>>
    <2>1. Ready(VM)
      BY <1>8 DEF VmIdle, Waits, Ready
    <2>2. /\ Delivered(VM, Says("shell", AskBody(l)), After(AskPc(l)))
          /\ AskPc(l) = "call" => out'[SHELL] = [dst |-> VM, to |-> "vm", body |-> AskBody(l)]
      BY <1>1, <1>3, <1>5, <2>1, SendDelivers
    <2>3. runq' = <<VM>>
      BY <1>8, <2>2, OneQueued DEF Delivered
    <2>4. AskSent(l)'
      <3>1. (Runs(SHELL, After(AskPc(l)), l) /\ runq = <<VM>>)'
        BY <1>1, <1>4, <2>2, <2>3 DEF Delivered
      <3>2. Woken(VM, "dispatch", Says("shell", AskBody(l)))'
        BY <1>1, <1>4, <1>8, <2>2 DEF Delivered, Woken, VmIdle, Waits
      <3>3. AskRest(l)'
        BY <1>1, <1>2, <1>4, <2>2 DEF Delivered, AskRest, Quiet, FsIdle, Waits, NoHello, AllClosed
      <3>4. l = "spawned" => out'[SHELL].to = "vm"
        BY <1>3, <2>2
      <3> QED
        BY <3>1, <3>2, <3>3, <3>4 DEF AskSent
    <2>5. Base'
      BY <1>1, <1>4, <2>2, BaseKept DEF Delivered
    <2> QED
      BY <1>6, <2>2, <2>4, <2>5 DEF Delivered, Asking, Conversation
  <1> QED
    BY <1>2, <1>7, <1>8 DEF Quiet, VmAside

(* The command line the shell has read makes it ask the vm: for a launch, or
   to be destroyed. *)
LEMMA ShellCommands ==
    ASSUME SysInv, RunHello \/ RunExit
    PROVE  GoodStep
  <1> USE Distinct
  <1>1. CASE RunHello
    <2>1. /\ Here(SHELL, "command") /\ ipc_call("vm", SpawnMsg) /\ Goto("spawned")
          /\ UNCHANGED <<files, clobbered>>
      BY <1>1 DEF RunHello, Call
    <2>2. current = SHELL /\ Running("user")
      BY <2>1, HereFacts
    <2>3. "spawned" \in Asks /\ AskBody("spawned") = SpawnMsg /\ AskPc("spawned") = "call"
          /\ "spawned" # "exited"
      BY DEF Asks, AskBody, AskPc
    <2>4. ipc_send("vm", AskBody("spawned"), AskPc("spawned"))
      BY <2>1, <2>3 DEF ipc_call
    <2>5. Conversation' /\ MaySend("vm")
      BY <2>1, <2>2, <2>3, <2>4, ShellAsks DEF Goto
    <2>6. Next
      BY <2>1, <2>2, <2>5, Payloads DEF Next, Program
    <2> QED
      BY <2>5, <2>6 DEF GoodStep
  <1>2. CASE RunExit
    <2>1. /\ Here(SHELL, "command") /\ task_exit /\ Goto("exited")
          /\ UNCHANGED <<files, clobbered>>
      BY <1>2 DEF RunExit
    <2>2. current = SHELL /\ Running("user") /\ name[SHELL] \notin Servers
      BY <2>1, HereFacts, NamesOfSlots
    <2>3. "exited" \in Asks /\ AskBody("exited") = ExitMsg(SHELL) /\ AskPc("exited") = "exit"
      BY DEF Asks, AskBody, AskPc
    <2>4. ipc_send("vm", AskBody("exited"), AskPc("exited")) /\ destroyed'[SHELL]
      BY <2>1, <2>2, <2>3 DEF task_exit, SysInv, IInv, TypeOK
    <2>5. Conversation'
      BY <2>1, <2>2, <2>3, <2>4, ShellAsks DEF Goto
    <2>6. Next
      BY <2>1, <2>2 DEF Next, Program
    <2> QED
      BY <2>5, <2>6 DEF GoodStep
  <1> QED
    BY <1>1, <1>2

(* The shell has the tid of hello and waits for its end; hello, which the  *)
(* vm server has put on the run queue, runs (shell/main.c:34-37).          *)
LEMMA ShellWaits ==
    ASSUME SysInv, ShellSpawned
    PROVE  GoodStep /\ newTask' = HELLO
  <1> USE Distinct DEF Runs
  <1>1. Here(SHELL, "spawned") /\ ipc_receive(ANY) /\ Goto("waitend") /\ UNCHANGED <<out, files, clobbered, newTid>>
        /\ newTask' = IF "tid" \in DOMAIN msg[SHELL].body THEN msg[SHELL].body.tid ELSE 0
    BY DEF ShellSpawned, Receive
  <1>2. /\ current = SHELL /\ pc[SHELL] = "user" /\ at[SHELL] = "spawned" /\ fault = "none" /\ Conversation
        /\ files \in [0..(NumMaxFile - 1) -> BOOLEAN] /\ at \in [Task -> Labels] /\ Running("user")
    BY <1>1, HereFacts
  <1>3. HelloThere /\ TidTaken
    BY <1>2, ShellPoints
  <1>4. newTask' = HELLO
    BY <1>1, <1>3 DEF TidTaken, Says, SpawnReply
  <1>5. at'[SHELL] = "waitend" /\ \A t \in Task \ {SHELL} : at'[t] = at[t]
    BY <1>1, <1>2 DEF Goto
  <1>6. Parks(ANY)
    <2>1. \A s \in {VM, SHELL, FS, HELLO} : state[s] = "blocked" => pc[s] = "recv"
      BY <1>2, <1>3, RunningFacts
         DEF SysInv, HelloThere, TidTaken, HelloReady, Fresh, VmIdle, FsIdle, Waits
    <2> QED
      BY <1>1, <1>2, <2>1, ReceiveParks
  <1>7. current' = HELLO /\ runq' = <<>>
    BY <1>3, <1>6, OneQueued DEF Parks, Blocks, Yields, TidTaken
  <1>8. HelloThere' /\ HelloRuns'
    BY <1>1, <1>2, <1>3, <1>4, <1>5, <1>6, <1>7
       DEF Parks, Blocks, HelloThere, TidTaken, HelloReady, HelloRuns, ShellWaitsEnd, Fresh, VmIdle, FsIdle, Waits,
           AllClosed
  <1>9. Base'
    BY <1>1, <1>2, <1>5, <1>6, BaseKept DEF Parks, Blocks
  <1>10. Next
    BY <1>1, <1>2 DEF Next, Program
  <1> QED
    BY <1>4, <1>6, <1>8, <1>9, <1>10 DEF Parks, Blocks, WithHello, Conversation, GoodStep

(* The shell prompts again when it hears of the end of the task it waits   *)
(* for, which is the first message it gets (shell/main.c:36-42).           *)
LEMMA ShellGoesOn ==
    ASSUME SysInv, ShellWaitEnd
    PROVE  GoodStep
  <1> USE Distinct DEF Runs
  <1>1. Here(SHELL, "waitend") /\ UNCHANGED <<files, clobbered>>
    BY DEF ShellWaitEnd
  <1>2. /\ current = SHELL /\ pc[SHELL] = "user" /\ at[SHELL] = "waitend" /\ fault = "none" /\ Conversation
        /\ files \in [0..(NumMaxFile - 1) -> BOOLEAN] /\ at \in [Task -> Labels]
    BY <1>1, HereFacts
  <1>3. HelloGone /\ ShellTaken
    BY <1>2, ShellPoints
  <1>4. UNCHANGED vars /\ Goto("prompt")
    BY <1>3 DEF ShellWaitEnd, NoCall, ShellTaken, Says
  <1>5. at'[SHELL] = "prompt" /\ \A t \in Task \ {SHELL} : at'[t] = at[t]
    BY <1>2, <1>4 DEF Goto
  <1>6. UNCHANGED <<current, state, name, waitFor, runq, pc, fault>>
    BY <1>4 DEF vars
  <1>7. Prompting'
    BY <1>1, <1>2, <1>3, <1>5, <1>6
       DEF Prompting, Quiet, VmAside, VmIdle, FsIdle, Waits, NoHello, AllClosed, HelloGone, ShellTaken
  <1>8. Base'
    BY <1>1, <1>2, <1>5, <1>6, BaseKept
  <1> QED
    BY <1>2, <1>4, <1>6, <1>7, <1>8 DEF GoodStep, Conversation

(* The vm server, about to wait for the first time, finds the shell queued *)
(* (ipc.c:75-87).                                                          *)
LEMMA VmPicks ==
    ASSUME SysInv, NEW l \in Asks, AskQueued(l), VmReceive
    PROVE  Conversation'
  <1> USE Distinct DEF Runs
  <1>1. Here(VM, "loop") /\ ipc_receive(ANY) /\ Goto("dispatch") /\ UNCHANGED <<out, files, clobbered>>
    BY DEF VmReceive, Receive
  <1>2. /\ current = VM /\ pc[VM] = "user" /\ at[VM] = "loop" /\ fault = "none" /\ Conversation
        /\ files \in [0..(NumMaxFile - 1) -> BOOLEAN] /\ at \in [Task -> Labels]
    BY <1>1, HereFacts
  <1>3. /\ state[SHELL] = "blocked" /\ pc[SHELL] = AskPc(l) /\ out[SHELL].dst = VM /\ runq = <<>>
        /\ Sending(SHELL)
    BY AskFacts DEF AskQueued, AskOut, Sending
  <1>4. \A s \in Task : state[s] = "blocked" /\ Sending(s) => s = SHELL
    BY <1>2, SendPcFacts, RunningFacts
       DEF SysInv, Conversation, Base, AskQueued, AskRest, FsIdle, Waits, NoHello, Sending
  <1>5. /\ senders[VM] \in Seq(Task) /\ SHELL \in ToSet(senders[VM])
        /\ \A s \in ToSet(senders[VM]) : s = SHELL
    <2>1. senders[VM] \in Seq(Task)
      BY DEF SysInv, IInv, TypeOK
    <2>2. \A s \in Task : s \in ToSet(senders[VM]) <=> state[s] = "blocked" /\ Sending(s) /\ out[s].dst = VM
      BY DEF SysInv, IInv, SendersExact
    <2>3. ToSet(senders[VM]) \subseteq Task
      BY <2>1, ElementsSeq
    <2> QED
      BY <1>3, <1>4, <2>1, <2>2, <2>3
  <1>6. \A k \in DOMAIN senders[VM] : senders[VM][k] = SHELL
    BY <1>5 DEF ToSet
  <1>7. DOMAIN senders[VM] # {}
    BY <1>5, ElementsSeq
  <1>8. ReceivePick(ANY) /\ UNCHANGED <<name, destroyed, message, shared>>
    BY <1>1, <1>2, <1>7 DEF ipc_receive, ReceiveNone
  <1>9. ~OnRunq(SHELL)
    BY <1>3, EmptyList DEF OnRunq
  <1>10. /\ Wait(SHELL, [state EXCEPT ![SHELL] = "runnable"], Append(runq, SHELL))
         /\ fault' = fault
    BY <1>2, <1>6, <1>8, <1>9 DEF ReceivePick
  <1>11. /\ waitFor' = [waitFor EXCEPT ![VM] = SHELL] /\ pc' = [pc EXCEPT ![VM] = "recv"]
         /\ state' = [[state EXCEPT ![SHELL] = "runnable"] EXCEPT ![VM] = "blocked"]
         /\ Switch(<<SHELL>>, state')
    BY <1>2, <1>3, <1>10, OneQueued DEF Wait
  <1>12. current' = SHELL /\ runq' = <<>>
    BY <1>11, OneQueued DEF Switch
  <1>13. /\ waitFor'[VM] = SHELL /\ pc'[VM] = "recv" /\ state'[VM] = "blocked" /\ state'[SHELL] = "runnable"
         /\ \A t \in Task \ {VM} : waitFor'[t] = waitFor[t] /\ pc'[t] = pc[t]
         /\ \A t \in Task \ {VM, SHELL} : state'[t] = state[t]
    BY <1>11 DEF SysInv, IInv, TypeOK
  <1>14. at'[VM] = "dispatch" /\ \A t \in Task \ {VM} : at'[t] = at[t]
    BY <1>1, <1>2 DEF Goto
  <1>15. AskPicked(l)'
    BY <1>1, <1>2, <1>8, <1>12, <1>13, <1>14
       DEF AskQueued, AskPicked, AskOut, AskRest, FsIdle, Waits, NoHello, AllClosed
  <1>16. Base'
    BY <1>1, <1>2, <1>8, <1>13, <1>14, BaseKept
  <1> QED
    BY <1>2, <1>10, <1>15, <1>16 DEF Asking, Conversation

(* The vm server waits for anyone: for the shell it has not heard yet, or  *)
(* after it has served (vm/main.c:17-18).                                  *)
LEMMA VmWaits ==
    ASSUME SysInv, VmReceive
    PROVE  GoodStep
  <1> USE Distinct DEF Runs
  <1>1. Here(VM, "loop") /\ ipc_receive(ANY) /\ Goto("dispatch") /\ UNCHANGED <<out, files, clobbered, newTid, newTask>>
    BY DEF VmReceive, Receive
  <1>2. /\ current = VM /\ pc[VM] = "user" /\ at[VM] = "loop" /\ fault = "none" /\ Conversation
        /\ files \in [0..(NumMaxFile - 1) -> BOOLEAN] /\ at \in [Task -> Labels] /\ Running("user")
    BY <1>1, HereFacts
  <1>3. at'[VM] = "dispatch" /\ \A t \in Task \ {VM} : at'[t] = at[t]
    BY <1>1, <1>2 DEF Goto
  <1>4. Next
    BY <1>1, <1>2 DEF Next, Program
  <1>5. ASSUME \A s \in {SHELL, FS, HELLO} : state[s] = "blocked" => pc[s] = "recv"
        PROVE  Parks(ANY) /\ Base'
    <2>1. \A s \in {VM, SHELL, FS, HELLO} : state[s] = "blocked" => pc[s] = "recv"
      BY <1>2, <1>5, RunningFacts DEF SysInv
    <2>2. Parks(ANY)
      BY <1>1, <1>2, <2>1, ReceiveParks
    <2>3. Base'
      BY <1>1, <1>2, <1>3, <2>2, BaseKept DEF Parks, Blocks
    <2> QED
      BY <2>2, <2>3
  <1>6. CASE \E l \in Asks : AskQueued(l)
    BY <1>4, <1>6, VmPicks DEF GoodStep
  <1>7. CASE HelloThere /\ TidSent
    <2>1. Parks(ANY) /\ Base'
      BY <1>5, <1>7 DEF HelloThere, FsIdle, TidSent, HelloReady, Fresh, Woken, Waits
    <2>2. current' = SHELL /\ runq' = <<HELLO>>
      BY <1>7, <2>1, TwoQueued DEF Parks, Blocks, Yields, TidSent
    <2>3. HelloThere' /\ TidGot'
      BY <1>1, <1>2, <1>3, <1>7, <2>1, <2>2
         DEF Parks, Blocks, HelloThere, TidSent, TidGot, HelloReady, Fresh, Woken, VmIdle, FsIdle, Waits, AllClosed
    <2> QED
      BY <1>4, <2>1, <2>3 DEF Parks, Blocks, WithHello, Conversation, GoodStep
  <1>8. CASE HelloGone /\ Told
    <2>1. Parks(ANY) /\ Base'
      BY <1>5, <1>8 DEF HelloGone, NoHello, FsIdle, Told, Woken, Waits
    <2>2. current' = SHELL /\ runq' = <<>>
      BY <1>8, <2>1, OneQueued DEF Parks, Blocks, Yields, Told
    <2>3. HelloGone' /\ ShellGot'
      BY <1>1, <1>2, <1>3, <1>8, <2>1, <2>2
         DEF Parks, Blocks, HelloGone, Told, ShellGot, NoHello, Woken, VmIdle, FsIdle, Waits, AllClosed
    <2> QED
      BY <1>4, <2>1, <2>3 DEF Parks, Blocks, Ending, Conversation, GoodStep
  <1>9. CASE Leaving
    <2>1. Parks(ANY) /\ Base'
      BY <1>5, <1>9 DEF Leaving, Gone, NoHello, FsIdle, Waits
    <2>2. current' = Idle
      BY <1>9, <2>1 DEF Parks, Blocks, Yields, Leaving
    <2>3. pc[Idle] = "idle"
      BY <1>2 DEF Conversation, Base, SysInv, IInv, IdleInv
    <2>4. Stopping'
      BY <1>2, <1>3, <1>9, <2>1, <2>2, <2>3 DEF Parks, Blocks, Leaving, Stopping, Gone, VmIdle, FsIdle, Waits
    <2> QED
      BY <1>4, <2>1, <2>4 DEF Parks, Blocks, Conversation, GoodStep
  <1> QED
    BY <1>2, <1>6, <1>7, <1>8, <1>9, VmPoints DEF FsCalls

(* The vm server calls fs, which waits for anyone (vm/main.c:20-40).       *)
LEMMA VmCalls ==
    ASSUME SysInv, NEW l \in FsCalls, NEW here, Here(VM, here),
           ShellWaitsTid, FsIdle, runq = <<>>, Before(l),
           ipc_call("fs", Request(l)), at' = [at EXCEPT ![VM] = l], UNCHANGED <<buf, files, clobbered>>
    PROVE  GoodStep
  <1> USE Distinct DEF Runs
  <1>1. /\ current = VM /\ pc[VM] = "user" /\ fault = "none" /\ Conversation
        /\ files \in [0..(NumMaxFile - 1) -> BOOLEAN] /\ at \in [Task -> Labels] /\ Running("user")
    BY HereFacts
  <1>2. at'[VM] = l /\ \A t \in Task \ {VM} : at'[t] = at[t]
    BY <1>1
  <1>3. Lookup("fs", FS) /\ Ready(FS) /\ pc[FS] = "recv" /\ name[VM] = "vm"
    BY NamesOfSlots DEF FsIdle, Waits, Ready
  <1>4. "call" \in SendPc /\ After("call") = "callrecv" /\ Request(l) \in Payload
    <2>1. ReadMsg(0) \in Payload /\ CloseMsg(0) \in Payload /\ OpenMsg \in Payload
      BY Payloads
    <2> QED
      BY <2>1 DEF SendPc, After, Request, FsCalls
  <1>5. /\ Delivered(FS, Says("vm", Request(l)), "callrecv")
        /\ out'[VM] = [dst |-> FS, to |-> "fs", body |-> Request(l)]
    <2>1. ipc_send("fs", Request(l), "call")
      BY DEF ipc_call
    <2>2. /\ Delivered(FS, Says(name[current], Request(l)), After("call"))
          /\ "call" = "call" => out'[current] = [dst |-> FS, to |-> "fs", body |-> Request(l)]
      BY ONLY <2>1, <1>1, <1>3, <1>4, SysInv, Distinct, SendDelivers
    <2> QED
      BY <2>2, <1>1, <1>3, <1>4
  <1>6. runq' = <<FS>>
    BY <1>5, OneQueued DEF Delivered
  <1>7. ShellWaitsTid' /\ Called(l)'
    <2>1. Before(l)'
      BY <1>5 DEF Delivered, Before, OneOpen, AllClosed
    <2>2. ShellWaitsTid'
      BY <1>1, <1>2, <1>5 DEF Delivered, ShellWaitsTid, NoHello, Waits
    <2>3. Woken(FS, "serve", Says("vm", Request(l)))'
      BY <1>1, <1>2, <1>5 DEF Delivered, FsIdle, Waits, Woken
    <2> QED
      BY <1>1, <1>2, <1>5, <1>6, <2>1, <2>2, <2>3 DEF Delivered, Called
  <1>8. Base'
    BY <1>1, <1>2, <1>5, BaseKept DEF Delivered
  <1>9. Next
    <2>1. MaySend("fs")
      BY <1>1, <1>3 DEF MaySend
    <2> QED
      BY <1>1, <1>4, <2>1, Payloads DEF Next, Program
  <1> QED
    BY <1>5, <1>7, <1>8, <1>9 DEF Delivered, Loading, Conversation, GoodStep

(* The vm server frees the slot of an exited task and, if it is not the    *)
(* shell's, goes on to tell the shell (task.c:160-189).                    *)
LEMMA VmDestroys ==
    ASSUME SysInv, NEW d \in {SHELL, HELLO}, Here(VM, "dispatch"), runq = <<>>, Dead(d),
           FsIdle, d = SHELL => NoHello, d = HELLO => HelloThere /\ ShellWaitsEnd,
           task_destroy(d), Goto("loop"), UNCHANGED <<newTask, files, clobbered>>
    PROVE  GoodStep
  <1> USE Distinct DEF Runs
  <1>1. /\ current = VM /\ pc[VM] = "user" /\ fault = "none" /\ Conversation
        /\ files \in [0..(NumMaxFile - 1) -> BOOLEAN] /\ at \in [Task -> Labels] /\ Running("user")
    BY HereFacts
  <1>2. at'[VM] = "loop" /\ \A t \in Task \ {VM} : at'[t] = at[t]
    BY <1>1 DEF Goto
  <1>3. TaskDestroy(d)
    BY DEF task_destroy, TaskDestroyPanic, Dead
  <1>4. /\ state'[d] = "unused" /\ \A t \in Task \ {d} : state'[t] = state[t]
        /\ \A t \in Task \ {VM} : pc'[t] = pc[t]
        /\ UNCHANGED <<current, name, waitFor, runq, fault>>
    <2>1. /\ state' = [state EXCEPT ![d] = "unused"]
          /\ pc' = pc \/ pc' = [pc EXCEPT ![VM] = "tell"]
          /\ UNCHANGED <<current, name, waitFor, runq, fault>>
      BY <1>1, <1>3 DEF TaskDestroy
    <2>2. state \in [Task -> States] /\ pc \in [Task -> Pc]
      BY DEF SysInv, IInv, TypeOK
    <2> QED
      BY <2>1, <2>2
  <1>5. Base'
    BY <1>1, <1>2, <1>4, BaseKept
  <1>6. CASE d = SHELL
    <2>1. UNCHANGED pc /\ name[d] = "shell"
      BY <1>3, <1>6, NamesOfSlots DEF TaskDestroy
    <2>2. Leaving'
      BY <1>1, <1>2, <1>4, <1>6, <2>1 DEF Leaving, Dead, Gone, FsIdle, Waits, NoHello
    <2>3. Done(d)
      BY DEF Dead, Done
    <2>4. Next
      BY <1>1, <2>1, <2>3 DEF Next, Program
    <2> QED
      BY <1>1, <1>4, <1>5, <2>2, <2>4 DEF Conversation, GoodStep
  <1>7. CASE d = HELLO
    <2>1. /\ pc' = [pc EXCEPT ![VM] = "tell"]
          /\ out' = [out EXCEPT ![VM] = [dst |-> 0, to |-> "shell", body |-> DestroyMsg(HELLO)]]
      BY <1>1, <1>3, <1>7 DEF TaskDestroy, HelloThere
    <2>2. pc'[VM] = "tell" /\ out'[VM].to = "shell" /\ out'[VM].body = DestroyMsg(HELLO)
      BY <2>1 DEF SysInv, IInv, TypeOK
    <2>3. HelloGone' /\ Telling'
      BY <1>1, <1>2, <1>4, <1>7, <2>2
         DEF Telling, HelloGone, HelloThere, ShellWaitsEnd, FsIdle, Waits, NoHello, AllClosed
    <2>4. Done(d) /\ MaySend("shell")
      BY <1>1, <1>7, NamesOfSlots DEF Dead, Done, MaySend, ShellWaitsEnd, Waits, Ready
    <2>5. Next
      BY <1>1, <2>4 DEF Next, Program
    <2> QED
      BY <1>1, <1>4, <1>5, <2>3, <2>5 DEF Ending, Conversation, GoodStep
  <1> QED
    BY <1>6, <1>7

(* What the vm server does with a request (vm/main.c:20-60).               *)
LEMMA VmDispatches ==
    ASSUME SysInv, VmDispatch
    PROVE  GoodStep
  <1> USE Distinct
  <1>1. Here(VM, "dispatch") /\ UNCHANGED <<newTask, buf, files, clobbered>>
    BY DEF VmDispatch
  <1>2. /\ current = VM /\ pc[VM] = "user" /\ at[VM] = "dispatch" /\ Conversation
    BY <1>1, HereFacts
  <1>3. /\ msg[VM].body.type = "SPAWN_TASK_MSG" => ipc_call("fs", OpenMsg) /\ Goto("opened")
        /\ msg[VM].body.type = "EXIT_TASK_MSG" => task_destroy(msg[VM].body.tid) /\ Goto("loop")
    BY DEF VmDispatch, Call
  <1>4. CASE \E l \in Asks : AskTaken(l)
    <2>1. PICK l \in Asks : AskTaken(l)
      BY <1>4
    <2>2. runq = <<>> /\ msg[VM] = Says("shell", AskBody(l)) /\ ShellAway(l) /\ AskRest(l)
      BY <2>1 DEF AskTaken
    <2>3. CASE l = "spawned"
      <3>1. msg[VM].body.type = "SPAWN_TASK_MSG"
        BY <2>2, <2>3, AskFacts DEF Says, SpawnMsg
      <3>2. ipc_call("fs", Request("opened")) /\ at' = [at EXCEPT ![VM] = "opened"]
        BY <1>2, <1>3, <3>1 DEF Goto, Request
      <3>3. ShellWaitsTid /\ FsIdle /\ Before("opened") /\ "opened" \in FsCalls
        BY <2>2, <2>3 DEF ShellAway, AskRest, ShellWaitsTid, Before, FsCalls
      <3> QED
        BY <1>1, <2>2, <3>2, <3>3, VmCalls
    <2>4. CASE l = "exited"
      <3>1. msg[VM].body.type = "EXIT_TASK_MSG" /\ msg[VM].body.tid = SHELL
        BY <2>2, <2>4, AskFacts DEF Says, ExitMsg
      <3>2. Dead(SHELL) /\ FsIdle /\ NoHello
        BY <2>2, <2>4 DEF ShellAway, AskRest
      <3> QED
        BY <1>1, <1>3, <2>2, <3>1, <3>2, VmDestroys
    <2> QED
      BY <2>3, <2>4 DEF Asks
  <1>5. CASE HelloThere /\ EndTaken
    <2>1. msg[VM].body.type = "EXIT_TASK_MSG" /\ msg[VM].body.tid = HELLO
      BY <1>5 DEF EndTaken, Says, ExitMsg
    <2>2. Dead(HELLO) /\ FsIdle /\ ShellWaitsEnd /\ runq = <<>>
      BY <1>5 DEF EndTaken, HelloThere
    <2> QED
      BY <1>1, <1>3, <1>5, <2>1, <2>2, VmDestroys
  <1> QED
    BY <1>2, <1>4, <1>5, VmPoints DEF FsCalls

(* Where the vm server is with a reply of fs.                              *)
LEMMA VmHasReply ==
    ASSUME SysInv, NEW l \in FsCalls, Here(VM, l)
    PROVE  /\ ShellWaitsTid /\ FsIdle /\ runq = <<>> /\ Served(l)
           /\ msg[VM] = Says("fs", Reply(l))
  <1>1. current = VM /\ pc[VM] = "user" /\ at[VM] = l /\ Conversation
    BY HereFacts, Distinct
  <1>2. ShellWaitsTid /\ VmTaken(l)
    BY <1>1, VmPoints DEF FsCalls
  <1> QED
    BY <1>2 DEF VmTaken

(* The vm server has a buffer, or registers NULL, and reads the file       *)
(* (vm/main.c:27-40).                                                      *)
LEMMA VmReads ==
    ASSUME SysInv, VmShare \/ VmRead \/ VmClose
    PROVE  GoodStep
  <1> USE Distinct
  <1>1. "opened" \in FsCalls /\ "read" \in FsCalls /\ "closed" \in FsCalls
    BY DEF FsCalls
  <1>2. CASE VmShare
    <2>1. /\ Here(VM, "opened") /\ ipc_share_buffer /\ Goto("shared") /\ buf' \in {"blank", "null"}
          /\ UNCHANGED <<msg, files, clobbered>>
      BY <1>2 DEF VmShare
    <2>2. /\ current = VM /\ pc[VM] = "user" /\ fault = "none" /\ Conversation
          /\ files \in [0..(NumMaxFile - 1) -> BOOLEAN] /\ at \in [Task -> Labels] /\ Running("user")
      BY <2>1, HereFacts
    <2>3. /\ ShellWaitsTid /\ FsIdle /\ runq = <<>> /\ Served("opened")
          /\ msg[VM] = Says("fs", Reply("opened"))
      BY <1>1, <2>1, VmHasReply
    <2>4. at'[VM] = "shared" /\ \A t \in Task \ {VM} : at'[t] = at[t]
      BY <2>1, <2>2 DEF Goto
    <2>5. /\ shared'[VM] = "own"
          /\ UNCHANGED <<current, state, name, waitFor, runq, pc, fault>>
      BY <2>1, <2>2 DEF ipc_share_buffer, SysInv, IInv, TypeOK
    <2>6. ShellWaitsTid' /\ VmShared'
      BY <2>1, <2>2, <2>3, <2>4, <2>5
         DEF VmShared, Runs, ShellWaitsTid, NoHello, FsIdle, Waits, Before, Served, OneOpen
    <2>7. Base'
      BY <2>1, <2>2, <2>4, <2>5, BaseKept
    <2>8. Next
      BY <2>1, <2>2 DEF Next, Program
    <2> QED
      BY <2>2, <2>5, <2>6, <2>7, <2>8 DEF Loading, Conversation, GoodStep
  <1>3. CASE VmRead
    <2>1. /\ Here(VM, "shared") /\ ipc_call("fs", ReadMsg(msg[VM].body.fd)) /\ Goto("read")
          /\ UNCHANGED <<buf, files, clobbered>>
      BY <1>3 DEF VmRead, Call
    <2>2. current = VM /\ pc[VM] = "user" /\ at[VM] = "shared" /\ Conversation
      BY <2>1, HereFacts
    <2>3. ShellWaitsTid /\ VmShared
      BY <2>2, VmPoints DEF FsCalls
    <2>4. msg[VM].body.fd = 0 /\ FsIdle /\ runq = <<>> /\ Before("read")
      BY <2>3 DEF VmShared, Says, Reply, OpenReply
    <2>5. ipc_call("fs", Request("read"))
      BY <2>1, <2>4 DEF Request
    <2> QED
      BY <1>1, <2>1, <2>2, <2>3, <2>4, <2>5, VmCalls DEF Goto
  <1>4. CASE VmClose
    <2>1. /\ Here(VM, "read") /\ ipc_call("fs", CloseMsg(msg[VM].body.fd)) /\ Goto("closed")
          /\ UNCHANGED <<buf, files, clobbered>>
      BY <1>4 DEF VmClose, Call
    <2>2. current = VM
      BY <2>1, HereFacts
    <2>3. /\ ShellWaitsTid /\ FsIdle /\ runq = <<>> /\ Served("read")
          /\ msg[VM] = Says("fs", Reply("read"))
      BY <1>1, <2>1, VmHasReply
    <2>4. msg[VM].body.fd = 0 /\ Before("closed")
      BY <2>3 DEF Says, Reply, ReadReply, Served, Before
    <2>5. ipc_call("fs", Request("closed"))
      BY <2>1, <2>4 DEF Request
    <2> QED
      BY <1>1, <2>1, <2>2, <2>3, <2>4, <2>5, VmCalls DEF Goto
  <1> QED
    BY <1>2, <1>3, <1>4

(* hello gets the first free slot, the one behind the three servers'       *)
(* (vm.c's vm_create; vm/main.c:43-45).                                    *)
LEMMA VmLaunches ==
    ASSUME SysInv, VmLaunch
    PROVE  GoodStep /\ newTid' = HELLO /\ at' \in [Task -> Labels] /\ ~(\A t \in Task : state[t] # "unused")
  <1> USE Distinct
  <1>1. Here(VM, "closed") /\ vm_create("hello") /\ UNCHANGED <<files, clobbered>> /\ "closed" \in FsCalls
    BY DEF VmLaunch, FsCalls
  <1>2. /\ current = VM /\ pc[VM] = "user" /\ fault = "none" /\ Conversation
        /\ files \in [0..(NumMaxFile - 1) -> BOOLEAN] /\ at \in [Task -> Labels] /\ Running("user")
    BY <1>1, HereFacts
  <1>3. ShellWaitsTid /\ FsIdle /\ runq = <<>> /\ Served("closed")
    BY <1>1, VmHasReply
  <1>4. /\ state[Idle] # "unused" /\ state[VM] # "unused" /\ state[SHELL] # "unused" /\ state[FS] # "unused"
        /\ state[HELLO] = "unused"
    BY <1>2, <1>3, RunningFacts DEF SysInv, ShellWaitsTid, NoHello, FsIdle, Waits
  <1>5. \A t \in Task : FreeSlot(t) => t = HELLO
    <2> SUFFICES ASSUME NEW t \in Task, FreeSlot(t), t # HELLO
                 PROVE  FALSE
      OBVIOUS
    <2>1. t \in Nat /\ HELLO = 5 /\ t > 5
      <3>1. t # Idle /\ t # VM /\ t # SHELL /\ t # FS
        BY <1>4 DEF FreeSlot
      <3> QED
        BY <3>1, Slots DEF HELLO, VM, SHELL, FS, Idle
    <2>2. HELLO \in 1..(t - 1)
      BY <2>1
    <2> QED
      BY <2>2, <1>4 DEF FreeSlot
  <1>6. VmCreate("hello")
    BY <1>1, <1>4 DEF vm_create, VmCreatePanic
  <1>7. ~OnSenders(HELLO) /\ senders[HELLO] = <<>> /\ ~OnRunq(HELLO)
    BY <1>4, UnusedFacts DEF SysInv
  <1>8. /\ name' = [name EXCEPT ![HELLO] = "hello"]
        /\ state' = [state EXCEPT ![HELLO] = "runnable"]
        /\ pc' = [pc EXCEPT ![HELLO] = "user"]
        /\ runq' = Append(runq, HELLO) /\ fault' = "none"
        /\ UNCHANGED <<current, waitFor, message>>
    BY <1>2, <1>5, <1>6, <1>7 DEF VmCreate, Push
  <1>9. newTid' = HELLO /\ at' = [at EXCEPT ![VM] = "created", ![HELLO] = "start"]
    <2>1. fault' # "no free task slots"
      BY <1>8
    <2> QED
      BY <2>1, <1>5 DEF VmLaunch
  <1>10. /\ at'[VM] = "created" /\ at'[HELLO] = "start" /\ \A t \in Task \ {VM, HELLO} : at'[t] = at[t]
         /\ at' \in [Task -> Labels]
    BY <1>2, <1>9 DEF Labels
  <1>11. /\ name'[HELLO] = "hello" /\ state'[HELLO] = "runnable" /\ pc'[HELLO] = "user"
         /\ \A t \in Task \ {HELLO} : name'[t] = name[t] /\ state'[t] = state[t] /\ pc'[t] = pc[t]
    BY <1>8 DEF SysInv, IInv, TypeOK
  <1>12. runq' = <<HELLO>>
    BY <1>3, <1>8, OneQueued
  <1>13. HelloThere' /\ Created'
    BY <1>1, <1>2, <1>3, <1>8, <1>9, <1>10, <1>11, <1>12
       DEF HelloThere, Created, Runs, HelloReady, Fresh, ShellWaitsTid, FsIdle, Waits, Served, AllClosed
  <1>14. Base'
    <2>1. Base
      BY <1>2 DEF Conversation
    <2>2. /\ name'[VM] = "vm" /\ name'[SHELL] = "shell" /\ name'[FS] = "fs" /\ name'[HELLO] = "hello"
          /\ \A t \in Task \ {Idle, VM, SHELL, FS, HELLO} : state'[t] = "unused" /\ name'[t] = ""
      <3>1. /\ name[VM] = "vm" /\ name[SHELL] = "shell" /\ name[FS] = "fs"
            /\ \A t \in Task \ {Idle, VM, SHELL, FS, HELLO} : state[t] = "unused" /\ name[t] = ""
        BY <2>1 DEF Base
      <3> QED
        BY ONLY <3>1, <1>11, Distinct
    <2>3. \A t \in Task \ {VM, SHELL, FS} : at'[t] \in {"start", "exited"}
      BY <2>1, <1>10, Distinct DEF Base
    <2>4. pc'[Idle] = "boot" => current' = Idle
      BY <2>1, <1>8, <1>11 DEF Base
    <2> QED
      BY <1>1, <1>2, <2>2, <2>3, <2>4 DEF Base
  <1>15. Next
    BY <1>1, <1>2, Payloads DEF Next, Program
  <1> QED
    BY <1>4, <1>8, <1>9, <1>10, <1>13, <1>14, <1>15 DEF WithHello, Conversation, GoodStep

(* The shell gets the tid of hello (vm/main.c:46-51).                      *)
LEMMA VmReplies ==
    ASSUME SysInv, VmReply
    PROVE  GoodStep
  <1> USE Distinct
  <1>1. /\ Here(VM, "created") /\ ipc_send("shell", SpawnReply(newTid), "send") /\ UNCHANGED destroyed
        /\ Goto("loop") /\ UNCHANGED <<files, clobbered, newTid>>
    BY DEF VmReply, Send
  <1>2. /\ current = VM /\ pc[VM] = "user" /\ at[VM] = "created" /\ fault = "none" /\ Conversation
        /\ files \in [0..(NumMaxFile - 1) -> BOOLEAN] /\ at \in [Task -> Labels] /\ Running("user")
    BY <1>1, HereFacts
  <1>3. HelloThere /\ Created
    BY <1>2, VmPoints DEF FsCalls
  <1>4. newTid = HELLO
    BY <1>3 DEF Created, HelloReady
  <1>5. Lookup("shell", SHELL) /\ Ready(SHELL) /\ pc[SHELL] = "recv" /\ name[VM] = "vm"
    BY <1>2, <1>3, NamesOfSlots DEF Created, Waits, Ready
  <1>6. Delivered(SHELL, Says("vm", SpawnReply(HELLO)), "user")
    <2>1. "send" \in SendPc /\ After("send") = "user"
      BY DEF SendPc, After
    <2>2. Delivered(SHELL, Says(name[current], SpawnReply(newTid)), After("send"))
      BY ONLY <1>1, <1>2, <1>5, <2>1, SendDelivers, SysInv, Distinct
    <2> QED
      BY <1>2, <1>4, <1>5, <2>1, <2>2
  <1>7. runq' = <<HELLO, SHELL>>
    BY <1>3, <1>6, TwoQueued DEF Delivered, Created
  <1>8. at'[VM] = "loop" /\ \A t \in Task \ {VM} : at'[t] = at[t]
    BY <1>1, <1>2 DEF Goto
  <1>9. HelloThere' /\ TidSent'
    BY <1>1, <1>2, <1>3, <1>6, <1>7, <1>8
       DEF Delivered, HelloThere, Created, TidSent, Runs, HelloReady, Fresh, FsIdle, Waits, Woken, AllClosed
  <1>10. Base'
    BY <1>1, <1>2, <1>6, <1>8, BaseKept DEF Delivered
  <1>11. Next
    <2>1. MaySend("shell") /\ SpawnReply(newTid) \in Payload /\ "shell" \in Names
      BY <1>2, <1>4, <1>5, Payloads DEF MaySend
    <2> QED
      BY <1>1, <1>2, <2>1 DEF Next, Program
  <1> QED
    BY <1>6, <1>9, <1>10, <1>11 DEF Delivered, WithHello, Conversation, GoodStep

(* fs waits for anyone: at boot, and when it has replied                   *)
(* (fs/main.c:50-54).                                                      *)
LEMMA FsWaits ==
    ASSUME SysInv, FsReceive
    PROVE  GoodStep
  <1> USE Distinct
  <1>1. Here(FS, "loop") /\ ipc_receive(ANY) /\ Goto("serve") /\ UNCHANGED <<out, buf, files, clobbered>>
    BY DEF FsReceive, Receive
  <1>2. /\ current = FS /\ pc[FS] = "user" /\ at[FS] = "loop" /\ fault = "none" /\ Conversation
        /\ files \in [0..(NumMaxFile - 1) -> BOOLEAN] /\ at \in [Task -> Labels] /\ Running("user")
    BY <1>1, HereFacts
  <1>3. at'[FS] = "serve" /\ \A t \in Task \ {FS} : at'[t] = at[t]
    BY <1>1, <1>2 DEF Goto
  <1>4. Next
    BY <1>1, <1>2 DEF Next, Program
  <1>5. ASSUME \A s \in {VM, SHELL, HELLO} : state[s] = "blocked" => pc[s] = "recv"
        PROVE  Parks(ANY) /\ Base'
    <2>1. \A s \in {VM, SHELL, FS, HELLO} : state[s] = "blocked" => pc[s] = "recv"
      BY <1>2, <1>5, RunningFacts DEF SysInv
    <2>2. Parks(ANY)
      BY <1>1, <1>2, <2>1, ReceiveParks
    <2>3. Base'
      BY <1>1, <1>2, <1>3, <2>2, BaseKept DEF Parks, Blocks
    <2> QED
      BY <2>2, <2>3
  <1>6. CASE FsFirst
    <2>1. Parks(ANY) /\ Base'
      BY <1>5, <1>6 DEF FsFirst, Fresh, NoHello
    <2>2. current' = SHELL /\ runq' = <<VM>>
      BY <1>6, <2>1, TwoQueued DEF Parks, Blocks, Yields, FsFirst
    <2>3. Quiet' /\ Runs(SHELL, "user", "prompt")'
      BY <1>1, <1>2, <1>3, <1>6, <2>1, <2>2
         DEF Parks, Blocks, FsFirst, Quiet, Runs, VmAside, Fresh, FsIdle, Waits, NoHello, AllClosed
    <2>4. Prompting'
      BY <2>3 DEF Prompting
    <2> QED
      BY <1>4, <2>1, <2>4 DEF Parks, Blocks, Conversation, GoodStep
  <1>7. CASE ShellWaitsTid /\ \E l \in FsCalls : Replied(l)
    <2>1. PICK l \in FsCalls : Replied(l)
      BY <1>7
    <2>2. Parks(ANY) /\ Base'
      BY <1>5, <1>7, <2>1 DEF ShellWaitsTid, NoHello, Replied, Woken, Waits
    <2>3. current' = VM /\ runq' = <<>>
      BY <2>1, <2>2, OneQueued DEF Parks, Blocks, Yields, Replied
    <2>4. Served(l)'
      BY <1>1, <2>1 DEF Replied, Served, OneOpen, AllClosed
    <2>5. ShellWaitsTid' /\ VmGot(l)'
      BY <1>2, <1>3, <1>7, <2>1, <2>2, <2>3, <2>4
         DEF Parks, Blocks, Replied, VmGot, Runs, Woken, FsIdle, ShellWaitsTid, NoHello, Waits
    <2> QED
      BY <1>4, <2>2, <2>5 DEF Parks, Blocks, Loading, Conversation, GoodStep
  <1> QED
    BY <1>2, <1>6, <1>7, OtherPoints

(* A reply of fs finds the vm server waiting for it (fs/main.c:56-85).     *)
LEMMA FsReplies ==
    ASSUME SysInv, NEW l \in FsCalls, NEW here, Here(FS, here),
           ShellWaitsTid, Waits(VM, l, FS), runq = <<>>,
           ipc_send("vm", Reply(l), "send"), UNCHANGED <<destroyed>>,
           at' = [at EXCEPT ![FS] = "loop"], Served(l)',
           files' \in [0..(NumMaxFile - 1) -> BOOLEAN]
    PROVE  GoodStep
  <1> USE Distinct
  <1>1. /\ current = FS /\ pc[FS] = "user" /\ fault = "none" /\ Conversation
        /\ at \in [Task -> Labels] /\ Running("user")
    BY HereFacts
  <1>2. at'[FS] = "loop" /\ \A t \in Task \ {FS} : at'[t] = at[t]
    BY <1>1
  <1>3. Lookup("vm", VM) /\ Ready(VM) /\ pc[VM] = "recv" /\ name[FS] = "fs"
    BY <1>1, NamesOfSlots DEF Waits, Ready
  <1>4. "send" \in SendPc /\ After("send") = "user" /\ Reply(l) \in Payload /\ "vm" \in Names
    <2>1. OpenReply(0) \in Payload /\ ReadReply(0) \in Payload /\ CloseReply(0) \in Payload /\ "vm" \in Names
      BY Payloads
    <2> QED
      BY <2>1 DEF SendPc, After, Reply, FsCalls
  <1>5. Delivered(VM, Says("fs", Reply(l)), "user")
    <2>1. Delivered(VM, Says(name[current], Reply(l)), After("send"))
      BY ONLY <1>1, <1>3, <1>4, SysInv, Distinct, SendDelivers, ipc_send("vm", Reply(l), "send")
    <2> QED
      BY <1>1, <1>3, <1>4, <2>1
  <1>6. runq' = <<VM>>
    BY <1>5, OneQueued DEF Delivered
  <1>7. ShellWaitsTid' /\ Replied(l)'
    BY <1>1, <1>2, <1>5, <1>6 DEF Delivered, ShellWaitsTid, NoHello, Replied, Runs, Waits, Woken
  <1>8. Base'
    BY <1>1, <1>2, <1>5, BaseKept DEF Delivered
  <1>9. Next
    <2>1. MaySend("vm")
      BY <1>1, <1>3 DEF MaySend
    <2> QED
      BY <1>1, <1>4, <2>1 DEF Next, Program
  <1> QED
    BY <1>5, <1>7, <1>8, <1>9 DEF Delivered, Loading, Conversation, GoodStep

(* fs opens descriptor 0, reads into the vm server's buffer and closes     *)
(* (fs/main.c:56-85).                                                      *)
LEMMA FsServes ==
    ASSUME SysInv, FsServe
    PROVE  GoodStep
  <1> USE Distinct
  <1>1. Here(FS, "serve") /\ (FsOpen \/ FsRead \/ FsClose \/ FsIgnore) /\ UNCHANGED msg
    BY DEF FsServe
  <1>2. /\ current = FS /\ pc[FS] = "user" /\ at[FS] = "serve" /\ fault = "none" /\ Conversation
        /\ files \in [0..(NumMaxFile - 1) -> BOOLEAN] /\ at \in [Task -> Labels] /\ ~clobbered
        /\ Running("user")
    BY <1>1, HereFacts
  <1>3. DOMAIN files = 0..(NumMaxFile - 1) /\ 0 \in DOMAIN files
    BY <1>2, SystemAssumption DEF SystemAssumption
  <1>4. PICK l \in FsCalls : ShellWaitsTid /\ FsTaken(l)
    BY <1>2, OtherPoints
  <1>5. /\ runq = <<>> /\ Waits(VM, l, FS) /\ Before(l)
        /\ msg[FS].src = "vm" /\ msg[FS].body = Request(l)
    BY <1>4 DEF FsTaken, Says
  <1>6. CASE l = "opened"
    <2>1. msg[FS].body.type = "OPEN_FILE_MSG"
      BY <1>5, <1>6 DEF Request, OpenMsg
    <2>2. FsOpen
      BY <1>1, <2>1 DEF FsRead, FsClose, FsIgnore
    <2>3. PICK fd \in Fd : /\ AllocFd(fd)
                           /\ files' = [f \in DOMAIN files |-> files[f] \/ f = fd]
                           /\ ipc_send("vm", OpenReply(fd), "send") /\ UNCHANGED destroyed
                           /\ Goto("loop")
      BY <1>5, <2>2 DEF FsOpen, Send
    <2>4. AllClosed
      BY <1>5, <1>6 DEF Before
    <2>5. fd = 0
      <3>1. fd \in DOMAIN files /\ \A f \in 0..(fd - 1) : files[f]
        BY <1>3, <2>3, <2>4 DEF AllocFd, AllClosed
      <3>2. fd \in Nat /\ (fd > 0 => 0 \in 0..(fd - 1))
        BY <1>3, <3>1, SystemAssumption DEF SystemAssumption
      <3> QED
        BY <1>3, <2>4, <3>1, <3>2 DEF AllClosed
    <2>6. /\ files' \in [0..(NumMaxFile - 1) -> BOOLEAN]
          /\ \A f \in DOMAIN files : files'[f] <=> f = 0
          /\ DOMAIN files' = DOMAIN files
      BY <1>2, <1>3, <2>3, <2>4, <2>5 DEF AllClosed
    <2>7. Served("opened")' /\ Reply("opened") = OpenReply(0)
      BY <2>6 DEF Served, OneOpen, Reply
    <2>8. ipc_send("vm", Reply(l), "send") /\ Served(l)'
      BY <1>6, <2>3, <2>5, <2>7
    <2> QED
      BY <1>1, <1>2, <1>4, <1>5, <2>3, <2>6, <2>8, FsReplies DEF Goto
  <1>7. CASE l = "closed"
    <2>1. msg[FS].body.type = "CLOSE_FILE_MSG" /\ msg[FS].body.fd = 0
      BY <1>5, <1>7 DEF Request, CloseMsg
    <2>2. FsClose
      BY <1>1, <2>1 DEF FsOpen, FsRead, FsIgnore
    <2>3. /\ files' = [f \in DOMAIN files |-> files[f] /\ f # 0]
          /\ ipc_send("vm", CloseReply(0), "send") /\ UNCHANGED <<destroyed, buf>>
          /\ Goto("loop")
      BY <1>5, <2>1, <2>2 DEF FsClose, Send
    <2>4. OneOpen /\ buf = "image"
      BY <1>5, <1>7 DEF Before
    <2>5. /\ files' \in [0..(NumMaxFile - 1) -> BOOLEAN]
          /\ \A f \in DOMAIN files' : ~files'[f]
      BY <1>2, <1>3, <2>3, <2>4 DEF OneOpen
    <2>6. Served("closed")' /\ Reply("closed") = CloseReply(0)
      BY <2>3, <2>4, <2>5 DEF Served, AllClosed, Reply
    <2>7. ipc_send("vm", Reply(l), "send") /\ Served(l)'
      BY <1>7, <2>3, <2>6
    <2> QED
      BY <1>1, <1>2, <1>4, <1>5, <2>3, <2>5, <2>7, FsReplies DEF Goto
  <1>8. CASE l = "read"
    <2>1. msg[FS].body.type = "READ_FILE_DATA_MSG" /\ msg[FS].body.fd = 0
      BY <1>5, <1>8 DEF Request, ReadMsg
    <2>2. FsRead
      BY <1>1, <2>1 DEF FsOpen, FsClose, FsIgnore
    <2>3. OneOpen /\ shared[VM] = "own" /\ buf \in {"blank", "null"}
      BY <1>5, <1>8 DEF Before
    <2>4. files[0] = TRUE
      BY <1>2, <1>3, <2>3 DEF OneOpen
    <2>5. /\ ipc_copy("vm") /\ Goto("copied") /\ UNCHANGED files
          /\ buf' = IF buf = "blank" THEN "image" ELSE buf
          /\ clobbered' = (buf = "null")
      BY <1>3, <1>5, <2>1, <2>2, <2>4 DEF FsRead, IsOpen
    <2>6. UNCHANGED vars
      BY <2>3, <2>5, NamesOfSlots DEF ipc_copy
    <2>7. UNCHANGED <<current, state, name, waitFor, runq, pc, fault>>
      BY <2>6 DEF vars
    <2>8. at'[FS] = "copied" /\ \A t \in Task \ {FS} : at'[t] = at[t]
      BY <1>2, <2>5 DEF Goto
    <2>9. ~clobbered' => Served("read")'
      BY <2>3, <2>5 DEF Served, OneOpen
    <2>10. FsCopied' /\ ShellWaitsTid'
      BY <1>1, <1>2, <1>4, <1>8, <2>7, <2>8, <2>9 DEF FsCopied, FsTaken, Runs, ShellWaitsTid, NoHello, Waits
    <2>11. Base'
      BY <1>2, <2>5, <2>7, <2>8, BaseKept
    <2> QED
      BY <1>2, <2>6, <2>7, <2>10, <2>11 DEF Loading, Conversation, GoodStep
  <1> QED
    BY <1>6, <1>7, <1>8 DEF FsCalls

(* fs replies after the copy (fs/main.c:72-78).                            *)
LEMMA FsReadReplies ==
    ASSUME SysInv, FsReadReply
    PROVE  GoodStep
  <1> USE Distinct
  <1>1. /\ Here(FS, "copied") /\ ipc_send(msg[FS].src, ReadReply(msg[FS].body.fd), "send") /\ UNCHANGED destroyed
        /\ Goto("loop") /\ UNCHANGED <<buf, files>>
    BY DEF FsReadReply, Send
  <1>2. /\ current = FS /\ pc[FS] = "user" /\ at[FS] = "copied" /\ Conversation /\ ~clobbered
        /\ files \in [0..(NumMaxFile - 1) -> BOOLEAN]
    BY <1>1, HereFacts
  <1>3. ShellWaitsTid /\ FsCopied
    BY <1>2, OtherPoints
  <1>4. /\ msg[FS].src = "vm" /\ msg[FS].body.fd = 0 /\ runq = <<>> /\ Waits(VM, "read", FS)
        /\ Served("read")
    BY <1>2, <1>3 DEF FsCopied, Says, Request, ReadMsg
  <1>5. ipc_send("vm", Reply("read"), "send") /\ "read" \in FsCalls
    BY <1>1, <1>4 DEF Reply, FsCalls
  <1>6. Served("read")'
    BY <1>1, <1>4 DEF Served, OneOpen
  <1> QED
    BY <1>1, <1>2, <1>3, <1>4, <1>5, <1>6, FsReplies DEF Goto

(* hello returns from main and tells the vm server, which waits for anyone *)
(* (crt0.c:3-7, task.c:148-158).                                           *)
LEMMA HelloEnds ==
    ASSUME SysInv, HelloRun
    PROVE  GoodStep
  <1> USE Distinct
  <1>1. /\ Running("user") /\ current \notin {Idle, VM, SHELL, FS} /\ task_exit /\ Goto("exited")
        /\ UNCHANGED <<newTask, files, clobbered>>
    BY DEF HelloRun
  <1>2. /\ fault = "none" /\ pc[current] = "user" /\ Conversation /\ TypeOK
        /\ files \in [0..(NumMaxFile - 1) -> BOOLEAN] /\ at \in [Task -> Labels]
    BY <1>1 DEF Running, SysInv, IInv, Conversation, Base, ProgTypeOK
  <1>3. current = HELLO /\ HelloThere /\ HelloRuns
    BY <1>1, <1>2, OtherPoints DEF EndSent, Runs
  <1>4. /\ destroyed'[HELLO] /\ ipc_send("vm", ExitMsg(HELLO), "exit")
    BY <1>1, <1>2, <1>3 DEF task_exit, TypeOK
  <1>5. at'[HELLO] = "exited" /\ \A t \in Task \ {HELLO} : at'[t] = at[t]
    BY <1>1, <1>2, <1>3 DEF Goto
  <1>6. Lookup("vm", VM) /\ Ready(VM) /\ name[HELLO] = "hello" /\ name[HELLO] \notin Servers
    BY <1>3, NamesOfSlots DEF HelloThere, HelloRuns, VmIdle, Waits, Ready
  <1>7. Delivered(VM, Says("hello", ExitMsg(HELLO)), "exitsw")
    <2>1. "exit" \in SendPc /\ After("exit") = "exitsw"
      BY DEF SendPc, After
    <2>2. Delivered(VM, Says(name[current], ExitMsg(HELLO)), After("exit"))
      BY ONLY <1>2, <1>3, <1>4, <1>6, <2>1, SendDelivers, SysInv, Distinct
    <2> QED
      BY <1>3, <1>6, <2>1, <2>2
  <1>8. runq' = <<VM>>
    BY <1>3, <1>7, OneQueued DEF Delivered, HelloRuns
  <1>9. HelloThere' /\ EndSent'
    BY <1>1, <1>3, <1>4, <1>5, <1>7, <1>8
       DEF Delivered, HelloThere, HelloRuns, EndSent, Runs, ShellWaitsEnd, VmIdle, FsIdle, Waits, Woken, AllClosed
  <1>10. Base'
    BY <1>1, <1>2, <1>3, <1>5, <1>7, BaseKept DEF Delivered
  <1>11. Next
    BY <1>1, <1>3, <1>6 DEF Next, Program
  <1> QED
    BY <1>7, <1>9, <1>10, <1>11 DEF Delivered, WithHello, Conversation, GoodStep

(* The data of the programs keep their types.                              *)
LEMMA ProgTypeStep ==
    ASSUME SysInv, [SysNext]_sysVars
    PROVE  ProgTypeOK'
  <1> USE Distinct
  <1>1. ProgTypeOK /\ current \in Task /\ message \in [Task -> Message] /\ HeapCap \in Nat
    BY SystemAssumption DEF SysInv, IInv, TypeOK, SystemAssumption
  <1>2. \A l \in Labels : Goto(l) => at' \in [Task -> Labels]
    BY <1>1 DEF Goto, ProgTypeOK
  <1>3. CASE SysKernel \/ UNCHANGED sysVars
    <2>1. /\ msg' = msg \/ msg' = [msg EXCEPT ![current] = message[current]]
          /\ UNCHANGED <<at, newTask, newTid, buf, heap, clobbered>>
      BY <1>3 DEF SysKernel, sysVars, progVars
    <2> QED
      BY <1>1, <2>1 DEF ProgTypeOK
  <1>4. CASE ShellPrompt \/ TypeLine \/ GetChar \/ UnknownCommand \/ RunHello \/ RunExit \/ ShellWaitEnd
    <2>1. \/ UNCHANGED at
          \/ Goto("readline") \/ Goto("command") \/ Goto("prompt") \/ Goto("spawned") \/ Goto("exited")
      BY <1>4 DEF ShellPrompt, TypeLine, GetChar, UnknownCommand, RunHello, RunExit, ShellWaitEnd, EndLine
    <2>2. UNCHANGED <<msg, newTask, newTid, buf, heap, clobbered>>
      BY <1>4 DEF ShellPrompt, TypeLine, GetChar, UnknownCommand, RunHello, RunExit, ShellWaitEnd
    <2>3. at' \in [Task -> Labels]
      BY <1>1, <1>2, <2>1 DEF Labels, ProgTypeOK
    <2> QED
      BY <1>1, <2>2, <2>3 DEF ProgTypeOK
  <1>5. CASE ShellSpawned
    <2>1. newTask' = HELLO
      BY <1>5, ShellWaits
    <2>2. Goto("waitend") /\ UNCHANGED <<msg, newTid, buf, heap, clobbered>>
      BY <1>5 DEF ShellSpawned
    <2>3. at' \in [Task -> Labels]
      BY <1>2, <2>2 DEF Labels
    <2> QED
      BY <1>1, <2>1, <2>2, <2>3 DEF ProgTypeOK
  <1>6. CASE VmReceive \/ VmDispatch \/ VmRead \/ VmClose \/ VmReply \/ FsReceive \/ FsReadReply \/ HelloRun
    <2>1. /\ \/ Goto("dispatch") \/ Goto("opened") \/ Goto("loop") \/ Goto("read") \/ Goto("closed")
             \/ Goto("serve") \/ Goto("exited")
          /\ UNCHANGED <<msg, newTask, newTid, buf, heap, clobbered>>
      BY <1>6 DEF VmReceive, VmDispatch, VmRead, VmClose, VmReply, FsReceive, FsReadReply, HelloRun
    <2>2. at' \in [Task -> Labels]
      BY <1>2, <2>1 DEF Labels
    <2> QED
      BY <1>1, <2>1, <2>2 DEF ProgTypeOK
  <1>7. CASE VmShare
    <2>1. /\ Goto("shared") /\ UNCHANGED <<msg, newTask, newTid, clobbered>>
          /\ heap' = heap \/ (heap < HeapCap /\ heap' = heap + 1)
          /\ buf' \in {"blank", "null"}
      BY <1>7 DEF VmShare
    <2>2. at' \in [Task -> Labels]
      BY <1>2, <2>1 DEF Labels
    <2>3. heap' \in 0..HeapCap
      <3>1. heap \in 0..HeapCap
        BY <1>1 DEF ProgTypeOK
      <3>2. CASE heap' = heap
        BY <3>1, <3>2
      <3>3. CASE heap < HeapCap /\ heap' = heap + 1
        BY <1>1, <2>1, <3>1, <3>3
      <3> QED
        BY <2>1, <3>2, <3>3
    <2> QED
      BY <1>1, <2>1, <2>2, <2>3 DEF ProgTypeOK
  <1>8. CASE VmLaunch
    <2>1. newTid' = HELLO /\ at' \in [Task -> Labels]
      BY <1>8, VmLaunches
    <2>2. UNCHANGED <<msg, newTask, buf, heap, clobbered>>
      BY <1>8 DEF VmLaunch
    <2> QED
      BY <1>1, <2>1, <2>2 DEF ProgTypeOK
  <1>9. CASE FsServe
    <2>1. /\ Goto("loop") \/ Goto("copied")
          /\ UNCHANGED <<msg, newTask, newTid, heap>>
          /\ buf' \in {buf, "image"} /\ clobbered' \in {clobbered, buf = "null"}
      BY <1>9 DEF FsServe, FsOpen, FsRead, FsClose, FsIgnore
    <2>2. at' \in [Task -> Labels]
      BY <1>2, <2>1 DEF Labels
    <2> QED
      BY <1>1, <2>1, <2>2 DEF ProgTypeOK
  <1> QED
    BY <1>3, <1>4, <1>5, <1>6, <1>7, <1>8, <1>9 DEF SysNext, Machine

(* Nothing changes at a point while nothing happens.                       *)
LEMMA NothingHappens ==
    ASSUME Conversation, UNCHANGED sysVars
    PROVE  Conversation'
  <1> USE DEF Runs, Waits, Woken, Fresh, Dead, Gone, VmIdle, FsIdle, NoHello, AllClosed, OneOpen
  <1>1. /\ UNCHANGED <<current, state, name, destroyed, waitFor, message, shared, runq, pc, out, fault>>
        /\ UNCHANGED <<at, msg, newTask, newTid, buf, files, clobbered>>
    BY DEF sysVars, vars, progVars
  <1>2. Base' /\ (AtBoot \/ FsFirst \/ Prompting \/ Leaving \/ Stopping
                     => (AtBoot \/ FsFirst \/ Prompting \/ Leaving \/ Stopping)')
    BY <1>1 DEF Conversation, Base, AtBoot, FsFirst, Prompting, Quiet, VmAside, Leaving, Stopping
  <1>3. Asking => Asking'
    BY <1>1 DEF Asking, AskQueued, AskPicked, AskSent, AskGot, AskTaken, AskOut, AskRest, ShellAway
  <1>4. Loading => Loading'
    <2>1. \A l \in FsCalls : (Before(l) => Before(l)') /\ (Served(l) => Served(l)')
      BY <1>1 DEF Before, Served
    <2>2. \A l \in FsCalls : /\ Called(l) => Called(l)'
                             /\ FsGot(l) => FsGot(l)'
                             /\ FsTaken(l) => FsTaken(l)'
      BY <1>1, <2>1 DEF Called, FsGot, FsTaken
    <2>3. \A l \in FsCalls : /\ Replied(l) => Replied(l)'
                             /\ VmGot(l) => VmGot(l)'
                             /\ VmTaken(l) => VmTaken(l)'
      BY <1>1, <2>1 DEF Replied, VmGot, VmTaken
    <2>4. "read" \in FsCalls
      BY DEF FsCalls
    <2>5. (FsCopied => FsCopied') /\ (VmShared => VmShared')
      BY <1>1, <2>1, <2>4 DEF FsCopied, VmShared
    <2>6. ShellWaitsTid => ShellWaitsTid'
      BY <1>1 DEF ShellWaitsTid
    <2> QED
      BY <2>2, <2>3, <2>5, <2>6 DEF Loading
  <1>5. WithHello => WithHello'
    BY <1>1 DEF WithHello, HelloThere, HelloReady, Created, TidSent, TidGot, TidTaken, HelloRuns, EndSent, EndGot,
                EndTaken, ShellWaitsEnd
  <1>6. Ending => Ending'
    BY <1>1 DEF Ending, HelloGone, Telling, Told, ShellGot, ShellTaken, ShellWaitsEnd
  <1>7. fault' = fault /\ (Stopping => Stopping')
    BY <1>1 DEF Stopping
  <1> QED
    BY <1>2, <1>3, <1>4, <1>5, <1>6, <1>7 DEF Conversation

(* Every step of the system is one that Ipc allows, and takes the          *)
(* conversation from one of its points to the next.                        *)
LEMMA SysStep ==
    ASSUME SysInv, [SysNext]_sysVars
    PROVE  SysInv' /\ [Next]_vars
  <1>1. GoodStep
    <2>1. CASE SysKernel
      <3>1. KernelStep
        BY <2>1 DEF SysKernel
      <3>2. Conversation'
        BY <2>1, <3>1, PickedSends, TakesMessage, CallWaits, LeavesForGood, TellsShell, IdleSteps DEF KernelStep
      <3> QED
        BY <3>1, <3>2 DEF Next, GoodStep
    <2>2. CASE UNCHANGED sysVars
      <3>1. UNCHANGED vars
        BY <2>2 DEF sysVars
      <3> QED
        BY <2>2, <3>1, NothingHappens DEF SysInv, GoodStep
    <2> QED
      BY <2>1, <2>2, ShellReads, ShellCommands, ShellWaits, ShellGoesOn, VmWaits, VmDispatches, VmReads, VmLaunches,
         VmReplies, FsWaits, FsServes, FsReadReplies, HelloEnds
         DEF SysNext, Machine
  <1>2. IInv'
    BY <1>1, NextStep DEF SysInv, GoodStep, StepOK
  <1> QED
    BY <1>1, <1>2, ProgTypeStep DEF SysInv, GoodStep

(* The system boots into the first point.                                  *)
LEMMA SysInitInv == SysInit => SysInv /\ Init
  <1> USE Distinct
  <1> SUFFICES ASSUME SysInit PROVE SysInv /\ Init
    OBVIOUS
  <1>1. Init
    BY DEF SysInit
  <1>2. IInv
    BY <1>1, InitInv
  <1>3. BootNames = <<"vm", "shell", "fs">>
    BY SystemAssumption DEF SystemAssumption
  <1>4. /\ Len(BootNames) = 3 /\ BootNames[1] = "vm" /\ BootNames[2] = "shell" /\ BootNames[3] = "fs"
    BY <1>3
  <1>5. Booted = {VM, SHELL, FS} /\ HELLO \notin Booted
    BY <1>4 DEF Booted, VM, SHELL, FS, HELLO
  <1>6. runq = <<VM, SHELL, FS>>
    <2>1. runq = [k \in 1..3 |-> k + 1]
      BY <1>1, <1>4 DEF Init
    <2>2. runq \in Seq(Nat) /\ Len(runq) = 3 /\ runq[1] = 2 /\ runq[2] = 3 /\ runq[3] = 4
      BY <2>1
    <2>3. <<2, 3, 4>> \in Seq(Nat) /\ Len(<<2, 3, 4>>) = 3
      OBVIOUS
    <2>4. \A k \in 1..3 : runq[k] = <<2, 3, 4>>[k]
      <3>1. \A k \in 1..3 : k = 1 \/ k = 2 \/ k = 3
        OBVIOUS
      <3>2. <<2, 3, 4>>[1] = 2 /\ <<2, 3, 4>>[2] = 3 /\ <<2, 3, 4>>[3] = 4
        OBVIOUS
      <3> QED
        BY <2>2, <3>1, <3>2
    <2>5. runq = <<2, 3, 4>>
      BY <2>2, <2>3, <2>4, ST!SeqEqual
    <2> QED
      BY <2>5 DEF VM, SHELL, FS
  <1>7. /\ name[VM] = "vm" /\ name[SHELL] = "shell" /\ name[FS] = "fs"
    <2>2. name = [t \in Task |-> IF t \in Booted THEN BootNames[t - 1] ELSE ""]
      BY <1>1 DEF Init
    <2>3. {2, 3, 4} \subseteq Task /\ Booted = {2, 3, 4}
      BY SystemAssumption, <1>5 DEF SystemAssumption, Task, VM, SHELL, FS
    <2>4. 2 - 1 = 1 /\ 3 - 1 = 2 /\ 4 - 1 = 3
      OBVIOUS
    <2>5. name[2] = BootNames[2 - 1] /\ name[3] = BootNames[3 - 1] /\ name[4] = BootNames[4 - 1]
      BY <2>2, <2>3
    <2>1. name[2] = BootNames[1] /\ name[3] = BootNames[2] /\ name[4] = BootNames[3]
      BY <2>4, <2>5
    <2> QED
      BY <1>4, <2>1 DEF VM, SHELL, FS
  <1>8. /\ current = Idle /\ fault = "none" /\ pc[Idle] = "boot"
        /\ \A t \in Task \ {Idle} : pc[t] = "user"
        /\ \A t \in Task \ {Idle, VM, SHELL, FS} : state[t] = "unused" /\ name[t] = ""
        /\ state[VM] = "runnable" /\ state[SHELL] = "runnable" /\ state[FS] = "runnable"
    BY <1>1, <1>5 DEF Init
  <1>9. /\ at[VM] = "loop" /\ at[SHELL] = "prompt" /\ at[FS] = "loop"
        /\ \A t \in Task \ {VM, SHELL, FS} : at[t] = "start"
        /\ at \in [Task -> Labels]
    <2>1. at = [t \in Task |-> IF t = SHELL THEN "prompt" ELSE IF t \in {VM, FS} THEN "loop" ELSE "start"]
      BY DEF SysInit
    <2> QED
      BY <2>1 DEF Labels
  <1>10. /\ files \in [0..(NumMaxFile - 1) -> BOOLEAN] /\ AllClosed
    BY DEF SysInit, AllClosed
  <1>11. AtBoot
    BY <1>6, <1>8, <1>9, <1>10 DEF AtBoot, Fresh, NoHello
  <1>12. Base
    BY <1>7, <1>8, <1>9, <1>10 DEF Base
  <1>13. ProgTypeOK
    <2>1. NoMsg \in Message /\ HeapCap \in Nat
      BY BodyFacts, SystemAssumption DEF SystemAssumption
    <2>2. msg \in [Task -> Message] /\ heap \in 0..HeapCap
      BY <2>1 DEF SysInit
    <2> QED
      BY <1>9, <2>2 DEF SysInit, ProgTypeOK
  <1> QED
    BY <1>1, <1>2, <1>8, <1>11, <1>12, <1>13 DEF SysInv, Conversation

(* SysInv is an inductive invariant of the system.                         *)
THEOREM SysInvariance == SysSpec => []SysInv
  BY SysInitInv, SysStep, PTL DEF SysSpec

(* However many slots there are and whatever is typed, the programs of     *)
(* servers/ use the kernel well, so all that is proved of Ipc holds of the *)
(* system.                                                                 *)
THEOREM ServersUseKernelWell == SysSpec => UsesKernelWell
  <1>1. SysInit => Init
    BY SysInitInv
  <1>2. SysInv /\ [SysNext]_sysVars => [Next]_vars
    BY SysStep
  <1> QED
    BY SysInvariance, <1>1, <1>2, PTL DEF SysSpec, UsesKernelWell, Spec

(* The data of kernel and programs keep their types.                       *)
THEOREM SysTypeCorrect == SysSpec => []SysTypeOK
  <1>1. SysInv /\ LineInv => SysTypeOK
    BY DEF SysInv, IInv, ProgTypeOK, Conversation, Base, LineInv, LineTypeOK, Labels, SysTypeOK
  <1>2. SysSpec => []LineInv
    BY LineInit, LineStep, PTL DEF SysSpec
  <1> QED
    BY SysInvariance, <1>1, <1>2, PTL

(* A task whose program has called fs or the vm server and has the reply   *)
(* is the one that runs.                                                   *)
LEMMA RepliedRuns ==
    ASSUME Conversation, NEW t \in Task, pc[t] = "user",
           at[t] \in {"opened", "read", "closed", "spawned", "readline"}
    PROVE  t = current
  <1> USE Distinct DEF Runs, Waits, Woken, Fresh, Dead, Gone, VmIdle, FsIdle
  <1>1. t \in {VM, SHELL, FS}
    BY DEF Conversation, Base
  <1>2. CASE AtBoot \/ FsFirst \/ Prompting \/ Leaving \/ Stopping
    BY <1>1, <1>2 DEF AtBoot, FsFirst, Prompting, Quiet, VmAside, Leaving, Stopping
  <1>3. CASE Asking
    <2>1. PICK l \in Asks : AskQueued(l) \/ AskPicked(l) \/ AskSent(l) \/ AskGot(l) \/ AskTaken(l)
      BY <1>3 DEF Asking
    <2>2. AskPc(l) \in SendPc /\ After(AskPc(l)) \in {"callrecv", "exitsw"}
      BY AskFacts
    <2> QED
      BY <1>1, <2>1, <2>2, SendPcFacts DEF AskQueued, AskPicked, AskSent, AskGot, AskTaken, AskRest, ShellAway
  <1>4. CASE Loading
    BY <1>1, <1>4 DEF Loading, Called, FsGot, FsTaken, FsCopied, Replied, VmGot, VmTaken, VmShared, ShellWaitsTid
  <1>5. CASE WithHello
    BY <1>1, <1>5 DEF WithHello, HelloThere, Created, TidSent, TidGot, TidTaken, HelloRuns, EndSent, EndGot,
                      EndTaken, ShellWaitsEnd
  <1>6. CASE Ending
    BY <1>1, <1>6 DEF Ending, HelloGone, Telling, Told, ShellGot, ShellTaken, ShellWaitsEnd
  <1> QED
    BY <1>2, <1>3, <1>4, <1>5, <1>6 DEF Conversation

(* Each caller has the reply to its own request (vm/main.c:22-40,          *)
(* shell/main.c:33-34).                                                    *)
THEOREM RepliesMatchCorrect == SysSpec => []RepliesMatch
  <1>1. ASSUME SysInv PROVE RepliesMatch
    <2> SUFFICES ASSUME NEW t \in Task, pc[t] = "user", at[t] \in FsCalls \cup {"spawned"}
                 PROVE  /\ at[t] = "opened"  => msg[t].src = "fs" /\ msg[t].body.type = "OPEN_FILE_REPLY_MSG"
                        /\ at[t] = "read"    => msg[t].src = "fs" /\ msg[t].body.type = "READ_FILE_DATA_REPLY_MSG"
                        /\ at[t] = "closed"  => msg[t].src = "fs" /\ msg[t].body.type = "CLOSE_FILE_REPLY_MSG"
                        /\ at[t] = "spawned" => msg[t].src = "vm" /\ msg[t].body = SpawnReply(newTid)
      BY DEF RepliesMatch, FsCalls
    <2>1. current = t /\ Conversation
      BY <1>1, RepliedRuns DEF SysInv, FsCalls
    <2>2. CASE t = VM
      <3>1. at[VM] \in FsCalls /\ msg[VM] = Says("fs", Reply(at[VM]))
        BY <2>1, <2>2, VmPoints DEF FsCalls, VmTaken
      <3> QED
        BY <2>2, <3>1 DEF FsCalls, Says, Reply, OpenReply, ReadReply, CloseReply
    <2>3. CASE t = SHELL
      <3>1. at[SHELL] = "spawned" /\ TidTaken
        BY <2>1, <2>3, ShellPoints DEF FsCalls
      <3> QED
        BY <2>3, <3>1 DEF TidTaken, HelloReady, Says
    <2>4. t \notin {FS, HELLO, Idle}
      BY <2>1, <1>1, OtherPoints, Distinct DEF FsCalls, HelloRuns, EndSent, Runs, SysInv, Conversation, Base
    <2> QED
      BY <2>1, <2>2, <2>3, <2>4, OtherPoints
  <1> QED
    BY SysInvariance, <1>1, PTL

(* When the shell reads a line, the last command has left nothing behind.  *)
THEOREM QuietWhenPrompting == SysSpec => []QuietAtPrompt
  <1>1. ASSUME SysInv PROVE QuietAtPrompt
    <2> USE Distinct
    <2> SUFFICES ASSUME current = SHELL, pc[SHELL] = "user", at[SHELL] = "readline"
                 PROVE  /\ \A fd \in DOMAIN files : ~files[fd]
                        /\ \A t \in Task : state[t] = "unused" <=> t \notin {Idle, VM, SHELL, FS}
                        /\ \A t \in Task : message[t] = NoMsg /\ senders[t] = <<>>
                        /\ \A s \in {VM, FS} : at[s] # "loop" => Receiving(s) /\ waitFor[s] = ANY
      BY DEF QuietAtPrompt
    <2>1. Quiet /\ Conversation
      BY <1>1, ShellPoints DEF SysInv
    <2>2. /\ state[Idle] = "runnable" /\ pc[Idle] # "recv" /\ state[SHELL] = "runnable"
          /\ \A t \in Task : message[t] # NoMsg => state[t] = "runnable" /\ pc[t] = "recv"
      BY <1>1 DEF SysInv, IInv, IdleInv, CurrentInv, ReadInv
    <2>3. \A t \in Task \ {Idle, VM, SHELL, FS} : state[t] = "unused"
      BY <2>1 DEF Quiet, NoHello, Conversation, Base
    <2>4. /\ \/ state[VM] = "runnable" /\ pc[VM] = "user" /\ at[VM] = "loop"
             \/ state[VM] = "blocked" /\ pc[VM] = "recv" /\ waitFor[VM] = ANY
          /\ state[FS] = "blocked" /\ pc[FS] = "recv" /\ waitFor[FS] = ANY
      BY <2>1 DEF Quiet, VmAside, VmIdle, FsIdle, Fresh, Waits
    <2>5. \A t \in Task : senders[t] = <<>>
      BY <1>1, <2>2, <2>3, <2>4, Calm
    <2>6. \A t \in Task : message[t] = NoMsg
      BY <2>2, <2>3, <2>4
    <2> QED
      BY <2>1, <2>2, <2>3, <2>4, <2>5, <2>6 DEF Quiet, AllClosed, Receiving
  <1> QED
    BY SysInvariance, <1>1, PTL

(* The vm server makes a task of what it has read (vm/main.c:43-45).       *)
THEOREM LaunchesWhatItRead == SysSpec => []LaunchesTheFile
  <1>1. ASSUME SysInv PROVE LaunchesTheFile
    <2> SUFFICES ASSUME pc[VM] = "user", at[VM] = "closed" PROVE buf = "image"
      BY DEF LaunchesTheFile
    <2>1. current = VM /\ Conversation
      BY <1>1, RepliedRuns, Distinct DEF SysInv
    <2>2. VmTaken("closed")
      BY <2>1, VmPoints DEF FsCalls
    <2> QED
      BY <2>2 DEF VmTaken, Served
  <1> QED
    BY SysInvariance, <1>1, PTL

(* Only "exit" stops the machine, in the panic the README announces        *)
(* (task.c:139).                                                           *)
THEOREM StopsAfterExit == SysSpec => []StopsOnlyAfterExit
  <1>1. SysInv => StopsOnlyAfterExit
    BY DEF SysInv, Conversation, Stopping, Gone, StopsOnlyAfterExit
  <1> QED
    BY SysInvariance, <1>1, PTL
=============================================================================
