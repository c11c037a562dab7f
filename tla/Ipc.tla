-------------------------------- MODULE Ipc --------------------------------
(***************************************************************************)
(* The core of the Mavis kernel: the task table, the scheduler             *)
(* (kernel/task.c) and the rendezvous of ipc.c.                            *)
(*                                                                         *)
(* There is one CPU, the timer is off and a task keeps the CPU until it    *)
(* calls task_switch, so every step below is a step of task `current`: the *)
(* code from one entry point of the kernel (or from the return of a        *)
(* task_switch) to the next task_switch or return to the program.  A task  *)
(* is its slot: tid t is tasks[t-1].  pc[t] is where t goes on when it has *)
(* the CPU:                                                                *)
(*   "user"      in its program                                            *)
(*   "send" "call" "exit"   after the task_switch inside ipc_send, called  *)
(*               by the program, by ipc_call or by task_exit               *)
(*   "callrecv"  in ipc_call, at its ipc_receive                           *)
(*   "exitsw"    in task_exit, at its task_switch                          *)
(*   "tell"      in task_destroy, at its ipc_send                          *)
(*   "recv"      after the task_switch inside ipc_receive                  *)
(*   "dead"      after the task_switch of task_exit ("never reach here")   *)
(*   "boot" "idle"  the idle task, before and after kernel_main's          *)
(*               task_switch                                               *)
(* PANIC prints and stops the machine in arch_idle: `fault` names what     *)
(* stopped the system and no step follows.                                 *)
(***************************************************************************)
EXTENDS Integers, Sequences, FiniteSets, SequencesExt

CONSTANTS
    NumTask,      \* NUM_TASK_MAX
    Names,        \* the task names programs use
    BootNames,    \* the tasks kernel_main creates, in order
    Payload,      \* the messages programs send
    Servers       \* the names of the tasks that serve requests forever

Task == 1..NumTask
Idle == 1
ANY  == 0         \* IPC_ANY, also what wait_for is before a first ipc_receive
DENY == -1        \* IPC_DENY

ASSUME BootAssumption ==
    /\ NumTask \in Nat
    /\ BootNames \in Seq(Names)
    /\ IsInjective(BootNames)
    /\ Len(BootNames) < NumTask
    /\ "vm" \in Servers
    /\ Servers \subseteq ToSet(BootNames)
    /\ "shell" \in Names \ Servers
    /\ "" \notin Names

VARIABLES
    current,      \* current_task
    state,        \* task.state
    name,         \* task.name, "" in a slot that was never named
    destroyed,    \* task.destroyed
    waitFor,      \* task.wait_for
    senders,      \* task.senders
    message,      \* task.message, NoMsg when ipc_receive has returned it
    shared,       \* task.shared_buffer: what its p points to
    runq,         \* runqueue
    pc,           \* see above
    out,          \* the arguments a sender keeps on its stack
    fault         \* what stopped the system, or "none"

vars == <<current, state, name, destroyed, waitFor, senders, message, shared,
          runq, pc, out, fault>>

SendPc  == {"send", "call", "exit"}
Pc      == SendPc \cup {"user", "callrecv", "exitsw", "tell", "recv", "dead", "boot", "idle"}
States  == {"unused", "runnable", "blocked"}
ExitMsg(t)    == [type |-> "EXIT_TASK_MSG", tid |-> t]
DestroyMsg(t) == [type |-> "DESTROY_TASK_MSG", tid |-> t]
Body    == Payload \cup {ExitMsg(t) : t \in Task} \cup {DestroyMsg(t) : t \in Task}
NoMsg   == [src |-> "", body |-> [type |-> "none"]]
NoOut   == [dst |-> 0, to |-> "", body |-> [type |-> "none"]]
Message == [src : Names, body : Body] \cup {NoMsg}
Out     == [dst : Task \cup {0}, to : Names, body : Body] \cup {NoOut}
Faults  == {"none", "not found", "send to itself", "no shared buffer",
            "no free task slots", "tid is not exited yet", "unreachable",
            "switched to idle task", "relinked", "stale buffer"}

(***************************************************************************)
(* kernel_main up to its task_switch: the idle task, then the tasks of     *)
(* BootNames, each on the run queue.                                       *)
(***************************************************************************)
Booted == 2..(Len(BootNames) + 1)

Init ==
    /\ current = Idle
    /\ state = [t \in Task |-> IF t \in Booted \cup {Idle} THEN "runnable" ELSE "unused"]
    /\ name = [t \in Task |-> IF t \in Booted THEN BootNames[t - 1] ELSE ""]
    /\ destroyed = [t \in Task |-> FALSE]
    /\ waitFor = [t \in Task |-> ANY]
    /\ senders = [t \in Task |-> <<>>]
    /\ message = [t \in Task |-> NoMsg]
    /\ shared = [t \in Task |-> "null"]
    /\ runq = [i \in 1..Len(BootNames) |-> i + 1]
    /\ pc = [t \in Task |-> IF t = Idle THEN "boot" ELSE "user"]
    /\ out = [t \in Task |-> NoOut]
    /\ fault = "none"

----------------------------------------------------------------------------
(* Helpers of task.c and ipc.c.  Each leaves to its caller the variables   *)
(* it does not prime.  Definitions named Bug_... are not part of the model:*)
(* each is the definition after it with a mistake in it, for checking that *)
(* a property notices.                                                     *)

\* d is what task_lookup(n) returns: the first slot of that name, whatever its state.
Lookup(n, d) == name[d] = n /\ \A u \in 1..(d - 1) : name[u] # n
NotFound(n)  == \A t \in Task : name[t] # n

\* t is what alloc_tid returns.
FreeSlot(t)  == state[t] = "unused" /\ \A u \in 1..(t - 1) : state[u] # "unused"

\* ipc_send takes any blocked task for a receiver.
Bug_Ready(d) == state[d] = "blocked"

\* ipc_send's `ready`.
Ready(d) == state[d] = "blocked" /\ waitFor[d] \in {ANY, current}

\* t's list element `next` (run queue) or `waitqueue_next` (sender queues) is in a list.
OnRunq(t)    == t \in ToSet(runq)
OnSenders(t) == \E d \in Task : t \in ToSet(senders[d])

\* The element stays in the list: list_tail for list_pop_tail.
Bug_SwitchNoPop(rq, st) ==
    /\ current' = IF rq # <<>> THEN Last(rq)
                  ELSE IF st[current] = "runnable" THEN current ELSE Idle
    /\ runq' = rq

\* The lines task.c:125-129 have in a comment, without their test of `destroyed`.
Bug_SwitchPushBack(rq, st) ==
    LET full == IF st[current] = "runnable" /\ current # Idle THEN <<current>> \o rq ELSE rq IN
    /\ current' = IF full # <<>> THEN Last(full) ELSE Idle
    /\ runq' = IF full # <<>> THEN Front(full) ELSE full

\* schedule() never gives the CPU to the idle task.
Bug_SwitchNoIdle(rq, st) ==
    /\ current' = IF rq # <<>> THEN Last(rq) ELSE current
    /\ runq' = IF rq # <<>> THEN Front(rq) ELSE rq

\* schedule() and task_switch() with run queue rq and task states st.
Switch(rq, st) ==
    /\ current' = IF rq # <<>> THEN Last(rq)
                  ELSE IF st[current] = "runnable" THEN current ELSE Idle
    /\ runq' = IF rq # <<>> THEN Front(rq) ELSE rq

\* Pushing an element that is in a list already, or re-initialising it, breaks the
\* list: the model stops there.
Push(t) ==
    /\ runq' = IF OnRunq(t) THEN runq ELSE Append(runq, t)
    /\ fault' = IF OnRunq(t) THEN "relinked" ELSE fault

Panic(why) ==
    /\ fault' = why
    /\ UNCHANGED <<current, state, name, destroyed, waitFor, senders, message,
                   shared, runq, pc, out>>

Running(where) == fault = "none" /\ pc[current] = where

\* Where a program, ipc_call and task_exit go on when ipc_send returns.
After(k) == CASE k = "send" -> "user" [] k = "call" -> "callrecv" [] k = "exit" -> "exitsw"

----------------------------------------------------------------------------
(* ipc_send(n, b), called by k: a program, ipc_call or task_exit           *)

\* msg->src is not filled in.
Bug_Deliver(d, b) ==
    /\ message' = [message EXCEPT ![d] = [src |-> "", body |-> b]]
    /\ state' = [state EXCEPT ![d] = "runnable"]
    /\ Push(d)

\* The end of ipc_send: the message goes to d, which becomes runnable.
Deliver(d, b) ==
    /\ message' = [message EXCEPT ![d] = [src |-> name[current], body |-> b]]
    /\ state' = [state EXCEPT ![d] = "runnable"]
    /\ Push(d)

SendReady(n, b, k) ==
    \E d \in Task \ {current} :
        /\ Lookup(n, d)
        /\ Ready(d)
        /\ Deliver(d, b)
        /\ pc' = [pc EXCEPT ![current] = After(k)]
        /\ out' = [out EXCEPT ![current] =
                      IF k = "call" THEN [dst |-> d, to |-> n, body |-> b] ELSE NoOut]
        /\ UNCHANGED <<current, name, waitFor, senders, shared>>

SendQueue(n, b, k) ==
    \E d \in Task \ {current} :
        /\ Lookup(n, d)
        /\ ~Ready(d)
        /\ out' = [out EXCEPT ![current] = [dst |-> d, to |-> n, body |-> b]]
        /\ pc' = [pc EXCEPT ![current] = k]
        /\ IF OnSenders(current)
           THEN fault' = "relinked" /\ UNCHANGED <<current, state, runq, senders>>
           ELSE /\ senders' = [senders EXCEPT ![d] = Append(@, current)]
                /\ state' = [state EXCEPT ![current] = "blocked"]
                /\ Switch(runq, state')
                /\ fault' = fault
        /\ UNCHANGED <<name, waitFor, message, shared>>

SendPanic(n) ==
    \/ NotFound(n) /\ fault' = "not found"
    \/ Lookup(n, current) /\ fault' = "send to itself"

ipc_send(n, b, k) ==
    \/ SendReady(n, b, k)
    \/ SendQueue(n, b, k)
    \/ SendPanic(n) /\ UNCHANGED <<current, state, name, waitFor, senders, message,
                                   shared, runq, pc, out>>

\* A queued sender has the CPU again.  It does not look again at what its receiver does.
ResumeSend ==
    \E k \in SendPc :
        /\ Running(k)
        /\ Deliver(out[current].dst, out[current].body)
        /\ pc' = [pc EXCEPT ![current] = After(k)]
        /\ out' = IF k = "call" THEN out ELSE [out EXCEPT ![current] = NoOut]
        /\ UNCHANGED <<current, name, destroyed, waitFor, senders, shared>>

----------------------------------------------------------------------------
(* ipc_receive(src) and ipc_call                                           *)

Wait(src, st, rq) ==
    /\ waitFor' = [waitFor EXCEPT ![current] = src]
    /\ state' = [st EXCEPT ![current] = "blocked"]
    /\ pc' = [pc EXCEPT ![current] = "recv"]
    /\ Switch(rq, state')

\* ipc_receive resumes the sender and leaves it in the queue.
Bug_ReceivePickNoRemove(src) ==
    \E i \in DOMAIN senders[current] :
        LET s == senders[current][i] IN
        /\ src \in {ANY, s}
        /\ \A j \in 1..(i - 1) : src \notin {ANY, senders[current][j]}
        /\ ~OnRunq(s)
        /\ Wait(s, [state EXCEPT ![s] = "runnable"], Append(runq, s))
        /\ UNCHANGED <<senders, fault>>

\* ipc_receive resumes a sender and goes on waiting for anyone.
Bug_ReceivePickAny(src) ==
    \E i \in DOMAIN senders[current] :
        LET s == senders[current][i] IN
        /\ src \in {ANY, s}
        /\ \A j \in 1..(i - 1) : src \notin {ANY, senders[current][j]}
        /\ ~OnRunq(s)
        /\ senders' = [senders EXCEPT ![current] = RemoveAt(@, i)]
        /\ Wait(src, [state EXCEPT ![s] = "runnable"], Append(runq, s))
        /\ fault' = fault

\* A queued sender is accepted: it leaves the queue, and it alone may send now.
ReceivePick(src) ==
    \E i \in DOMAIN senders[current] :
        LET s == senders[current][i] IN
        /\ src \in {ANY, s}
        /\ \A j \in 1..(i - 1) : src \notin {ANY, senders[current][j]}
        /\ IF OnRunq(s)
           THEN fault' = "relinked" /\ UNCHANGED <<current, state, runq, senders, waitFor, pc>>
           ELSE /\ senders' = [senders EXCEPT ![current] = RemoveAt(@, i)]
                /\ Wait(s, [state EXCEPT ![s] = "runnable"], Append(runq, s))
                /\ fault' = fault

\* ipc_receive waits without looking at its queue.
Bug_ReceiveNone(src) ==
    /\ Wait(src, state, runq)
    /\ UNCHANGED <<senders, fault>>

ReceiveNone(src) ==
    /\ \A i \in DOMAIN senders[current] : src \notin {ANY, senders[current][i]}
    /\ Wait(src, state, runq)
    /\ UNCHANGED <<senders, fault>>

ipc_receive(src) ==
    /\ ReceivePick(src) \/ ReceiveNone(src)
    /\ UNCHANGED <<name, destroyed, message, shared>>

\* The end of ipc_receive: the program has message[current].  task.message keeps its
\* bytes, and is not read again before the next message replaces them.
FinishReceive ==
    /\ Running("recv")
    /\ waitFor' = [waitFor EXCEPT ![current] = DENY]
    /\ message' = [message EXCEPT ![current] = NoMsg]
    /\ pc' = [pc EXCEPT ![current] = "user"]
    /\ UNCHANGED <<current, state, name, destroyed, senders, shared, runq, out, fault>>

\* ipc_call after its ipc_send: the server is looked up again by name.
CallReceive ==
    /\ Running("callrecv")
    /\ \/ \E d \in Task : Lookup(out[current].to, d) /\ ipc_receive(d)
       \/ NotFound(out[current].to) /\ ipc_receive(ANY)
    /\ out' = [out EXCEPT ![current] = NoOut]

----------------------------------------------------------------------------
(* The life of a task                                                      *)

ipc_call(n, b) == ipc_send(n, b, "call") /\ UNCHANGED destroyed

task_exit ==
    /\ destroyed' = [destroyed EXCEPT ![current] = TRUE]
    /\ ipc_send("vm", ExitMsg(current), "exit")

\* The end of task_exit: the task leaves the CPU, off the run queue and still RUNNABLE,
\* and must not have it again.
FinishExit ==
    /\ fault = "none"
    /\ \/ /\ pc[current] = "exitsw"
          /\ pc' = [pc EXCEPT ![current] = "dead"]
          /\ Switch(runq, state)
          /\ UNCHANGED <<state, name, destroyed, waitFor, senders, message, shared, out, fault>>
       \/ pc[current] = "dead" /\ Panic("unreachable")

\* vm_init leaves destroyed, wait_for, shared_buffer and message as the last task of the
\* slot left them.
VmCreate(n) ==
    \E t \in Task :
        /\ FreeSlot(t)
        /\ name' = [name EXCEPT ![t] = n]
        /\ senders' = [senders EXCEPT ![t] = <<>>]
        /\ state' = [state EXCEPT ![t] = "runnable"]
        /\ pc' = [pc EXCEPT ![t] = "user"]
        /\ out' = [out EXCEPT ![t] = NoOut]
        /\ IF OnSenders(t) \/ senders[t] # <<>> \/ OnRunq(t)
           THEN fault' = "relinked" /\ runq' = runq
           ELSE Push(t)
        /\ UNCHANGED <<current, destroyed, waitFor, message, shared>>

VmCreatePanic ==
    /\ \A t \in Task : state[t] # "unused"
    /\ Panic("no free task slots")

vm_create(n) == VmCreate(n) \/ VmCreatePanic

\* task_destroy does not tell the shell.
Bug_TaskDestroy(t) ==
    /\ destroyed[t]
    /\ state' = [state EXCEPT ![t] = "unused"]
    /\ shared' = [shared EXCEPT ![t] = IF @ = "null" THEN @ ELSE "stale"]
    /\ UNCHANGED <<pc, out, current, name, destroyed, waitFor, senders, message, runq, fault>>

\* task_destroy(t) up to its ipc_send: the slot is free, and so are its pages, the buffer
\* its task registered among them.
TaskDestroy(t) ==
    /\ destroyed[t]
    /\ state' = [state EXCEPT ![t] = "unused"]
    /\ shared' = [shared EXCEPT ![t] = IF @ = "null" THEN @ ELSE "stale"]
    /\ IF name[t] = "shell" THEN UNCHANGED <<pc, out>>
       ELSE /\ pc' = [pc EXCEPT ![current] = "tell"]
            /\ out' = [out EXCEPT ![current] =
                          [dst |-> 0, to |-> "shell", body |-> DestroyMsg(t)]]
    /\ UNCHANGED <<current, name, destroyed, waitFor, senders, message, runq, fault>>

TaskDestroyPanic(t) == ~destroyed[t] /\ Panic("tid is not exited yet")

task_destroy(t) == TaskDestroy(t) \/ TaskDestroyPanic(t)

TellShell ==
    /\ Running("tell")
    /\ ipc_send("shell", out[current].body, "send")
    /\ UNCHANGED destroyed

----------------------------------------------------------------------------
(* The shared buffer                                                       *)

ipc_share_buffer ==
    /\ shared' = [shared EXCEPT ![current] = "own"]
    /\ UNCHANGED <<current, state, name, destroyed, waitFor, senders, message, runq,
                   pc, out, fault>>

\* A copy into a live buffer changes its bytes and nothing else here; one into freed
\* pages is where the model stops.
ipc_copy(n) ==
    \/ NotFound(n) /\ Panic("not found")
    \/ \E d \in Task :
        /\ Lookup(n, d)
        /\ CASE shared[d] = "null"  -> Panic("no shared buffer")
             [] shared[d] = "own"   -> UNCHANGED vars
             [] shared[d] = "stale" -> Panic("stale buffer")

----------------------------------------------------------------------------
(* The idle task: kernel_main from its task_switch on                      *)

BootSwitch ==
    /\ Running("boot")
    /\ pc' = [pc EXCEPT ![current] = "idle"]
    /\ Switch(runq, state)
    /\ UNCHANGED <<state, name, destroyed, waitFor, senders, message, shared, out, fault>>

IdlePanic == Running("idle") /\ Panic("switched to idle task")

\* What the kernel does without being asked by the program of the current task.
KernelStep ==
    \/ ResumeSend
    \/ FinishReceive
    \/ CallReceive
    \/ FinishExit
    \/ TellShell
    \/ BootSwitch
    \/ IdlePanic

(***************************************************************************)
(* Any program: whatever is called through env.h, in any order.            *)
(***************************************************************************)
AnyProgram ==
    /\ Running("user")
    /\ \/ \E n \in Names, b \in Payload : ipc_send(n, b, "send") /\ UNCHANGED destroyed
       \/ \E n \in Names, b \in Payload : ipc_call(n, b)
       \/ \E src \in Task \cup {ANY} : ipc_receive(src) /\ UNCHANGED out
       \/ task_exit
       \/ \E n \in Names : vm_create(n)
       \/ \E t \in Task : task_destroy(t)
       \/ ipc_share_buffer
       \/ \E n \in Names : ipc_copy(n)

AnyNext == KernelStep \/ AnyProgram
AnySpec == Init /\ [][AnyNext]_vars

(***************************************************************************)
(* Well-behaved programs.  ipc.c is right for those that keep four rules,  *)
(* which the programs under servers/ do (module System):                   *)
(*  - a message goes to a server, or to a task that is at that moment in   *)
(*    ipc_receive and accepts it;                                          *)
(*  - a server calls ipc_receive before it first sends, never exits, and   *)
(*    its name is its own;                                                 *)
(*  - task_destroy is given a task that is done with task_exit;            *)
(*  - ipc_copy is given a task that has registered a buffer.               *)
(***************************************************************************)
MaySend(n) ==
    \E d \in Task \ {current} :
        /\ Lookup(n, d)
        /\ \/ n \in Servers /\ (name[current] \in Servers => waitFor[current] = DENY)
           \/ Ready(d) /\ pc[d] = "recv"

Done(t) == destroyed[t] /\ pc[t] = "dead" /\ state[t] # "unused"

Program ==
    /\ Running("user")
    /\ \/ \E n \in Names, b \in Payload :
            MaySend(n) /\ ipc_send(n, b, "send") /\ UNCHANGED destroyed
       \/ \E n \in Servers, b \in Payload : MaySend(n) /\ ipc_call(n, b)
       \/ \E src \in Task \cup {ANY} : ipc_receive(src) /\ UNCHANGED out
       \/ name[current] \notin Servers /\ task_exit
       \/ \E n \in Names \ Servers : vm_create(n)
       \/ \E t \in Task : Done(t) /\ (name[t] = "shell" \/ MaySend("shell")) /\ task_destroy(t)
       \/ ipc_share_buffer
       \/ \E n \in Names : (\E d \in Task : Lookup(n, d) /\ shared[d] = "own") /\ ipc_copy(n)

Next == KernelStep \/ Program
Spec == Init /\ [][Next]_vars

----------------------------------------------------------------------------
(* What is true of the kernel                                              *)

TypeOK ==
    /\ current \in Task
    /\ state \in [Task -> States]
    /\ name \in [Task -> Names \cup {""}]
    /\ destroyed \in [Task -> BOOLEAN]
    /\ waitFor \in [Task -> Task \cup {ANY, DENY}]
    /\ senders \in [Task -> Seq(Task)]
    /\ message \in [Task -> Message]
    /\ shared \in [Task -> {"null", "own", "stale"}]
    /\ runq \in Seq(Task)
    /\ pc \in [Task -> Pc]
    /\ out \in [Task -> Out]
    /\ fault \in Faults

Receiving(t) == state[t] = "blocked" /\ pc[t] = "recv"
Sending(t)   == pc[t] \in SendPc
Picked(t)    == Sending(t) /\ state[t] = "runnable"

(* The only ways a system of well-behaved programs stops are running out   *)
(* of runnable tasks and of task slots: no list element is linked twice    *)
(* (list_push_back, list.c:15), no exited task runs again (task.c:158), no *)
(* other PANIC of task.c and ipc.c is reached.                             *)
OnlyExpectedFaults ==
    fault \in {"none", "switched to idle task", "no free task slots"}

(* The run queue holds exactly the runnable tasks that have not exited and *)
(* do not have the CPU, each once: no wake-up of task_resume (task.c:46)   *)
(* is lost or doubled.                                                     *)
RunQueueExact ==
    /\ IsInjective(runq)
    /\ ToSet(runq) = {t \in Task \ {current, Idle} : state[t] = "runnable" /\ pc[t] # "dead"}

(* A task blocked inside ipc_send is in the queue of its receiver and in   *)
(* no other, once, and nobody else is in a queue (ipc.c:58, ipc.c:81).     *)
SendersExact ==
    /\ \A d \in Task : IsInjective(senders[d])
    /\ \A s, d \in Task :
        s \in ToSet(senders[d]) <=> state[s] = "blocked" /\ Sending(s) /\ out[s].dst = d

(* A queued sender that was accepted finds its receiver still blocked in   *)
(* ipc_receive and waiting for it alone, whatever ran since: the message   *)
(* it delivers without a second look (ipc.c:63-68) overwrites no unread    *)
(* one and wakes nobody from another wait.                                 *)
Handshake ==
    \A s \in Task : Picked(s) =>
        Receiving(out[s].dst) /\ waitFor[out[s].dst] = s

(* No task waits in ipc_receive for a sender that waits in its queue.      *)
NoLostRendezvous ==
    \A d \in Task : Receiving(d) =>
        \A s \in ToSet(senders[d]) : waitFor[d] \notin {ANY, s}

(* A message is put only into a task that waits for one from the running   *)
(* task: no unread message is overwritten, none goes to a task blocked in  *)
(* ipc_send (ipc.c:65).                                                    *)
DeliveredToReceiver ==
    [][\A d \in Task : message'[d] \notin {message[d], NoMsg} =>
          message[d] = NoMsg /\ Receiving(d) /\ waitFor[d] \in {ANY, current}]_vars

(* "never reach here" (task.c:158).                                        *)
NeverReachHere == fault # "unreachable"

(* A task that called task_exit never has the CPU again in its incarnation *)
(* and its slot is not reused before task_destroy (task.c:156-158).        *)
DeadStaysDead ==
    [][\A t \in Task : pc[t] = "dead" /\ state[t] # "unused" =>
          /\ current' # t
          /\ pc'[t] = "dead"]_vars
============================================================================
