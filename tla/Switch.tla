------------------------------- MODULE Switch -------------------------------
(***************************************************************************)
(* Tasks as the machine has them: the pointers of the run queue, the       *)
(* sender queues and the page lists (kernel/list.c), and the registers and *)
(* stacks that arch_context_switch saves and restores (the task.c of each  *)
(* architecture).  It is the level below Ipc: what the calls of ipc.c and  *)
(* task.c do to lists and stacks; when a program makes which call is       *)
(* Ipc's matter, and here only what Ipc proves of it is kept.              *)
(* A stack is a sequence of words, the one at sp first; a word is a string *)
(* that says what it is.                                                   *)
(***************************************************************************)
EXTENDS List, SequencesExt

CONSTANTS
    NumTask,      \* NUM_TASK_MAX
    NumPages,     \* zone->num_pages
    Saved,        \* the callee-saved registers, in the order of their names
    Regs,         \* what compiled code leaves in them
    Image,        \* the pairs of image and size that vm_create is given
    Arch,         \* the architectures
    MaxBusy,      \* bound on the tasks with calls on their stacks
    IPC_ANY

Task     == 1..NumTask
Idle     == 1
Vm       == 2      \* the vm server, which alone calls vm_create and task_destroy once the kernel runs
Page     == 1..NumPages
Register == ToSet(Saved)

\* The fields of struct task and struct page that are links.
runqueue          == <<"runqueue">>
next(t)           == <<"next", t>>
waitqueue_next(t) == <<"waitqueue_next", t>>
senders(t)        == <<"senders", t>>
pages(t)          == <<"pages", t>>
link(p)           == <<"link", p>>
container(e)      == e[2]

Headers == {runqueue} \cup {senders(t) : t \in Task} \cup {pages(t) : t \in Task}
Node    == Headers \cup {next(t) : t \in Task} \cup {waitqueue_next(t) : t \in Task} \cup {link(p) : p \in Page}

ASSUME SwitchAssumption ==
    /\ NumTask \in Nat \ {0} /\ NumPages \in Nat \ {0} /\ MaxBusy \in Nat
    /\ Saved \in Seq(STRING) /\ IsInjective(Saved) /\ "ra" \notin Register
    /\ Regs \subseteq [Register -> STRING]
    /\ \A image \in Image : image \in Seq(STRING) /\ Len(image) = 2
    /\ Arch \subseteq {"riscv32", "riscv64", "x86_64"}
    /\ IPC_ANY \notin Task
    /\ NULL \notin Node

VARIABLES
    links,        \* the memory of all nodes
    state,        \* task.state
    exited,       \* the tasks that are past the ipc_send of task_exit
    current,      \* current_task
    booted,       \* kernel_main is past its task_switch
    regs,         \* the callee-saved registers of the CPU
    pc,           \* "arch_vm_entry" or "kernel"
    stacks,       \* the stack of each task from its arch.sp, or sp, up
    launched,     \* what launch_vm_task was called with
    arch          \* the architecture of the build

vars == <<links, state, exited, current, booted, regs, pc, stacks, launched, arch>>

----------------------------------------------------------------------------
(* arch_context_switch, arch_vm_init and arch_vm_entry.  An order is that  *)
(* of the words of a frame from sp up, "ra" the address to go on at.       *)

SaveRiscv32 == <<"ra">> \o Saved
SaveRiscv64 == <<"ra">> \o Saved
LoadRiscv32 == <<"ra">> \o Saved
LoadRiscv64 == <<"ra">> \o Saved

\* Popped in the order they were pushed in.
Bug_LoadX86 == Saved \o <<"ra">>

\* Pushed in the order of their names, after the return address, and popped in reverse.
SaveX86 == Reverse(<<"ra">> \o Saved)
LoadX86 == Reverse(Saved) \o <<"ra">>

Save == [riscv32 |-> SaveRiscv32, riscv64 |-> SaveRiscv64, x86_64 |-> SaveX86]
Load == [riscv32 |-> LoadRiscv32, riscv64 |-> LoadRiscv64, x86_64 |-> LoadX86]

Depth == Len(Saved) + 1

Zeros         == [i \in DOMAIN Saved |-> "0"]
FreshRiscv32  == <<"arch_vm_entry">> \o Zeros
FreshRiscv64  == <<"arch_vm_entry">> \o Zeros
FreshX86      == Zeros \o <<"arch_vm_entry">>
Fresh == [riscv32 |-> FreshRiscv32, riscv64 |-> FreshRiscv64, x86_64 |-> FreshX86]

\* arch_vm_init: image and size lie above the frame.
arch_vm_init(image) == Fresh[arch] \o image

Word(s, r) == s[CHOOSE i \in 1..Depth : Load[arch][i] = r]

arch_context_switch(prev, nxt) ==
    LET frame == [i \in 1..Depth |-> IF Save[arch][i] = "ra" THEN "kernel" ELSE regs[Save[arch][i]]] IN
    /\ stacks' = [stacks EXCEPT ![prev] = frame \o @, ![nxt] = SubSeq(@, Depth + 1, Len(@))]
    /\ regs' = [r \in Register |-> Word(stacks[nxt], r)]
    /\ pc' = Word(stacks[nxt], "ra")

----------------------------------------------------------------------------
(* The scheduler                                                           *)

\* schedule() with the lists h and the states s.
Scheduled(h, s) ==
    LET tail == list_tail(h, runqueue) IN
    IF tail # NULL THEN container(tail) ELSE IF s[current] = "runnable" THEN current ELSE Idle

task_switch(h, s) ==
    LET nxt == Scheduled(h, s) IN
    /\ links' = list_pop_tail(h, runqueue)
    /\ state' = s
    /\ current' = nxt
    /\ IF nxt = current THEN UNCHANGED <<regs, pc, stacks>> ELSE arch_context_switch(current, nxt)

task_resume(h, t) == list_push_back(h, runqueue, next(t))

\* palloc(1) finds page p and puts it on the list of the current task.
FirstFree(p) == ~list_is_linked(links, link(p)) /\ \A q \in 1..(p - 1) : list_is_linked(links, link(q))
Allocated(h, p) == list_push_back(h, pages(current), link(p))

pfree(h, page) == list_remove(h, page)
pfree_by_list(h, l) == LIST_FOR_EACH(h, l, pfree)

\* kernel_main up to its first vm_create; task_init gives the idle task its page.
Init ==
    /\ links = LET none == [n \in Node |-> NULL]
                   zero == [prev |-> none, next |-> none]
               IN list_push_back(LIST_INIT(LIST_INIT(zero, runqueue), pages(Idle)), pages(Idle), link(1))
    /\ state = [t \in Task |-> IF t = Idle THEN "runnable" ELSE "unused"]
    /\ exited = {}
    /\ current = Idle
    /\ booted = FALSE
    /\ regs = [r \in Register |-> "0"]
    /\ pc = "kernel"
    /\ stacks = [t \in Task |-> <<>>]
    /\ launched = [t \in Task |-> <<>>]
    /\ arch \in Arch

\* The current task is in the kernel or in a program, and not at one of the two PANICs that
\* end kernel_main and task_exit.
Runs == pc = "kernel" /\ current \notin exited /\ (current = Idle => ~booted)

\* The tasks with calls on their stacks.
Busy == {t \in Task : "frame" \in ToSet(stacks[t])}

\* Compiled code: it uses the registers and its stack.
Work ==
    /\ current \notin Busy
    /\ Runs
    /\ \E r \in Regs :
        /\ regs' = r
        /\ Cardinality(Busy \cup {current}) <= MaxBusy
        /\ stacks' = [stacks EXCEPT ![current] = <<"frame">> \o @]
    /\ UNCHANGED <<links, state, exited, current, booted, pc, launched, arch>>

\* A new task pops the arguments of launch_vm_task and jumps to it.
arch_vm_entry ==
    /\ pc = "arch_vm_entry"
    /\ launched' = [launched EXCEPT ![current] = SubSeq(stacks[current], 1, 2)]
    /\ stacks' = [stacks EXCEPT ![current] = SubSeq(@, 3, Len(@))]
    /\ pc' = "kernel"
    /\ UNCHANGED <<links, state, exited, current, booted, regs, arch>>

\* vm_create, vm_init, arch_vm_init.
vm_create(image) ==
    /\ Runs /\ current \in {Idle, Vm}
    /\ \E t \in Task, p \in Page :
        /\ state[t] = "unused" /\ \A u \in 1..(t - 1) : state[u] # "unused"
        /\ FirstFree(p)
        /\ LET lists == LIST_INIT(LIST_INIT(links, pages(t)), senders(t))
               elems == list_elem_init(list_elem_init(lists, next(t)), waitqueue_next(t))
           IN links' = task_resume(Allocated(elems, p), t)
        /\ stacks' = [stacks EXCEPT ![t] = arch_vm_init(image)]
        /\ state' = [state EXCEPT ![t] = "runnable"]
    /\ UNCHANGED <<exited, current, booted, regs, pc, launched, arch>>

\* kernel_main's task_switch.
BootSwitch ==
    /\ Runs /\ current = Idle
    /\ task_switch(links, state)
    /\ booted' = TRUE
    /\ UNCHANGED <<exited, launched, arch>>

palloc ==
    /\ Runs /\ current # Idle
    /\ \E p \in Page : FirstFree(p) /\ links' = Allocated(links, p)
    /\ UNCHANGED <<state, exited, current, booted, regs, pc, stacks, launched, arch>>

\* Where others may send: a task that is there and not about to end.
Reachable(d) == d \notin {current, Idle} /\ state[d] # "unused" /\ d \notin exited
Receiving(d) == state[d] = "blocked" /\ ~list_is_linked(links, waitqueue_next(d))

\* ipc_send to a task that is ready, or the end of ipc_send after its task_switch.
SendReady(d) ==
    /\ Runs /\ current # Idle
    /\ Reachable(d) /\ Receiving(d)
    /\ links' = task_resume(links, d)
    /\ state' = [state EXCEPT ![d] = "runnable"]
    /\ UNCHANGED <<exited, current, booted, regs, pc, stacks, launched, arch>>

\* ipc_send to a task that is not.
SendQueue(d) ==
    /\ Runs /\ current # Idle
    /\ Reachable(d)
    /\ task_switch(list_push_back(links, senders(d), waitqueue_next(current)),
                   [state EXCEPT ![current] = "blocked"])
    /\ UNCHANGED <<exited, booted, launched, arch>>

\* ipc_receive: the loop, which breaks at the first sender that matches, and the wait.
ipc_receive(src) ==
    LET queue    == Walk(links.next, senders(current))
        matching == {i \in DOMAIN queue : src \in {IPC_ANY, container(queue[i])}}
        sender   == container(queue[CHOOSE i \in matching : \A j \in matching : i <= j])
    IN
    /\ Runs /\ current # Idle
    /\ IF matching = {}
       THEN task_switch(links, [state EXCEPT ![current] = "blocked"])
       ELSE task_switch(task_resume(list_remove(links, waitqueue_next(sender)), sender),
                        [state EXCEPT ![sender] = "runnable", ![current] = "blocked"])
    /\ UNCHANGED <<exited, booted, launched, arch>>

\* The last task_switch of task_exit; by then nobody waits to send to the task.
task_exit ==
    /\ Runs /\ current \notin {Idle, Vm}
    /\ list_head(links, senders(current)) = NULL
    /\ exited' = exited \cup {current}
    /\ task_switch(links, state)
    /\ UNCHANGED <<booted, launched, arch>>

\* task_destroy up to its ipc_send.
task_destroy(t) ==
    /\ Runs /\ current = Vm
    /\ t \in exited
    /\ links' = pfree_by_list(links, pages(t))
    /\ state' = [state EXCEPT ![t] = "unused"]
    /\ exited' = exited \ {t}
    /\ UNCHANGED <<current, booted, regs, pc, stacks, launched, arch>>

Next ==
    \/ Work \/ arch_vm_entry \/ BootSwitch \/ palloc \/ task_exit
    \/ \E image \in Image : vm_create(image)
    \/ \E t \in Task : SendReady(t) \/ SendQueue(t) \/ task_destroy(t)
    \/ \E src \in Task \cup {IPC_ANY} : ipc_receive(src)

Spec == Init /\ [][Next]_vars
=============================================================================
