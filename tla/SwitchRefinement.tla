-------------------------- MODULE SwitchRefinement --------------------------
(***************************************************************************)
(* Switch implements Coroutines: a list is what its next pointers lead     *)
(* through, a task's registers are those of the CPU or of its frame.       *)
(***************************************************************************)
EXTENDS Switch

Entries(l) == LET w == Walk(links.next, l) IN [i \in DOMAIN w |-> container(w[i])]

readyBar   == Entries(runqueue)
waitingBar == [t \in Task |-> Entries(senders(t))]
ownedBar   == [t \in Task |-> Entries(pages(t))]

IsFresh(t) ==
    IF t = current THEN pc = "arch_vm_entry"
    ELSE Len(stacks[t]) > Depth /\ Word(stacks[t], "ra") = "arch_vm_entry"

lifeBar == [t \in Task |->
    IF t \in exited THEN "exited"
    ELSE IF state[t] = "runnable" /\ IsFresh(t) THEN "fresh" ELSE state[t]]
regsBar == [t \in Task |->
    IF t = current THEN regs
    ELSE [r \in Register |-> IF Len(stacks[t]) < Depth THEN "0" ELSE Word(stacks[t], r)]]
framesBar == [t \in Task |->
    SubSeq(stacks[t], IF t = current THEN 1 ELSE Depth + 1, Len(stacks[t]) - (IF IsFresh(t) THEN 2 ELSE 0))]
imageBar == [t \in Task |->
    IF IsFresh(t) THEN SubSeq(stacks[t], Len(stacks[t]) - 1, Len(stacks[t])) ELSE launched[t]]

C == INSTANCE Coroutines WITH
        life <- lifeBar, regs <- regsBar, frames <- framesBar, image <- imageBar,
        ready <- readyBar, waiting <- waitingBar, owned <- ownedBar

(* task_switch looks to its caller as if nothing had happened: each task   *)
(* finds its registers and stack as it left them, a new one its image and  *)
(* size, whoever had the CPU in between (arch_context_switch,              *)
(* arch_vm_init, arch_vm_entry of the three architectures); and the        *)
(* pointers of list.c behave as the sequences that Ipc takes them for.     *)
ImplementsCoroutines == C!Spec

(* The prev pointers of every list lead through the same elements as its   *)
(* next pointers, and no link field is on two lists: list_pop_tail and     *)
(* list_push_back go by prev, the loops by next (list.c:8-17, list.c:51).  *)
ListsMirrored ==
    LET used == {l \in Headers : list_is_linked(links, l)} IN
    /\ \A l \in used : Walk(links.prev, l) = Reverse(Walk(links.next, l))
    /\ \A l, k \in used : l # k => ToSet(Walk(links.next, l)) \cap ToSet(Walk(links.next, k)) = {}

(* A task waits in a sender queue or for the CPU and not both, and who is  *)
(* in a queue is blocked: waitqueue_next is cleared when it is taken out   *)
(* (ipc.c:81), next is not (task.c:85).                                    *)
LinkedAsStateSays ==
    \A t \in Task :
        /\ t \in ToSet(Entries(runqueue)) => state[t] = "runnable" /\ t # current
        /\ (\E d \in Task : t \in ToSet(Entries(senders(d)))) => state[t] = "blocked"
        /\ state[t] # "unused" /\ t # Idle =>
              (list_is_linked(links, waitqueue_next(t)) <=> \E d \in Task : t \in ToSet(Entries(senders(d))))
=============================================================================
