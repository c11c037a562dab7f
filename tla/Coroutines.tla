----------------------------- MODULE Coroutines -----------------------------
(***************************************************************************)
(* What task.c and the task.c of each architecture promise together: every *)
(* task has registers and a stack that only it changes, a new task starts  *)
(* with the image and size it was created with, the run queue is a stack   *)
(* of tasks, a sender queue and a page list are queues.                    *)
(***************************************************************************)
EXTENDS Naturals, Sequences, SequencesExt

CONSTANTS Task, Idle, Page, Register, Regs, Image, IPC_ANY

VARIABLES
    current,      \* the task that has the CPU
    life,         \* "unused", "fresh" until a task first has the CPU, "runnable", "blocked", "exited"
    regs,         \* the callee-saved registers of each task
    frames,       \* the words of its calls on each task's stack
    image,        \* what each task was created from
    ready,        \* runnable tasks that wait for the CPU, who is next last
    waiting,      \* who waits to send to each task, in order
    owned         \* the pages of each task, in order

vars == <<current, life, regs, frames, image, ready, waiting, owned>>

Init ==
    /\ current = Idle
    /\ life = [t \in Task |-> IF t = Idle THEN "runnable" ELSE "unused"]
    /\ regs = [t \in Task |-> [r \in Register |-> "0"]]
    /\ frames = [t \in Task |-> <<>>]
    /\ image = [t \in Task |-> <<>>]
    /\ ready = <<>>
    /\ waiting = [t \in Task |-> <<>>]
    /\ \E p \in Page : owned = [t \in Task |-> IF t = Idle THEN <<p>> ELSE <<>>]

Free == Page \ UNION {ToSet(owned[t]) : t \in Task}
Waiting(t) == \E d \in Task : t \in ToSet(waiting[d])

\* The CPU goes to the last in q; with nobody there to the current task or to idle.
Yield(q, alive) ==
    /\ ready' = IF q = <<>> THEN q ELSE Front(q)
    /\ current' = IF q # <<>> THEN Last(q) ELSE IF alive THEN current ELSE Idle

\* A task computes: its registers, and one word more or less on its stack.
Compute ==
    /\ \E r \in Regs :
        /\ regs' = [regs EXCEPT ![current] = r]
        /\ \/ frames' = [frames EXCEPT ![current] = <<"frame">> \o @]
           \/ /\ frames[current] # <<>>
              /\ frames' = [frames EXCEPT ![current] = Tail(@)]
    /\ UNCHANGED <<current, life, image, ready, waiting, owned>>

\* A new task has the CPU for the first time.
Start ==
    /\ life[current] = "fresh"
    /\ life' = [life EXCEPT ![current] = "runnable"]
    /\ UNCHANGED <<current, regs, frames, image, ready, waiting, owned>>

Create(t, i) ==
    /\ life[t] = "unused"
    /\ \E p \in Free : owned' = [[owned EXCEPT ![t] = <<>>] EXCEPT ![current] = Append(@, p)]
    /\ life' = [life EXCEPT ![t] = "fresh"]
    /\ image' = [image EXCEPT ![t] = i]
    /\ regs' = [regs EXCEPT ![t] = [r \in Register |-> "0"]]
    /\ frames' = [frames EXCEPT ![t] = <<>>]
    /\ ready' = Append(ready, t)
    /\ UNCHANGED <<current, waiting>>

Allocate ==
    /\ \E p \in Free : owned' = [owned EXCEPT ![current] = Append(@, p)]
    /\ UNCHANGED <<current, life, regs, frames, image, ready, waiting>>

Wake(d) ==
    /\ life[d] = "blocked" /\ ~Waiting(d)
    /\ life' = [life EXCEPT ![d] = "runnable"]
    /\ ready' = Append(ready, d)
    /\ UNCHANGED <<current, regs, frames, image, waiting, owned>>

Queue(d) ==
    /\ waiting' = [waiting EXCEPT ![d] = Append(@, current)]
    /\ life' = [life EXCEPT ![current] = "blocked"]
    /\ Yield(ready, FALSE)
    /\ UNCHANGED <<regs, frames, image, owned>>

\* The first sender that is src or, for IPC_ANY, the first; if there is one.
Receive(src) ==
    LET matching == {i \in DOMAIN waiting[current] : src \in {IPC_ANY, waiting[current][i]}} IN
    /\ IF matching = {}
       THEN /\ life' = [life EXCEPT ![current] = "blocked"]
            /\ Yield(ready, FALSE)
            /\ UNCHANGED waiting
       ELSE LET i == CHOOSE j \in matching : \A k \in matching : j <= k
                s == waiting[current][i]
            IN /\ life' = [life EXCEPT ![current] = "blocked", ![s] = "runnable"]
               /\ waiting' = [waiting EXCEPT ![current] = RemoveAt(@, i)]
               /\ Yield(Append(ready, s), FALSE)
    /\ UNCHANGED <<regs, frames, image, owned>>

Exit ==
    /\ life' = [life EXCEPT ![current] = "exited"]
    /\ Yield(ready, TRUE)
    /\ UNCHANGED <<regs, frames, image, waiting, owned>>

Pause ==
    /\ Yield(ready, TRUE)
    /\ UNCHANGED <<life, regs, frames, image, waiting, owned>>

Destroy(t) ==
    /\ life[t] = "exited"
    /\ life' = [life EXCEPT ![t] = "unused"]
    /\ owned' = [owned EXCEPT ![t] = <<>>]
    /\ UNCHANGED <<current, regs, frames, image, ready, waiting>>

Next ==
    \/ Compute \/ Start \/ Allocate \/ Exit \/ Pause
    \/ \E t \in Task, i \in Image : Create(t, i)
    \/ \E t \in Task : Wake(t) \/ Queue(t) \/ Destroy(t)
    \/ \E src \in Task \cup {IPC_ANY} : Receive(src)

Spec == Init /\ [][Next]_vars
=============================================================================
