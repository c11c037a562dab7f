------------------------------- MODULE Memory -------------------------------
(***************************************************************************)
(* The page allocator and the kernel heap (kernel/memory.c) over the life  *)
(* of the tasks that use them: vm_create takes the stack page, the launch  *)
(* of a task (launch_vm_task: parse, create_context) takes objects from    *)
(* malloc and pages from palloc, task_destroy gives back the pages of the  *)
(* task's list.  Addresses and sizes count units of malloc's alignment;    *)
(* page p is the addresses p * PageSize to (p + 1) * PageSize - 1.         *)
(*                                                                         *)
(* The scheduler is abstracted to: a task that is not launching may lose   *)
(* the CPU to any task.  A launch calls nothing that switches tasks.       *)
(***************************************************************************)
EXTENDS Integers, FiniteSets

CONSTANTS
    NumTask,      \* NUM_TASK_MAX
    NumPages,     \* zone->num_pages
    Slack,        \* struct pages that lie behind zone->pages[num_pages - 1], all zero
    PageSize,     \* PAGE_SIZE
    Sizes,        \* the sizes malloc is asked for
    Chunks,       \* the numbers of pages create_context asks for
    Creators      \* the tasks that call vm_create, the idle task among them

Task  == 1..NumTask
Idle  == 1
Zone  == 0..(NumPages - 1)
Page  == 0..(NumPages + Slack - 1)
Null  == -1

ASSUME MemoryAssumption ==
    /\ NumTask \in Nat /\ NumPages \in Nat \ {0} /\ Slack \in Nat /\ PageSize \in Nat \ {0}
    /\ Sizes \subseteq Nat
    /\ Chunks \subseteq 1..(Slack + 1)
    /\ Idle \in Creators /\ Creators \subseteq Task

VARIABLES
    current,      \* current_task
    phase,        \* where each task is in its life
    refCount,     \* page.ref_count
    pages,        \* task.pages
    heap,         \* task.heap, an address or Null
    nextAddr,     \* the static next_paddr of malloc
    objects,      \* what malloc returned to live tasks: [owner, addr, size]
    stack,        \* the page of each task's kernel stack
    oom           \* palloc returned NULL; its callers use the address 0

vars == <<current, phase, refCount, pages, heap, nextAddr, objects, stack, oom>>

Phases == {"unused", "created", "launching", "running", "exited"}
Addr(p) == p * PageSize
Top(t)  == heap[t] + PageSize

\* task_init: the idle task with its stack page.
Init ==
    /\ current = Idle
    /\ phase = [t \in Task |-> IF t = Idle THEN "running" ELSE "unused"]
    /\ refCount = [p \in Page |-> IF p = 0 THEN 1 ELSE 0]
    /\ pages = [t \in Task |-> IF t = Idle THEN {0} ELSE {}]
    /\ heap = [t \in Task |-> Null]
    /\ nextAddr = Null
    /\ objects = {}
    /\ stack = [t \in Task |-> 0]
    /\ oom = FALSE

----------------------------------------------------------------------------
\* Definitions named Bug_... are not part of the model: each is the definition after it
\* with a mistake in it, for checking that a property notices.

\* One page too few is looked at.
Bug_Free(p, n) == \A q \in p..(p + n - 2) : refCount[q] = 0

\* is_contiguously_free(p, n).  Nothing keeps p + n within num_pages.
Free(p, n) == \A q \in p..(p + n - 1) : refCount[q] = 0

\* palloc(n) returns page p.
FirstFit(p, n) == p \in Zone /\ Free(p, n) /\ \A q \in 0..(p - 1) : ~Free(q, n)
NoFit(n)       == \A p \in Zone : ~Free(p, n)

\* The pages in ps come to the list of the current task.
Take(ps) ==
    /\ refCount' = [p \in Page |-> IF p \in ps THEN 1 ELSE refCount[p]]
    /\ pages' = [pages EXCEPT ![current] = @ \cup ps]

\* "pm: run out of memory", and a caller that does not look.
OutOfMemory(n) ==
    /\ NoFit(n)
    /\ oom' = TRUE
    /\ UNCHANGED <<current, phase, refCount, pages, heap, nextAddr, objects, stack>>

----------------------------------------------------------------------------
\* vm_create: alloc_tid, vm_init, arch_vm_init.  The stack page goes to the list of the
\* current task.
VmCreate ==
    /\ ~oom
    /\ current \in Creators /\ phase[current] = "running"
    /\ \E t \in Task :
        /\ phase[t] = "unused" /\ \A u \in 1..(t - 1) : phase[u] # "unused"
        /\ phase' = [phase EXCEPT ![t] = "created"]
        /\ heap' = [heap EXCEPT ![t] = Null]
        /\ \E p \in Zone :
            /\ FirstFit(p, 1)
            /\ refCount' = [refCount EXCEPT ![p] = 1]
            /\ pages' = [[pages EXCEPT ![t] = {}] EXCEPT ![current] = @ \cup {p}]
            /\ stack' = [stack EXCEPT ![t] = p]
    /\ UNCHANGED <<current, nextAddr, objects, oom>>

VmCreateOom ==
    /\ ~oom
    /\ current \in Creators /\ phase[current] = "running"
    /\ \E t \in Task : phase[t] = "unused"
    /\ OutOfMemory(1)

\* The CPU goes to another task; a new one starts to launch.
TaskSwitch ==
    /\ ~oom
    /\ phase[current] \in {"running", "exited"}
    /\ \E t \in Task \ {Idle} :
        /\ phase[t] \in {"created", "running"}
        /\ current' = t
        /\ phase' = [phase EXCEPT ![t] = IF @ = "created" THEN "launching" ELSE @]
    /\ UNCHANGED <<refCount, pages, heap, nextAddr, objects, stack, oom>>

\* next_paddr moves on by one unit whatever the size.
Bug_Object(a, size) ==
    /\ nextAddr' = a + 1
    /\ objects' = objects \cup {[owner |-> current, addr |-> a, size |-> size]}

\* malloc(size): the object lies at a.
Object(a, size) ==
    /\ nextAddr' = a + size
    /\ objects' = objects \cup {[owner |-> current, addr |-> a, size |-> size]}

\* The test for a task without heap is missing.
Bug_MallocInPage(size) ==
    /\ nextAddr + size <= Top(current)
    /\ Object(nextAddr, size)
    /\ UNCHANGED <<refCount, pages, heap, oom>>

\* The size is left out of the test for the end of the page.
Bug_MallocOverPage(size) ==
    /\ heap[current] # Null
    /\ nextAddr < Top(current)
    /\ Object(nextAddr, size)
    /\ UNCHANGED <<refCount, pages, heap, oom>>

MallocInPage(size) ==
    /\ heap[current] # Null
    /\ nextAddr + size <= Top(current)
    /\ Object(nextAddr, size)
    /\ UNCHANGED <<refCount, pages, heap, oom>>

\* The first page of a heap, or one more; when the object does not fit a page, a first
\* page and one more.
MallocNewPage(size) ==
    /\ heap[current] # Null => nextAddr + size > Top(current)
    /\ \E p \in Zone :
        /\ FirstFit(p, 1)
        /\ \/ /\ heap[current] # Null \/ size <= PageSize
              /\ Take({p})
              /\ heap' = [heap EXCEPT ![current] = Addr(p)]
              /\ Object(Addr(p), size)
           \/ /\ heap[current] = Null /\ size > PageSize
              /\ \E q \in (p + 1)..(NumPages - 1) :
                  /\ refCount[q] = 0 /\ \A r \in (p + 1)..(q - 1) : refCount[r] # 0
                  /\ Take({p, q})
                  /\ heap' = [heap EXCEPT ![current] = Addr(q)]
                  /\ Object(Addr(q), size)
    /\ UNCHANGED oom

Malloc ==
    /\ ~oom
    /\ phase[current] = "launching"
    /\ \E size \in Sizes : MallocInPage(size) \/ MallocNewPage(size)
    /\ UNCHANGED <<current, phase, stack>>

\* create_context: palloc for the operand stack and for the linear memory.
Palloc ==
    /\ ~oom
    /\ phase[current] = "launching"
    /\ \E n \in Chunks, p \in Zone : FirstFit(p, n) /\ Take(p..(p + n - 1))
    /\ UNCHANGED <<current, phase, heap, nextAddr, objects, stack, oom>>

LaunchOom ==
    /\ ~oom
    /\ phase[current] = "launching"
    /\ \E n \in Chunks \cup {1} : OutOfMemory(n)

\* run_vm starts, or the parser gives the module up with task_exit.
Launched ==
    /\ ~oom
    /\ phase[current] = "launching"
    /\ phase' = [phase EXCEPT ![current] = "running"]
    /\ UNCHANGED <<current, refCount, pages, heap, nextAddr, objects, stack, oom>>

\* A task that created others exits.
Bug_TaskExit ==
    /\ ~oom
    /\ phase[current] \in {"launching", "running"}
    /\ phase' = [phase EXCEPT ![current] = "exited"]
    /\ UNCHANGED <<current, refCount, pages, heap, nextAddr, objects, stack, oom>>

TaskExit ==
    /\ ~oom
    /\ current \notin Creators /\ phase[current] \in {"launching", "running"}
    /\ phase' = [phase EXCEPT ![current] = "exited"]
    /\ UNCHANGED <<current, refCount, pages, heap, nextAddr, objects, stack, oom>>

\* task_destroy: pfree_by_list, heap = NULL, TASK_UNUSED.
TaskDestroy ==
    /\ ~oom
    /\ phase[current] = "running"
    /\ \E t \in Task :
        /\ phase[t] = "exited"
        /\ refCount' = [p \in Page |-> IF p \in pages[t] THEN refCount[p] - 1 ELSE refCount[p]]
        /\ pages' = [pages EXCEPT ![t] = {p \in @ : refCount[p] # 1}]
        /\ heap' = [heap EXCEPT ![t] = Null]
        /\ objects' = {o \in objects : o.owner # t}
        /\ phase' = [phase EXCEPT ![t] = "unused"]
    /\ UNCHANGED <<current, nextAddr, stack, oom>>

Next ==
    \/ VmCreate \/ VmCreateOom
    \/ TaskSwitch
    \/ Malloc \/ Palloc \/ LaunchOom \/ Launched
    \/ TaskExit \/ TaskDestroy

Spec == Init /\ [][Next]_vars

----------------------------------------------------------------------------
(* What is true of the allocators                                          *)

Live(t) == phase[t] \in {"created", "launching", "running"}
Bytes(o) == o.addr..(o.addr + o.size - 1)

\* An object larger than a page is given one page, and lies over what comes behind it.
InPage(o) == {a \in Bytes(o) : a < o.addr + PageSize}

TypeOK ==
    /\ current \in Task
    /\ phase \in [Task -> Phases]
    /\ refCount \in [Page -> {0, 1}]
    /\ pages \in [Task -> SUBSET Page]
    /\ heap \in [Task -> Int]
    /\ nextAddr \in Int
    /\ objects \subseteq [owner : Task, addr : Nat, size : Nat]
    /\ stack \in [Task -> Page]
    /\ oom \in BOOLEAN

(* A page in use is on the list of exactly one task and a free page on     *)
(* none (memory.c:22-50): no page is given to two tasks, freed twice, or   *)
(* lost when vm_init makes the list of a reused slot empty (task.c:28).    *)
OneOwner ==
    /\ \A p \in Page : refCount[p] = 1 <=> \E t \in Task : p \in pages[t]
    /\ \A t, u \in Task : t # u => pages[t] \cap pages[u] = {}

(* The objects malloc returned do not overlap, although all tasks share    *)
(* one next_paddr (memory.c:53), up to the page an object is given.        *)
ObjectsDisjoint ==
    \A o, r \in objects : o # r => InPage(o) \cap InPage(r) = {}

(* Every byte of an object lies in a page of the task it was allocated     *)
(* for, and only one larger than a page goes beyond (memory.c:64-69).      *)
ObjectsInOwnPages ==
    \A o \in objects : \A a \in InPage(o) : \E p \in pages[o.owner] : a \in Addr(p)..(Addr(p) + PageSize - 1)

(* The kernel stack of a task that can still run is in use, and is not     *)
(* memory that malloc gave out or the stack of another (task.c:37), but    *)
(* for objects larger than a page: true because the tasks whose lists hold *)
(* the stacks never exit.                                                  *)
StacksKept ==
    /\ \A t \in Task : Live(t) => refCount[stack[t]] = 1
    /\ \A t, u \in Task : Live(t) /\ Live(u) /\ t # u => stack[t] # stack[u]
    /\ \A t \in Task, o \in objects :
          Live(t) => InPage(o) \cap (Addr(stack[t])..(Addr(stack[t]) + PageSize - 1)) = {}

(* palloc gives out pages of the zone only, and says when it has none      *)
(* ("pm: run out of memory", memory.c:37).                                 *)
PagesInZone == \A p \in Page : refCount[p] = 1 => p \in Zone
============================================================================
