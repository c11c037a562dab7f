---------------------------- MODULE MemoryProofs ----------------------------
(***************************************************************************)
(* Proofs about Memory, for any numbers of task slots and pages and any    *)
(* sizes: a page has one owner, and what malloc gives out overlaps neither *)
(* with itself nor with a kernel stack.                                    *)
(***************************************************************************)
EXTENDS Memory, TLAPS

\* task_destroy leaves the list of a free slot empty, so the list_init of the next
\* vm_create loses nothing.
PagesInv == \A t \in Task : phase[t] = "unused" => pages[t] = {}

\* next_paddr has been set once a task has a heap.
HeapInv == \A t \in Task : heap[t] # Null => nextAddr \in Nat

IInv == TypeOK /\ OneOwner /\ PagesInv /\ HeapInv

----------------------------------------------------------------------------
(* What MemoryAssumption says of pages and sizes.                          *)
LEMMA MemoryFacts ==
    /\ NumPages \in Nat \ {0} /\ Slack \in Nat /\ Idle \in Task
    /\ Page = 0..(NumPages + Slack - 1) /\ Zone = 0..(NumPages - 1)
    /\ Zone \subseteq Page /\ 0 \in Page /\ Page \subseteq Nat
    /\ Sizes \subseteq Nat /\ Null \notin Nat
    /\ \A p \in Page : Addr(p) \in Nat
    /\ \A n \in Chunks : n \in Nat \ {0} /\ n <= Slack + 1
  <1>1. /\ NumPages \in Nat \ {0} /\ Slack \in Nat /\ PageSize \in Nat /\ Sizes \subseteq Nat
        /\ Chunks \subseteq 1..(Slack + 1) /\ Idle \in Task
    BY MemoryAssumption DEF MemoryAssumption
  <1>2. Zone \subseteq Page /\ 0 \in Page /\ Page \subseteq Nat
    BY <1>1 DEF Zone, Page
  <1>3. \A p \in Page : Addr(p) \in Nat
    BY <1>1, <1>2 DEF Addr
  <1> QED
    BY <1>1, <1>2, <1>3 DEF Page, Zone, Null

(* The pages palloc(n) gives out are struct pages, and all of them were    *)
(* free.                                                                   *)
LEMMA FirstFitFacts ==
    ASSUME NEW n \in Chunks \cup {1}, NEW p \in Zone, FirstFit(p, n)
    PROVE  /\ p..(p + n - 1) \subseteq Page
           /\ \A q \in p..(p + n - 1) : refCount[q] = 0
           /\ p \in Page /\ refCount[p] = 0
  <1>1. /\ NumPages \in Nat /\ Slack \in Nat /\ n \in Nat \ {0} /\ n <= Slack + 1
        /\ p \in 0..(NumPages - 1) /\ Page = 0..(NumPages + Slack - 1)
    BY MemoryFacts
  <1>2. \A q \in p..(p + n - 1) : refCount[q] = 0
    BY DEF FirstFit, Free
  <1>3. p \in p..(p + n - 1)
    BY <1>1
  <1>4. p..(p + n - 1) \subseteq Page
    BY <1>1
  <1> QED
    BY <1>2, <1>3, <1>4

(* Free pages that come to a list have one owner.                          *)
LEMMA TakeStep ==
    ASSUME IInv, NEW ps \in SUBSET Page, \A p \in ps : refCount[p] = 0, Take(ps)
    PROVE  /\ refCount' \in [Page -> {0, 1}] /\ pages' \in [Task -> SUBSET Page]
           /\ OneOwner'
           /\ \A t \in Task \ {current} : pages'[t] = pages[t]
  <1> USE DEF IInv
  <1>1. /\ refCount' \in [Page -> {0, 1}]
        /\ \A p \in Page : refCount'[p] = IF p \in ps THEN 1 ELSE refCount[p]
    BY DEF Take, TypeOK
  <1>2. /\ pages' \in [Task -> SUBSET Page] /\ current \in Task
        /\ pages'[current] = pages[current] \cup ps
        /\ \A t \in Task \ {current} : pages'[t] = pages[t]
    BY DEF Take, TypeOK
  <1>3. \A t \in Task : pages[t] \cap ps = {}
    BY DEF OneOwner
  <1>4. \A p \in Page : refCount'[p] = 1 <=> \E t \in Task : p \in pages'[t]
    BY <1>1, <1>2 DEF OneOwner
  <1>5. \A t, u \in Task : t # u => pages'[t] \cap pages'[u] = {}
    BY <1>2, <1>3 DEF OneOwner
  <1> QED
    BY <1>1, <1>2, <1>4, <1>5 DEF OneOwner

(* The invariant of the pages holds at the start.                          *)
LEMMA InitInv == Init => IInv
  <1> SUFFICES ASSUME Init PROVE IInv
    OBVIOUS
  <1>1. Idle \in Task /\ 0 \in Page
    BY MemoryFacts
  <1>2. /\ \A p \in Page : refCount[p] = IF p = 0 THEN 1 ELSE 0
        /\ \A t \in Task : /\ pages[t] = IF t = Idle THEN {0} ELSE {}
                           /\ phase[t] = IF t = Idle THEN "running" ELSE "unused"
                           /\ heap[t] = Null
    BY DEF Init
  <1>3. TypeOK
    <2>1. Null \in Int
      BY DEF Null
    <2>2. pages \in [Task -> SUBSET Page] /\ stack \in [Task -> Page]
      BY <1>1 DEF Init
    <2>3. refCount \in [Page -> {0, 1}] /\ phase \in [Task -> Phases]
      BY DEF Init, Phases
    <2>4. current \in Task /\ heap \in [Task -> Int] /\ nextAddr \in Int
      BY <1>1, <2>1 DEF Init
    <2> QED
      BY <2>2, <2>3, <2>4 DEF Init, TypeOK
  <1>4. OneOwner
    BY <1>1, <1>2 DEF OneOwner
  <1> QED
    BY <1>2, <1>3, <1>4 DEF IInv, PagesInv, HeapInv

(* vm_create takes a slot whose list is empty.                             *)
LEMMA VmCreateStep ==
    ASSUME IInv, VmCreate
    PROVE  IInv'
  <1> USE DEF IInv
  <1>1. PICK t \in Task, p \in Zone :
        /\ phase[t] = "unused" /\ phase[current] = "running"
        /\ phase' = [phase EXCEPT ![t] = "created"]
        /\ heap' = [heap EXCEPT ![t] = Null]
        /\ FirstFit(p, 1)
        /\ refCount' = [refCount EXCEPT ![p] = 1]
        /\ pages' = [[pages EXCEPT ![t] = {}] EXCEPT ![current] = @ \cup {p}]
        /\ stack' = [stack EXCEPT ![t] = p]
        /\ UNCHANGED <<current, nextAddr, objects, oom>>
    BY DEF VmCreate
  <1>2. current \in Task /\ t # current /\ pages[t] = {}
    BY <1>1 DEF TypeOK, PagesInv
  <1>3. p \in Page /\ refCount[p] = 0
    BY <1>1, FirstFitFacts
  <1>4. /\ pages' \in [Task -> SUBSET Page]
        /\ pages'[current] = pages[current] \cup {p}
        /\ \A u \in Task \ {current} : pages'[u] = pages[u]
    BY <1>1, <1>2, <1>3 DEF TypeOK
  <1>5. /\ refCount' \in [Page -> {0, 1}] /\ refCount'[p] = 1
        /\ \A q \in Page \ {p} : refCount'[q] = refCount[q]
    BY <1>1, <1>3 DEF TypeOK
  <1>6. \A u \in Task : p \notin pages[u]
    BY <1>3 DEF OneOwner
  <1>7. OneOwner'
    <2>1. \A q \in Page : refCount'[q] = 1 <=> \E u \in Task : q \in pages'[u]
      BY <1>2, <1>4, <1>5 DEF OneOwner
    <2>2. \A u, v \in Task : u # v => pages'[u] \cap pages'[v] = {}
      BY <1>4, <1>6 DEF OneOwner
    <2> QED
      BY <2>1, <2>2 DEF OneOwner
  <1>8. TypeOK'
    BY <1>1, <1>3, <1>4, <1>5 DEF TypeOK, Phases, Null
  <1>9. PagesInv' /\ HeapInv'
    BY <1>1, <1>2, <1>4 DEF PagesInv, HeapInv, TypeOK
  <1> QED
    BY <1>7, <1>8, <1>9

(* malloc takes free pages for the heap.                                   *)
LEMMA MallocStep ==
    ASSUME IInv, Malloc
    PROVE  IInv'
  <1> USE DEF IInv
  <1>1. PICK size \in Sizes : MallocInPage(size) \/ MallocNewPage(size)
    BY DEF Malloc
  <1>2. /\ phase[current] = "launching" /\ current \in Task /\ size \in Nat
        /\ UNCHANGED <<current, phase, stack>>
    BY <1>1, MemoryFacts DEF Malloc, TypeOK
  <1>3. CASE MallocInPage(size)
    <2>1. /\ nextAddr \in Nat /\ Object(nextAddr, size)
          /\ UNCHANGED <<refCount, pages, heap, oom>>
      BY <1>2, <1>3 DEF MallocInPage, HeapInv
    <2>2. TypeOK'
      BY <1>2, <2>1 DEF Object, TypeOK
    <2>3. OneOwner' /\ PagesInv'
      BY <1>2, <2>1 DEF OneOwner, PagesInv
    <2>4. HeapInv'
      BY <1>2, <2>1 DEF Object, HeapInv
    <2> QED
      BY <2>2, <2>3, <2>4
  <1>4. CASE MallocNewPage(size)
    <2>1. PICK p \in Zone :
          /\ FirstFit(p, 1) /\ UNCHANGED oom
          /\ \/ /\ Take({p})
                /\ heap' = [heap EXCEPT ![current] = Addr(p)]
                /\ Object(Addr(p), size)
             \/ \E q \in (p + 1)..(NumPages - 1) :
                /\ refCount[q] = 0
                /\ Take({p, q})
                /\ heap' = [heap EXCEPT ![current] = Addr(q)]
                /\ Object(Addr(q), size)
      BY <1>4 DEF MallocNewPage
    <2>2. p \in Page /\ refCount[p] = 0 /\ p \in Nat
      BY <2>1, FirstFitFacts, MemoryFacts
    <2>3. PICK q \in Page :
          /\ refCount[q] = 0
          /\ (Take({p}) /\ q = p) \/ Take({p, q})
          /\ heap' = [heap EXCEPT ![current] = Addr(q)]
          /\ Object(Addr(q), size)
      <3>1. \A q \in (p + 1)..(NumPages - 1) : q \in Page
        BY <2>2, MemoryFacts
      <3> QED
        BY <2>1, <2>2, <3>1
    <2>4. Addr(q) \in Nat
      BY MemoryFacts
    <2>5. /\ refCount' \in [Page -> {0, 1}] /\ pages' \in [Task -> SUBSET Page]
          /\ OneOwner'
          /\ \A t \in Task \ {current} : pages'[t] = pages[t]
      <3>1. {p} \in SUBSET Page /\ {p, q} \in SUBSET Page
        BY <2>2
      <3>2. \A r \in {p, q} : refCount[r] = 0
        BY <2>2, <2>3
      <3> QED
        BY <2>3, <3>1, <3>2, TakeStep
    <2>6. nextAddr' \in Nat /\ objects' = objects \cup {[owner |-> current, addr |-> Addr(q), size |-> size]}
      BY <2>3, <2>4, <1>2 DEF Object
    <2>7. TypeOK'
      <3>1. [owner |-> current, addr |-> Addr(q), size |-> size]
               \in [owner : Task, addr : Nat, size : Nat]
        BY <1>2, <2>4
      <3>2. objects' \subseteq [owner : Task, addr : Nat, size : Nat]
        BY <2>6, <3>1 DEF TypeOK
      <3>3. heap' \in [Task -> Int]
        BY <2>3, <2>4 DEF TypeOK
      <3> QED
        BY <1>2, <2>1, <2>5, <2>6, <3>2, <3>3 DEF TypeOK
    <2>8. PagesInv' /\ HeapInv'
      BY <1>2, <2>5, <2>6 DEF PagesInv, HeapInv
    <2> QED
      BY <2>5, <2>7, <2>8
  <1> QED
    BY <1>1, <1>3, <1>4

(* create_context takes free pages.                                        *)
LEMMA PallocStep ==
    ASSUME IInv, Palloc
    PROVE  IInv'
  <1> USE DEF IInv
  <1>1. PICK n \in Chunks, p \in Zone : FirstFit(p, n) /\ Take(p..(p + n - 1))
    BY DEF Palloc
  <1>2. /\ phase[current] = "launching" /\ current \in Task
        /\ UNCHANGED <<current, phase, heap, nextAddr, objects, stack, oom>>
    BY DEF Palloc, TypeOK
  <1>3. /\ refCount' \in [Page -> {0, 1}] /\ pages' \in [Task -> SUBSET Page]
        /\ OneOwner'
        /\ \A t \in Task \ {current} : pages'[t] = pages[t]
    BY <1>1, FirstFitFacts, TakeStep
  <1> QED
    BY <1>2, <1>3 DEF TypeOK, PagesInv, HeapInv

(* task_destroy gives every page of the list back, and only those.         *)
LEMMA TaskDestroyStep ==
    ASSUME IInv, TaskDestroy
    PROVE  IInv'
  <1> USE DEF IInv
  <1>1. PICK t \in Task :
        /\ refCount' = [p \in Page |-> IF p \in pages[t] THEN refCount[p] - 1 ELSE refCount[p]]
        /\ pages' = [pages EXCEPT ![t] = {p \in @ : refCount[p] # 1}]
        /\ heap' = [heap EXCEPT ![t] = Null]
        /\ objects' = {o \in objects : o.owner # t}
        /\ phase' = [phase EXCEPT ![t] = "unused"]
        /\ UNCHANGED <<current, nextAddr, stack, oom>>
    BY DEF TaskDestroy
  <1>2. \A p \in pages[t] : p \in Page /\ refCount[p] = 1
    BY DEF TypeOK, OneOwner
  <1>3. \A p \in Page : refCount'[p] = IF p \in pages[t] THEN 0 ELSE refCount[p]
    BY <1>1, <1>2
  <1>4. pages'[t] = {} /\ \A u \in Task \ {t} : pages'[u] = pages[u]
    <2>1. {p \in pages[t] : refCount[p] # 1} = {}
      BY <1>2
    <2> QED
      BY <1>1, <2>1 DEF TypeOK
  <1>5. refCount' \in [Page -> {0, 1}] /\ pages' \in [Task -> SUBSET Page]
    BY <1>1, <1>2, <1>3 DEF TypeOK
  <1>6. OneOwner'
    <2>1. \A u, v \in Task : u # v => pages[u] \cap pages[v] = {}
      BY DEF OneOwner
    <2>2. \A p \in Page : refCount'[p] = 1 <=> \E u \in Task : p \in pages'[u]
      BY <1>3, <1>4, <2>1 DEF OneOwner
    <2>3. \A u, v \in Task : u # v => pages'[u] \cap pages'[v] = {}
      BY <1>4, <2>1
    <2> QED
      BY <2>2, <2>3 DEF OneOwner
  <1>7. TypeOK'
    BY <1>1, <1>5 DEF TypeOK, Phases, Null
  <1>8. PagesInv' /\ HeapInv'
    BY <1>1, <1>4 DEF PagesInv, HeapInv, TypeOK
  <1> QED
    BY <1>6, <1>7, <1>8

(* Every step keeps the invariant of the pages.                            *)
LEMMA NextStep ==
    ASSUME IInv, [Next]_vars
    PROVE  IInv'
  <1> USE DEF IInv
  <1>1. CASE UNCHANGED vars
    BY <1>1 DEF vars, TypeOK, OneOwner, PagesInv, HeapInv
  <1>2. CASE VmCreateOom \/ LaunchOom
    <2>1. UNCHANGED <<refCount, pages, heap, nextAddr, stack, objects, phase, current>> /\ oom' \in BOOLEAN
      BY <1>2 DEF VmCreateOom, LaunchOom, OutOfMemory
    <2> QED
      BY <2>1 DEF TypeOK, OneOwner, PagesInv, HeapInv
  <1>3. CASE TaskSwitch
    BY <1>3 DEF TaskSwitch, TypeOK, OneOwner, PagesInv, HeapInv, Phases
  <1>4. CASE Launched \/ TaskExit
    BY <1>4 DEF Launched, TaskExit, TypeOK, OneOwner, PagesInv, HeapInv, Phases
  <1> QED
    BY <1>1, <1>2, <1>3, <1>4, VmCreateStep, MallocStep, PallocStep, TaskDestroyStep DEF Next

(* So it holds always.                                                     *)
LEMMA Invariance == Spec => []IInv
  <1>1. IInv /\ [Next]_vars => IInv'
    BY NextStep
  <1> QED
    BY InitInv, <1>1, PTL DEF Spec

(* The allocators' data keep their types, whatever the programs ask for:   *)
(* no reference count leaves {0, 1} (memory.c:41, memory.c:48).            *)
THEOREM TypeCorrect == Spec => []TypeOK
  <1>1. IInv => TypeOK
    BY DEF IInv
  <1> QED
    BY Invariance, <1>1, PTL

(* A page in use is on one list, a free page on none (memory.c:22-50).     *)
THEOREM OwnerCorrect == Spec => []OneOwner
  <1>1. IInv => OneOwner
    BY DEF IInv
  <1> QED
    BY Invariance, <1>1, PTL

----------------------------------------------------------------------------
(* What lies where in the pages                                            *)

PageBytes(p) == Addr(p)..(Addr(p) + PageSize - 1)

\* A task whose list holds the stacks of others is not destroyed.
CreatorsInv == \A t \in Task : phase[t] = "exited" => t \notin Creators

\* A task that has not run has no heap.
CreatedInv == \A t \in Task : phase[t] = "created" => heap[t] = Null

\* task.heap is a page of the task, and nobody's stack.
HeapPageInv ==
    \A t \in Task : heap[t] # Null =>
        /\ \E p \in pages[t] : heap[t] = Addr(p)
        /\ \A u \in Task : Live(u) => heap[t] # Addr(stack[u])

\* While a task launches, next_paddr is in or behind its heap page, and what is in that
\* page is in front of next_paddr.
LaunchInv ==
    phase[current] = "launching" /\ heap[current] # Null =>
        /\ nextAddr >= heap[current]
        /\ \A o \in objects : \A a \in InPage(o) :
              a \in heap[current]..(Top(current) - 1) => a < nextAddr

\* Every object has one page of its owner, however large it is.
PlacedInv == \A o \in objects : \E p \in pages[o.owner] : InPage(o) \subseteq PageBytes(p)

\* The stack of a task that can still run is on the list of a creator.
StackInv ==
    /\ \A t \in Task : Live(t) => \E c \in Creators : stack[t] \in pages[c]
    /\ \A t, u \in Task : Live(t) /\ Live(u) /\ t # u => stack[t] # stack[u]

\* No object lies in the stack of a task that can still run.
ApartInv ==
    \A t \in Task, o \in objects : Live(t) => InPage(o) \cap PageBytes(stack[t]) = {}

Layout ==
    /\ CreatorsInv /\ CreatedInv
    /\ HeapPageInv /\ LaunchInv
    /\ PlacedInv /\ ObjectsDisjoint
    /\ StackInv /\ ApartInv

----------------------------------------------------------------------------
(* Different pages have no address in common.                              *)
LEMMA PagesApart ==
    ASSUME NEW p \in Page, NEW q \in Page, p # q
    PROVE  Addr(p) # Addr(q) /\ PageBytes(p) \cap PageBytes(q) = {}
  <1>1. PageSize \in Nat \ {0} /\ p \in Nat /\ q \in Nat
    BY MemoryAssumption, MemoryFacts DEF MemoryAssumption
  <1>2. ASSUME NEW m \in Nat, NEW n \in Nat, m < n
        PROVE  m * PageSize + PageSize <= n * PageSize
    <2>1. PICK k \in Nat : n = m + 1 + k
      <3>1. n - m - 1 \in Nat /\ n = m + 1 + (n - m - 1)
        BY <1>2
      <3> QED
        BY <3>1
    <2>2. k * PageSize \in Nat /\ m * PageSize \in Nat
      BY <1>1
    <2>3. n * PageSize = m * PageSize + PageSize + k * PageSize
      BY <1>1, <2>1
    <2> QED
      BY <1>1, <2>2, <2>3
  <1>3. Addr(p) + PageSize <= Addr(q) \/ Addr(q) + PageSize <= Addr(p)
    BY <1>1, <1>2 DEF Addr
  <1>4. Addr(p) \in Nat /\ Addr(q) \in Nat
    BY MemoryFacts
  <1> QED
    BY <1>1, <1>3, <1>4 DEF PageBytes

(* The bytes of an object, up to the end of a page.                        *)
LEMMA InPageFacts ==
    ASSUME NEW o \in [owner : Task, addr : Nat, size : Nat]
    PROVE  \A a \in InPage(o) : /\ a \in Nat /\ o.addr <= a
                                /\ a < o.addr + o.size /\ a < o.addr + PageSize
  <1>1. PageSize \in Nat /\ o.addr \in Nat /\ o.size \in Nat
    BY MemoryAssumption DEF MemoryAssumption
  <1> QED
    BY <1>1 DEF InPage, Bytes

(* Nothing lies in a free page.                                            *)
LEMMA FreePage ==
    ASSUME IInv, Layout, NEW p \in Page, refCount[p] = 0
    PROVE  /\ \A o \in objects : InPage(o) \cap PageBytes(p) = {}
           /\ \A t \in Task : Live(t) => stack[t] # p
           /\ \A t \in Task : heap[t] # Null => heap[t] # Addr(p)
  <1> USE DEF IInv, Layout
  <1>1. \A t \in Task : \A q \in pages[t] : q \in Page /\ q # p
    BY DEF TypeOK, OneOwner
  <1>2. ASSUME NEW o \in objects
        PROVE  InPage(o) \cap PageBytes(p) = {}
    <2>1. o.owner \in Task
      BY DEF TypeOK
    <2>2. PICK q \in pages[o.owner] : InPage(o) \subseteq PageBytes(q)
      BY DEF PlacedInv
    <2> QED
      BY <1>1, <2>1, <2>2, PagesApart
  <1>3. ASSUME NEW t \in Task, Live(t)
        PROVE  stack[t] # p
    <2>1. PICK c \in Creators : stack[t] \in pages[c]
      BY <1>3 DEF StackInv
    <2>2. c \in Task
      BY MemoryAssumption DEF MemoryAssumption
    <2> QED
      BY <1>1, <2>1, <2>2
  <1>4. ASSUME NEW t \in Task, heap[t] # Null
        PROVE  heap[t] # Addr(p)
    <2>1. PICK q \in pages[t] : heap[t] = Addr(q)
      BY <1>4 DEF HeapPageInv
    <2> QED
      BY <1>1, <2>1, PagesApart
  <1> QED
    BY <1>2, <1>3, <1>4

(* The layout of the heaps is right at the start.                          *)
LEMMA InitLayout == Init => Layout
  <1> SUFFICES ASSUME Init PROVE Layout
    OBVIOUS
  <1>1. Idle \in Creators /\ Creators \subseteq Task
    BY MemoryAssumption DEF MemoryAssumption
  <1>2. /\ \A t \in Task : /\ phase[t] = IF t = Idle THEN "running" ELSE "unused"
                           /\ heap[t] = Null
        /\ current = Idle /\ objects = {} /\ pages[Idle] = {0} /\ stack[Idle] = 0
    BY <1>1 DEF Init
  <1>3. \A t \in Task : Live(t) <=> t = Idle
    BY <1>2 DEF Live
  <1>4. CreatorsInv /\ CreatedInv /\ HeapPageInv
    BY <1>2 DEF CreatorsInv, CreatedInv, HeapPageInv
  <1>5. LaunchInv /\ PlacedInv /\ ObjectsDisjoint /\ ApartInv
    BY <1>1, <1>2 DEF LaunchInv, PlacedInv, ObjectsDisjoint, ApartInv
  <1>6. StackInv
    BY <1>1, <1>2, <1>3 DEF StackInv
  <1> QED
    BY <1>4, <1>5, <1>6 DEF Layout

(* Steps that give or take no memory.  A task that starts to launch has no *)
(* heap.                                                                   *)
LEMMA QuietStep ==
    ASSUME IInv, Layout,
           UNCHANGED <<refCount, pages, heap, nextAddr, objects, stack>>,
           phase' \in [Task -> Phases], current' \in Task,
           \A t \in Task : Live(t)' => Live(t),
           \A t \in Task : phase'[t] = "exited" => t \notin Creators,
           \A t \in Task : phase'[t] = "created" => phase[t] = "created",
           phase'[current'] = "launching" =>
               \/ phase[current'] = "created"
               \/ phase[current'] = "launching" /\ current' = current
    PROVE  Layout'
  <1> USE DEF IInv, Layout
  <1>1. CreatorsInv' /\ CreatedInv'
    BY DEF CreatorsInv, CreatedInv
  <1>2. HeapPageInv' /\ StackInv'
    BY DEF HeapPageInv, StackInv
  <1>3. LaunchInv'
    <2>1. CASE phase[current'] = "created"
      BY <2>1 DEF LaunchInv, CreatedInv
    <2>2. CASE phase[current'] = "launching" /\ current' = current
      BY <2>2 DEF LaunchInv, Top, InPage, Bytes
    <2> QED
      BY <2>1, <2>2 DEF LaunchInv
  <1>4. PlacedInv' /\ ObjectsDisjoint'
    BY DEF PlacedInv, ObjectsDisjoint, InPage, Bytes, PageBytes, Addr
  <1>5. ApartInv'
    BY DEF ApartInv, InPage, Bytes, PageBytes, Addr
  <1> QED
    BY <1>1, <1>2, <1>3, <1>4, <1>5

(* vm_create: the stack is a free page, so nothing lies in it.             *)
LEMMA VmCreateLayout ==
    ASSUME IInv, Layout, VmCreate
    PROVE  Layout'
  <1> USE DEF IInv, Layout
  <1>1. PICK t \in Task, p \in Zone :
        /\ phase[t] = "unused" /\ phase[current] = "running" /\ current \in Creators
        /\ phase' = [phase EXCEPT ![t] = "created"]
        /\ heap' = [heap EXCEPT ![t] = Null]
        /\ FirstFit(p, 1)
        /\ pages' = [[pages EXCEPT ![t] = {}] EXCEPT ![current] = @ \cup {p}]
        /\ stack' = [stack EXCEPT ![t] = p]
        /\ UNCHANGED <<current, nextAddr, objects, oom>>
    BY DEF VmCreate
  <1>2. current \in Task /\ t # current /\ pages[t] = {}
    BY <1>1 DEF TypeOK, PagesInv
  <1>3. p \in Page /\ refCount[p] = 0
    BY <1>1, FirstFitFacts
  <1>4. /\ \A u \in Task : pages[u] \subseteq pages'[u]
        /\ p \in pages'[current]
    BY <1>1, <1>2 DEF TypeOK
  <1>5. /\ stack'[t] = p /\ \A u \in Task \ {t} : stack'[u] = stack[u]
        /\ heap'[t] = Null /\ \A u \in Task \ {t} : heap'[u] = heap[u]
        /\ phase'[t] = "created" /\ \A u \in Task \ {t} : phase'[u] = phase[u]
    BY <1>1 DEF TypeOK
  <1>6. \A u \in Task \ {t} : Live(u)' => Live(u)
    BY <1>5 DEF Live
  <1>7. CreatorsInv' /\ CreatedInv'
    BY <1>5 DEF CreatorsInv, CreatedInv
  <1>8. HeapPageInv'
    <2> SUFFICES ASSUME NEW u \in Task, heap'[u] # Null
                 PROVE  /\ \E q \in pages'[u] : heap'[u] = Addr(q)
                        /\ \A v \in Task : Live(v)' => heap'[u] # Addr(stack'[v])
      BY DEF HeapPageInv, Addr
    <2>1. u # t /\ heap'[u] = heap[u] /\ heap[u] # Null
      BY <1>5
    <2>2. \E q \in pages'[u] : heap'[u] = Addr(q)
      BY <1>4, <2>1 DEF HeapPageInv
    <2>3. ASSUME NEW v \in Task, Live(v)'
          PROVE  heap'[u] # Addr(stack'[v])
      <3>1. CASE v = t
        BY <1>3, <1>5, <2>1, <3>1, FreePage
      <3>2. CASE v # t
        BY <1>5, <1>6, <2>1, <2>3, <3>2 DEF HeapPageInv
      <3> QED
        BY <3>1, <3>2
    <2> QED
      BY <2>2, <2>3
  <1>9. LaunchInv'
    BY <1>1, <1>2, <1>5 DEF LaunchInv
  <1>10. PlacedInv'
    <2> SUFFICES ASSUME NEW o \in objects
                 PROVE  \E q \in pages'[o.owner] : InPage(o) \subseteq PageBytes(q)
      BY <1>1 DEF PlacedInv, InPage, Bytes, PageBytes, Addr
    <2>1. o.owner \in Task
      BY DEF TypeOK
    <2> QED
      BY <1>4, <2>1 DEF PlacedInv
  <1>11. ObjectsDisjoint'
    BY <1>1 DEF ObjectsDisjoint, InPage, Bytes
  <1>12. StackInv'
    <2>1. ASSUME NEW u \in Task, Live(u)'
          PROVE  \E c \in Creators : stack'[u] \in pages'[c]
      <3>1. CASE u = t
        <4>1. current \in Creators /\ stack'[u] = p /\ p \in pages'[current]
          BY <1>1, <1>4, <1>5, <3>1
        <4> QED
          BY <4>1
      <3>2. CASE u # t
        <4>1. PICK c \in Creators : stack[u] \in pages[c]
          BY <1>6, <2>1, <3>2 DEF StackInv
        <4>2. c \in Task
          BY MemoryAssumption DEF MemoryAssumption
        <4> QED
          BY <1>4, <1>5, <3>2, <4>1, <4>2
      <3> QED
        BY <3>1, <3>2
    <2>2. \A u, v \in Task : Live(u)' /\ Live(v)' /\ u # v => stack'[u] # stack'[v]
      BY <1>3, <1>5, <1>6, FreePage DEF StackInv
    <2> QED
      BY <2>1, <2>2 DEF StackInv
  <1>13. ApartInv'
    <2> SUFFICES ASSUME NEW u \in Task, NEW o \in objects, Live(u)'
                 PROVE  InPage(o) \cap PageBytes(stack'[u]) = {}
      BY <1>1 DEF ApartInv, InPage, Bytes, PageBytes, Addr
    <2>1. CASE u = t
      BY <1>3, <1>5, <2>1, FreePage
    <2>2. CASE u # t
      BY <1>5, <1>6, <2>2 DEF ApartInv
    <2> QED
      BY <2>1, <2>2
  <1> QED
    BY <1>7, <1>8, <1>9, <1>10, <1>11, <1>12, <1>13

(* More pages on the list of the current task, with nothing in them.       *)
LEMMA TakeLayout ==
    ASSUME IInv, Layout, NEW ps \in SUBSET Page, Take(ps),
           phase[current] = "launching",
           UNCHANGED <<current, phase, heap, nextAddr, objects, stack>>
    PROVE  Layout'
  <1> USE DEF IInv, Layout
  <1>1. current \in Task /\ \A t \in Task : pages[t] \subseteq pages'[t]
    BY DEF Take, TypeOK
  <1>2. CreatorsInv' /\ CreatedInv' /\ LaunchInv' /\ ObjectsDisjoint' /\ ApartInv'
    BY DEF CreatorsInv, CreatedInv, LaunchInv, ObjectsDisjoint, ApartInv, Live, Top,
           InPage, Bytes, PageBytes, Addr
  <1>3. HeapPageInv'
    BY <1>1 DEF HeapPageInv, Live, Addr
  <1>4. PlacedInv'
    <2>1. \A o \in objects : o.owner \in Task
      BY DEF TypeOK
    <2> QED
      BY <1>1, <2>1 DEF PlacedInv, InPage, Bytes, PageBytes, Addr
  <1>5. StackInv'
    <2>1. Creators \subseteq Task
      BY MemoryAssumption DEF MemoryAssumption
    <2> QED
      BY <1>1, <2>1 DEF StackInv, Live
  <1> QED
    BY <1>2, <1>3, <1>4, <1>5

(* An object behind what is already in the heap page.                      *)
LEMMA MallocInPageLayout ==
    ASSUME IInv, Layout, phase[current] = "launching", NEW size \in Nat,
           MallocInPage(size), UNCHANGED <<current, phase, stack>>
    PROVE  Layout'
  <1> USE DEF IInv, Layout
  <1> DEFINE new == [owner |-> current, addr |-> nextAddr, size |-> size]
  <1>1. /\ heap[current] # Null /\ nextAddr + size <= Top(current)
        /\ nextAddr' = nextAddr + size /\ objects' = objects \cup {new}
        /\ UNCHANGED <<refCount, pages, heap, oom>>
    BY DEF MallocInPage, Object
  <1>2. /\ current \in Task /\ nextAddr \in Nat /\ PageSize \in Nat
        /\ heap[current] \in Int /\ nextAddr >= heap[current]
    BY <1>1, MemoryAssumption DEF MemoryAssumption, TypeOK, HeapInv, LaunchInv
  <1>3. PICK q \in pages[current] : heap[current] = Addr(q)
    BY <1>1, <1>2 DEF HeapPageInv
  <1>4. q \in Page /\ Addr(q) \in Nat
    BY <1>2, <1>3, MemoryFacts DEF TypeOK
  <1>5. new \in [owner : Task, addr : Nat, size : Nat]
    BY <1>2
  <1>6. \A a \in InPage(new) :
            /\ a \in Nat /\ nextAddr <= a /\ a < nextAddr + size
            /\ a \in heap[current]..(Top(current) - 1)
    <2>1. \A a \in InPage(new) : a \in Nat /\ nextAddr <= a /\ a < nextAddr + size
      BY <1>5, InPageFacts
    <2> QED
      BY <1>1, <1>2, <2>1 DEF Top
  <1>7. InPage(new) \subseteq PageBytes(q)
    <2>1. heap[current]..(Top(current) - 1) = PageBytes(q)
      BY <1>2, <1>3, <1>4 DEF PageBytes, Top
    <2> QED
      BY <1>6, <2>1
  <1>8. \A o \in objects : InPage(o) \cap InPage(new) = {}
    BY <1>1, <1>2, <1>6 DEF LaunchInv
  <1>9. CreatorsInv' /\ CreatedInv' /\ HeapPageInv' /\ StackInv'
    BY <1>1 DEF CreatorsInv, CreatedInv, HeapPageInv, StackInv, Live, Addr
  <1>10. LaunchInv'
    <2>1. nextAddr' >= heap[current]
      BY <1>1, <1>2
    <2>2. ASSUME NEW o \in objects', NEW a \in InPage(o), a \in heap[current]..(Top(current) - 1)
          PROVE  a < nextAddr'
      <3>1. CASE o \in objects
        BY <1>1, <1>2, <2>2, <3>1 DEF LaunchInv
      <3>2. CASE o = new
        BY <1>1, <1>6, <2>2, <3>2
      <3> QED
        BY <1>1, <3>1, <3>2
    <2> QED
      BY <1>1, <2>1, <2>2 DEF LaunchInv, Top, InPage, Bytes
  <1>11. PlacedInv'
    BY <1>1, <1>7 DEF PlacedInv, InPage, Bytes, PageBytes, Addr
  <1>12. ObjectsDisjoint'
    BY <1>1, <1>8 DEF ObjectsDisjoint, InPage, Bytes
  <1>13. ApartInv'
    <2>1. ASSUME NEW t \in Task, Live(t)
          PROVE  InPage(new) \cap PageBytes(stack[t]) = {}
      <3>1. stack[t] \in Page /\ stack[t] # q
        BY <1>1, <1>2, <1>3, <2>1 DEF HeapPageInv, TypeOK
      <3> QED
        BY <1>4, <1>7, <3>1, PagesApart
    <2> QED
      BY <1>1, <2>1 DEF ApartInv, Live, InPage, Bytes, PageBytes, Addr
  <1> QED
    BY <1>9, <1>10, <1>11, <1>12, <1>13

(* An object at the start of a page nothing lies in.                       *)
LEMMA NewPageLayout ==
    ASSUME IInv, Layout, phase[current] = "launching", NEW size \in Nat,
           NEW ps \in SUBSET Page, NEW q \in ps, refCount[q] = 0, Take(ps),
           heap' = [heap EXCEPT ![current] = Addr(q)], Object(Addr(q), size),
           UNCHANGED <<current, phase, stack>>
    PROVE  Layout'
  <1> USE DEF IInv, Layout
  <1> DEFINE new == [owner |-> current, addr |-> Addr(q), size |-> size]
  <1>1. nextAddr' = Addr(q) + size /\ objects' = objects \cup {new}
    BY DEF Object
  <1>2. /\ current \in Task /\ q \in Page /\ Addr(q) \in Nat /\ PageSize \in Nat
        /\ new \in [owner : Task, addr : Nat, size : Nat]
    BY MemoryFacts, MemoryAssumption DEF MemoryAssumption, TypeOK
  <1>3. /\ heap'[current] = Addr(q) /\ \A t \in Task \ {current} : heap'[t] = heap[t]
        /\ q \in pages'[current] /\ \A t \in Task : pages[t] \subseteq pages'[t]
    BY <1>2 DEF Take, TypeOK
  <1>4. \A a \in InPage(new) : a \in Nat /\ a < Addr(q) + size /\ a \in PageBytes(q)
    <2>1. \A a \in InPage(new) : /\ a \in Nat /\ Addr(q) <= a
                                 /\ a < Addr(q) + size /\ a < Addr(q) + PageSize
      BY <1>2, InPageFacts
    <2> QED
      BY <1>2, <2>1 DEF PageBytes
  <1>5. \A o \in objects : InPage(o) \cap PageBytes(q) = {}
    BY <1>2, FreePage
  <1>6. CreatorsInv' /\ CreatedInv'
    BY <1>3 DEF CreatorsInv, CreatedInv
  <1>7. HeapPageInv'
    <2>1. ASSUME NEW t \in Task, Live(t)
          PROVE  Addr(q) # Addr(stack[t])
      <3>1. stack[t] \in Page /\ stack[t] # q
        BY <1>2, <2>1, FreePage DEF TypeOK
      <3> QED
        BY <1>2, <3>1, PagesApart
    <2> QED
      BY <1>3, <2>1 DEF HeapPageInv, Live, Addr
  <1>8. LaunchInv'
    <2>1. nextAddr' >= heap'[current]
      BY <1>1, <1>2, <1>3
    <2>2. ASSUME NEW o \in objects', NEW a \in InPage(o), a \in PageBytes(q)
          PROVE  a < nextAddr'
      <3>1. CASE o \in objects
        BY <1>5, <2>2, <3>1
      <3>2. CASE o = new
        BY <1>1, <1>4, <2>2, <3>2
      <3> QED
        BY <1>1, <3>1, <3>2
    <2>3. heap'[current]..(Top(current)' - 1) = PageBytes(q)
      BY <1>2, <1>3 DEF Top, PageBytes
    <2>4. \A o \in objects' : \A a \in InPage(o) :
             a \in heap'[current]..(Top(current)' - 1) => a < nextAddr'
      BY <2>2, <2>3
    <2> QED
      BY <2>1, <2>4 DEF LaunchInv, InPage, Bytes
  <1>9. PlacedInv'
    <2>1. \A o \in objects : o.owner \in Task
      BY DEF TypeOK
    <2>2. InPage(new) \subseteq PageBytes(q)
      BY <1>4
    <2>3. \A o \in objects' : \E p \in pages'[o.owner] : InPage(o) \subseteq PageBytes(p)
      BY <1>1, <1>3, <2>1, <2>2 DEF PlacedInv
    <2> QED
      BY <2>3 DEF PlacedInv, InPage, Bytes, PageBytes, Addr
  <1>10. ObjectsDisjoint'
    <2>1. \A o \in objects : InPage(o) \cap InPage(new) = {}
      BY <1>4, <1>5
    <2> QED
      BY <1>1, <2>1 DEF ObjectsDisjoint, InPage, Bytes
  <1>11. StackInv'
    <2>1. Creators \subseteq Task
      BY MemoryAssumption DEF MemoryAssumption
    <2> QED
      BY <1>3, <2>1 DEF StackInv, Live
  <1>12. ApartInv'
    <2>1. ASSUME NEW t \in Task, Live(t)
          PROVE  InPage(new) \cap PageBytes(stack[t]) = {}
      <3>1. stack[t] \in Page /\ stack[t] # q
        BY <1>2, <2>1, FreePage DEF TypeOK
      <3> QED
        BY <1>2, <1>4, <3>1, PagesApart
    <2> QED
      BY <1>1, <2>1 DEF ApartInv, Live, InPage, Bytes, PageBytes, Addr
  <1> QED
    BY <1>6, <1>7, <1>8, <1>9, <1>10, <1>11, <1>12

(* malloc keeps the layout, in a page of the task or in a new one.         *)
LEMMA MallocLayout ==
    ASSUME IInv, Layout, Malloc
    PROVE  Layout'
  <1>1. PICK size \in Sizes : MallocInPage(size) \/ MallocNewPage(size)
    BY DEF Malloc
  <1>2. /\ phase[current] = "launching" /\ size \in Nat
        /\ UNCHANGED <<current, phase, stack>>
    BY MemoryFacts DEF Malloc
  <1>3. CASE MallocInPage(size)
    BY <1>2, <1>3, MallocInPageLayout
  <1>4. CASE MallocNewPage(size)
    <2>1. PICK p \in Zone :
          /\ FirstFit(p, 1)
          /\ \/ /\ Take({p})
                /\ heap' = [heap EXCEPT ![current] = Addr(p)]
                /\ Object(Addr(p), size)
             \/ \E q \in (p + 1)..(NumPages - 1) :
                /\ refCount[q] = 0
                /\ Take({p, q})
                /\ heap' = [heap EXCEPT ![current] = Addr(q)]
                /\ Object(Addr(q), size)
      BY <1>4 DEF MallocNewPage
    <2>2. p \in Page /\ refCount[p] = 0 /\ p \in Nat
      BY <2>1, FirstFitFacts, MemoryFacts
    <2>3. \A q \in (p + 1)..(NumPages - 1) : q \in Page
      BY <2>2, MemoryFacts
    <2>4. PICK ps \in SUBSET Page, q \in Page :
          /\ q \in ps /\ refCount[q] = 0 /\ Take(ps)
          /\ heap' = [heap EXCEPT ![current] = Addr(q)]
          /\ Object(Addr(q), size)
      <3>1. CASE /\ Take({p})
                 /\ heap' = [heap EXCEPT ![current] = Addr(p)]
                 /\ Object(Addr(p), size)
        <4>1. {p} \in SUBSET Page /\ p \in {p}
          BY <2>2
        <4> QED
          BY <2>2, <3>1, <4>1
      <3>2. ASSUME NEW q \in (p + 1)..(NumPages - 1),
                   refCount[q] = 0, Take({p, q}),
                   heap' = [heap EXCEPT ![current] = Addr(q)],
                   Object(Addr(q), size)
            PROVE  \E ps \in SUBSET Page, r \in Page :
                      /\ r \in ps /\ refCount[r] = 0 /\ Take(ps)
                      /\ heap' = [heap EXCEPT ![current] = Addr(r)]
                      /\ Object(Addr(r), size)
        <4>1. {p, q} \in SUBSET Page /\ q \in {p, q}
          BY <2>2, <2>3
        <4> QED
          BY <3>2, <4>1
      <3> QED
        BY <2>1, <3>1, <3>2
    <2> QED
      BY <1>2, <2>4, NewPageLayout
  <1> QED
    BY <1>1, <1>3, <1>4

(* palloc keeps the layout of the heaps.                                   *)
LEMMA PallocLayout ==
    ASSUME IInv, Layout, Palloc
    PROVE  Layout'
  <1>1. PICK n \in Chunks, p \in Zone : FirstFit(p, n) /\ Take(p..(p + n - 1))
    BY DEF Palloc
  <1>2. p..(p + n - 1) \in SUBSET Page
    BY <1>1, FirstFitFacts
  <1> QED
    BY <1>1, <1>2, TakeLayout DEF Palloc

(* task_destroy takes pages from a task that created none of the others,   *)
(* and its objects go with them.                                           *)
LEMMA TaskDestroyLayout ==
    ASSUME IInv, Layout, TaskDestroy
    PROVE  Layout'
  <1> USE DEF IInv, Layout
  <1>1. PICK t \in Task :
        /\ phase[t] = "exited"
        /\ pages' = [pages EXCEPT ![t] = {p \in @ : refCount[p] # 1}]
        /\ heap' = [heap EXCEPT ![t] = Null]
        /\ objects' = {o \in objects : o.owner # t}
        /\ phase' = [phase EXCEPT ![t] = "unused"]
        /\ UNCHANGED <<current, nextAddr, stack, oom>>
        /\ phase[current] = "running"
    BY DEF TaskDestroy
  <1>2. /\ \A u \in Task \ {t} : /\ pages'[u] = pages[u] /\ heap'[u] = heap[u]
                                 /\ phase'[u] = phase[u]
        /\ heap'[t] = Null /\ phase'[t] = "unused"
        /\ current \in Task
    BY <1>1 DEF TypeOK
  <1>3. \A u \in Task : Live(u)' => Live(u) /\ u # t
    BY <1>2 DEF Live
  <1>4. t \notin Creators /\ Creators \subseteq Task
    BY <1>1, MemoryAssumption DEF MemoryAssumption, CreatorsInv
  <1>5. \A o \in objects' : o \in objects /\ o.owner \in Task \ {t}
    BY <1>1 DEF TypeOK
  <1>6. CreatorsInv' /\ CreatedInv'
    BY <1>2 DEF CreatorsInv, CreatedInv
  <1>7. HeapPageInv'
    BY <1>1, <1>2, <1>3 DEF HeapPageInv, Addr
  <1>8. LaunchInv'
    BY <1>1, <1>2 DEF LaunchInv
  <1>9. PlacedInv' /\ ObjectsDisjoint'
    <2>1. \A o \in objects' : \E p \in pages'[o.owner] : InPage(o) \subseteq PageBytes(p)
      BY <1>2, <1>5 DEF PlacedInv
    <2>2. \A o, r \in objects' : o # r => InPage(o) \cap InPage(r) = {}
      BY <1>5 DEF ObjectsDisjoint
    <2> QED
      BY <2>1, <2>2 DEF PlacedInv, ObjectsDisjoint, InPage, Bytes, PageBytes, Addr
  <1>10. StackInv'
    BY <1>1, <1>2, <1>3, <1>4 DEF StackInv
  <1>11. ApartInv'
    <2>1. \A u \in Task, o \in objects' : Live(u)' => InPage(o) \cap PageBytes(stack[u]) = {}
      BY <1>3, <1>5 DEF ApartInv
    <2> QED
      BY <1>1, <2>1 DEF ApartInv, InPage, Bytes, PageBytes, Addr
  <1> QED
    BY <1>6, <1>7, <1>8, <1>9, <1>10, <1>11

(* Every step keeps the layout.                                            *)
LEMMA NextLayout ==
    ASSUME IInv, Layout, [Next]_vars
    PROVE  Layout'
  <1> DEFINE quiet == UNCHANGED <<refCount, pages, heap, nextAddr, objects, stack>>
  <1>1. current \in Task /\ phase \in [Task -> Phases]
    BY DEF IInv, TypeOK
  <1>2. CreatorsInv
    BY DEF Layout
  <1>3. CASE UNCHANGED vars \/ VmCreateOom \/ LaunchOom
    <2>1. quiet /\ UNCHANGED <<current, phase>>
      BY <1>3 DEF vars, VmCreateOom, LaunchOom, OutOfMemory
    <2> QED
      BY <1>1, <1>2, <2>1, QuietStep DEF CreatorsInv, Live
  <1>4. CASE TaskSwitch
    <2>1. PICK t \in Task :
          /\ phase[t] \in {"created", "running"}
          /\ current' = t
          /\ phase' = [phase EXCEPT ![t] = IF @ = "created" THEN "launching" ELSE @]
          /\ quiet
      BY <1>4 DEF TaskSwitch
    <2>2. /\ \A u \in Task \ {t} : phase'[u] = phase[u]
          /\ phase'[t] = IF phase[t] = "created" THEN "launching" ELSE phase[t]
          /\ phase' \in [Task -> Phases]
      BY <1>1, <2>1 DEF Phases
    <2>3. /\ \A u \in Task : Live(u)' => Live(u)
          /\ \A u \in Task : phase'[u] = "exited" => u \notin Creators
          /\ \A u \in Task : phase'[u] = "created" => phase[u] = "created"
          /\ phase'[current'] = "launching" => phase[current'] = "created"
      BY <1>2, <2>1, <2>2 DEF Live, CreatorsInv
    <2> QED
      BY <2>1, <2>2, <2>3, QuietStep
  <1>5. CASE Launched \/ TaskExit
    <2>1. /\ quiet /\ UNCHANGED current
          /\ phase[current] \in {"launching", "running"}
          /\ \/ phase' = [phase EXCEPT ![current] = "running"]
             \/ current \notin Creators /\ phase' = [phase EXCEPT ![current] = "exited"]
      BY <1>5 DEF Launched, TaskExit
    <2>2. /\ \A u \in Task \ {current} : phase'[u] = phase[u]
          /\ \/ phase'[current] = "running"
             \/ current \notin Creators /\ phase'[current] = "exited"
          /\ phase' \in [Task -> Phases]
      BY <1>1, <2>1 DEF Phases
    <2>3. /\ \A u \in Task : Live(u)' => Live(u)
          /\ \A u \in Task : phase'[u] = "exited" => u \notin Creators
          /\ \A u \in Task : phase'[u] = "created" => phase[u] = "created"
          /\ phase'[current'] # "launching"
      BY <1>1, <1>2, <2>1, <2>2 DEF Live, CreatorsInv
    <2> QED
      BY <1>1, <2>1, <2>2, <2>3, QuietStep
  <1> QED
    BY <1>3, <1>4, <1>5, VmCreateLayout, MallocLayout, PallocLayout, TaskDestroyLayout DEF Next

(* The layout of the memory in use is an invariant.                        *)
THEOREM LayoutCorrect == Spec => [](IInv /\ Layout)
  <1>1. IInv /\ Layout /\ [Next]_vars => Layout'
    BY NextLayout
  <1> QED
    BY Invariance, InitLayout, <1>1, PTL DEF Spec

(* The objects of all tasks are disjoint, although they share one          *)
(* next_paddr (memory.c:53): a launch is not interrupted, and a task that  *)
(* has launched allocates no more.                                         *)
THEOREM ObjectsDoNotOverlap == Spec => []ObjectsDisjoint
  <1>1. IInv /\ Layout => ObjectsDisjoint
    BY DEF Layout
  <1> QED
    BY LayoutCorrect, <1>1, PTL

(* An object lies in a page of the task it was allocated for               *)
(* (memory.c:64-69), for sizes up to a page the whole object.              *)
THEOREM ObjectsAtHome == Spec => []ObjectsInOwnPages
  <1>1. IInv /\ Layout => ObjectsInOwnPages
    BY DEF Layout, PlacedInv, ObjectsInOwnPages, PageBytes
  <1> QED
    BY LayoutCorrect, <1>1, PTL

(* The stack of a task that can still run is in use, is its own, and has   *)
(* no object in it (task.c:37).                                            *)
THEOREM StacksSafe == Spec => []StacksKept
  <1>1. IInv /\ Layout => StacksKept
    <2> SUFFICES ASSUME IInv, Layout PROVE StacksKept
      OBVIOUS
    <2>1. ASSUME NEW t \in Task, Live(t)
          PROVE  refCount[stack[t]] = 1
      <3>1. PICK c \in Creators : stack[t] \in pages[c]
        BY <2>1 DEF Layout, StackInv
      <3>2. c \in Task /\ stack[t] \in Page
        BY MemoryAssumption DEF MemoryAssumption, IInv, TypeOK
      <3> QED
        BY <3>1, <3>2 DEF IInv, OneOwner
    <2> QED
      BY <2>1 DEF Layout, StackInv, ApartInv, PageBytes, StacksKept
  <1> QED
    BY LayoutCorrect, <1>1, PTL
=============================================================================
