# A TLA+ development of Mavis

Mavis is a small kernel whose programs are WebAssembly modules run by an
interpreter inside the kernel. Tasks talk to each other by synchronous messages;
a shell, a server that creates tasks (`vm`) and a file server (`fs`) are such
programs, and `hello` is one that the shell starts. This directory holds TLA+
modules for its parts, TLC configurations that check them on small instances, and
proofs, checked by TLAPS, of what holds for every value of the constants.

Paths below are relative to the repository; names in `code font` are those of the
source or of the modules.

## The system

| part | state | operations | interacts with |
|---|---|---|---|
| task table and scheduler (`kernel/task.c`, `kernel/kernel.c`) | `tasks[]`, `runqueue`, `current_task` | `vm_create`, `task_switch`, `task_resume`, `task_exit`, `task_destroy`, the idle task | called by IPC and by programs through `env.h`; sends messages itself on exit and destruction |
| IPC (`kernel/ipc.c`) | per task: `senders`, `wait_for`, `message`, `shared_buffer` | `ipc_send`, `ipc_receive`, `ipc_call`, `ipc_share_buffer`, `ipc_copy` | blocks and wakes tasks through the scheduler |
| memory (`kernel/memory.c`) | `zone->pages[].ref_count`, per task `pages` and `heap`, `next_paddr` | `palloc`, `pfree_by_list`, `malloc` | `vm_create`, the parser and `task_destroy` |
| servers (`servers/`) | each program's `main`: its `msg`, descriptors, `new_task`, libc heap | their message loops | the kernel, and each other by messages |
| lists (`kernel/list.c`) | `prev`, `next` | push, pop, remove, iteration | the run queue, the sender queues, page lists, the parser's lists |
| byte buffer, LEB128 (`kernel/buffer.c`) | cursor, end | fixed and variable length reads and writes | the parser |
| module parser (`kernel/module.c`) | the tree of a module | `new_module`, one function per section, `parse_instr` | `task.c` before a task runs |
| interpreter (`kernel/vm.c`) | operand stack, frames, labels, locals, globals, linear memory | `create_context`, then one case per instruction, calls of imported functions | the kernel operations of `env.h` |
| context switch (`kernel/<arch>/task.c`) | callee-saved registers, the stack of each task, `arch.sp` | `arch_vm_init`, `arch_vm_entry`, `arch_context_switch` | `task_switch` and `vm_create` |
| boot loader, trap handlers, libc, tools | files, devices | boot, printing, image | below or beside the rest |

What is hard in it:

* There is one CPU and no preemption, and yet tasks interleave: a task that calls
  `task_switch` inside `ipc_send`, `ipc_receive` or `task_exit` goes on later, when
  others have changed the task table. `ipc_send` then delivers without looking again
  whether its receiver is still waiting (`ipc.c:64`).
* "Blocked" means both "in `ipc_send`" and "in `ipc_receive`"; only `wait_for`
  tells them apart, and it is stale in the first case.
* Lists are intrusive: an element pushed twice corrupts a list silently.
* A task slot is reused without being cleared (`task.c:182`, "todo: init task struct?").
* An exited task is runnable and in no queue; only the absence of a wake-up keeps
  it from running past the end of `task_exit`.
* The run queue is a stack, so who runs first at boot is not who was created first.
* `malloc` has one `next_paddr` for the heaps of all tasks.
* `task_destroy` sends a message from inside the `vm` server.
* Three context switches in assembly each have their own order of the registers, and a new
  task's first frame is written by C code that has to agree with it.
* The parser follows lengths and indices of the image; the interpreter computes with
  ints where WASM has unsigned words, and compares addresses as ints.
* A local, a block or a frame belongs to a function, not to a call of it.

What makes each part correct: the run queue holds exactly the runnable tasks; a
sender queue exactly the tasks that wait to send to its owner; a message reaches
the task it was sent to, while that task is waiting for it, once; nothing waits for
something that is there; the dead do not run; a page has one owner; a task finds
its registers and its stack as it left them; a program computes what WASM says; a command
comes back to the prompt and leaves nothing behind.

## The modules

| module | what it is |
|---|---|
| `Ipc` | task table, scheduler and IPC: one action per stretch of kernel code between two points at which the CPU can change hands |
| `Rendezvous` | the abstract promise of `ipc.c`: synchronous messages between tasks, without queues, wake-ups or a scheduler |
| `IpcRefinement` | the mapping from `Ipc` to `Rendezvous` |
| `System` | the shell, vm, fs and hello programs on top of `Ipc` |
| `Memory` | page allocator, kernel heap and kernel stacks over the life of tasks |
| `List` | `list.c` on `prev` and `next` pointers |
| `Switch` | the level below `Ipc`: run queue, sender queues and page lists as pointers, registers and stacks, the context switch of each architecture |
| `Coroutines` | the abstract promise of that level: each task has its own registers and stack; queues are sequences |
| `SwitchRefinement` | the mapping from `Switch` to `Coroutines` |
| `IpcMC`, `IpcRefinementMC`, `SystemMC`, `SwitchMC`, `InterpMC`, `InstanceMC`, `Leb128MC` | values and bounds for TLC; `Memory` is run directly |
| `Code` | the code of a WASM module: nesting, the types on the operand stack, valid code, and what of it the interpreter supports |
| `Operands` | the buffer of `buffer.c` as an operand stack: its reads and writes, refused at either end |
| `Parser` | how `module.c` turns the code section into lists of instructions |
| `Interp` | `vm.c` over those lists: blocks, branches, calls, frames, locals, operands |
| `Wasm` | the abstract promise of `vm.c`: structured control over flat code, with operands of each call |
| `InterpRefinement` | the mapping from `Interp` to `Wasm` |
| `Opcodes` | the opcodes, those of control only as a set; bytes, words and their numbers |
| `Binary` | how `module.c` reads all sections of an image |
| `WasmBinary` | the binary format of WASM: what a compiler writes |
| `Instance` | `launch_vm_task`: the sections, `create_context`, and `_start` with the values its instructions compute, load and store |
| `WasmModule`, `WasmStore` | the abstract promise: what `_start` finds, and what each instruction does to the store |
| `InstanceRefinement` | the mapping from `Instance` to `WasmStore` |
| `Leb128` | the two LEB128 decoders of `buffer.c` |
| `SeqLemmas` | what append, last-out and removal do to a sequence without repetitions; quotients, powers of two and the bits of ints; induction over naturals |
| `SystemProofs`, `MemoryProofs`, `SwitchProofs`, `InterpProofs`, `InstanceProofs`, `Leb128Proofs` | theorems, each about the module it is named after; `SystemProofs` has those about `Ipc` and its refinement too, `SwitchProofs` those about `SwitchRefinement`, `InterpProofs` those about `Parser` |
| `StoreProofs` | the theorem that `Instance` implements `WasmStore` |

`Memory` abstracts the scheduler of `Ipc` (a task leaves the CPU at any kernel call
of a running program, and never while it launches); it is a model of its own because
no step of IPC looks at a page. `Parser`, `Interp`, `Instance` and `Leb128` likewise: they are
the inside of one task and touch nothing the kernel has. `Switch` is what the calls of
`ipc.c` and `task.c` do to pointers and stacks; when a program makes which call is `Ipc`'s
matter, and `Switch` keeps of it only what is proved there (who can be sent to, and that
nobody waits to send to a task that ends).

The interpreter is in two models because each is large alone. `Interp` has every control
instruction and any values; `Instance` has the values, and `_start` is straight code. They meet
in the operand stack, which both take from `Operands`.

### Ipc and the code

A task is its slot: task `t` is `tasks[t-1]`. `pc[t]` is the return address of its
`task_switch` (the comment at the head of the module lists the values); `out[t]`
is what the C stack of a sender keeps across it. The fields of `struct task` have
a variable each. An action is the code from an entry to the kernel, or from the
return of a `task_switch`, to the next `task_switch` or return to the program.
Since nothing preempts, that granularity is the code's own.

| action | code |
|---|---|
| `SendReady`, `SendQueue`, `SendPanic` | the first part of `ipc_send`: deliver, queue and switch, or PANIC |
| `ResumeSend` | `ipc_send` after its `task_switch` |
| `ReceivePick`, `ReceiveNone` | the first part of `ipc_receive` |
| `FinishReceive` | `ipc_receive` after its `task_switch` |
| `CallReceive` | `ipc_call` between its send and its receive |
| `task_exit`, `FinishExit` | `task_exit` up to and after its `ipc_send`, and after its last `task_switch` |
| `VmCreate`, `VmCreatePanic` | `vm_create`, `alloc_tid`, `vm_init` |
| `TaskDestroy`, `TellShell` | `task_destroy` before and at its `ipc_send` |
| `ipc_share_buffer`, `ipc_copy` | the same |
| `BootSwitch`, `IdlePanic` | `kernel_main` |

`fault` names the PANIC that stopped the machine, or the point at which the C code
would go on with broken data ("relinked": an element is pushed into a second list or
twice; "stale buffer": a copy into freed pages). No step follows either: the model does
not say what broken data does, only that it comes about.

Two next-state relations share the kernel. `AnyNext` lets a program call anything with
any argument. `Next` is for *well-behaved* programs, the four rules stated before
`MaySend` in the module. The rules are not assumptions about the shipped programs:
`System` checks (`UsesKernelWell`) that each of their steps is a step of `Ipc!Spec`.

### System and the code

Each program's `main` is a few labels (`at[t]`), one for each kernel call in it, and
an action goes from one call's return to the next call. `msg[t]` is the program's
`struct message`. The shell reads its line a character at a time
(`GetChar`) into `cmdline`, `i` and the terminating NUL included; `TypeLine` is the user, who
types a line of `Lines` and return. At the last index the character is dropped, a return
too, and what comes next is stored behind `cmdline`: then `overrun` is set and the model stops. `buf` and `heap` follow what the vm server's `malloc` returns;
`clobbered` is set when fs copies to a NULL buffer, and the model stops there.

### Memory and the code

Addresses and sizes count units of `malloc`'s alignment. `pages[t]` is the list
`task.pages` as a set. `palloc` is first fit over the zone (`FirstFit`). The
`Slack` pages behind the zone stand for the `struct page` memory that
`is_contiguously_free` reads beyond `num_pages`, zero when the pool is fresh.
Once `palloc` has returned NULL the model stops: callers do not check.
An object larger than a page is given one page; `InPage` is the part of it that lies there, and
the properties speak of that part. What such an object overruns is not followed.

### Switch, List and the code

A node is the header of a list or the link field of a struct, named by the source's name of it
and its owner; `links` is the memory of all of them. The operators of `List` are the functions of
`list.c`, `LIST_FOR_EACH` the macro, which remembers the next element before the body
removes this one. A stack is the words above `sp`: the frame that
`arch_context_switch` saves, the calls below it, and for a new task the arguments of
`launch_vm_task`. `SaveRiscv32` to `FreshX86` are the orders of the words in each assembly file and in each
`arch_vm_init`. `Coroutines` has no such stack: `regsBar` and `framesBar` read
what a task had off its saved frame.

### Parser, Interp and the code

An instruction is its function and its position in the function's code; `<<f, 0>>`
stands for `f` itself. `list[n]` is the list an instruction or function heads:
`func->body->expr`, `block.in` or `If.in1`. `parse_instr` calls itself for the inside of a block;
`open` holds those calls. Each action of `Interp` is one `invoke_i`:

| action | code |
|---|---|
| `Launch` | the frame and the first instruction `create_context` sets up |
| `BlockOrLoop`, `If` | those cases of `invoke_i` |
| `ParseUnsupported` | the default of `parse_instr`: the task exits while it reads the module |
| `EndOrReturn` | `end`, `exit_block`, `exit_frame`; `return` is the same case |
| `Branch`, `BranchIf`, `BranchTable` | `branch_in` for `br`, `br_if`, `br_table` |
| `Call`, `CallExternal` | `invoke_f` of a function of the module, of a kernel function |
| `LocalGet`, `LocalSet`, `Drop`, `Const64` | those cases |
| `Const32`, `Load32`, `Binary`, `Store32`, `Store64` | one for all instructions that pop and push the same |
| `Unreachable` | the exit of the task |

`stack` is `ctx->stack` in words of 32 bits; an i64 has two. `Operands` has the reads
and writes of `buffer.c` with their silent refusals at either end. What arithmetic results in
and what globals and memory hold is any value of `Val`, and `br_table` may take any of
its labels. `local` is the two locals of a function; a call sets local 0, its parameter, and
leaves local 1, a declared one, as the last call left it. `blocks` and `calls` are
`ctx->blocks` and `ctx->call_stack`, which link the instructions and functions
themselves; linking one that is linked stops the model ("relinked").

`Wasm` runs the same code as the WASM specification means it: an activation has its
own position, its own locals, its own operands and its own blocks. `actsBar` reads the
activations off `blocks`, `calls` and `stack`: the calls among the blocks separate the
activations, and the types of the operands at each one's position say how many words
of the stack are its own. (`supported` and `types` are computed once for each program; they are
functions of its code.)

The interpreter keeps that promise for the code that `Supported` describes. Outside of it

* an `if` whose condition is false stops the program: its second list was never initialised
  and its head is NULL (`vm.c:411`);
* an `else` ends the task: `parse_instr` has no case for it, and its default exits (`module.c:176`), so that the
  comparisons with `Else` around it (`module.c:71`, `module.c:73`) never see one; any other instruction without a case does the same;
* `return` inside a block acts like the end of that block;
* a branch to the function itself ends the program or reads the op of a NULL block (`vm.c:147`);
* operands that a branch or a return leaves behind stay on the stack, under or
  instead of what is popped next, and fill it in a loop; a full stack drops what is pushed;
* `drop` takes one word whatever it drops;
* a function that calls itself, directly or not, links its frame and its block twice;
* a declared local that a function reads before it sets it has the value of the last call,
  where WASM has 0 (`vm.c:70`, `vm.c:922`).

The binaries of the servers are not in the repository, so nothing here says whether the
compiler emits any of these for them; the model has them all, and only the
comparison with `Wasm` leaves them out.

### Binary, Instance and the code

An image is a sequence of tokens: a byte, or a number that LEB128 encodes (`Leb128` is about
the encoding). `Binary` has one operator per parse function, with its name. `Instance` is
`launch_vm_task`:

| action | code |
|---|---|
| `ReadSection` | one turn of the loop of `new_module` |
| `Misread` | the turn that would read a section of which a passive segment or an import that is no function hides the rest |
| `ParseUnsupported` | the exit of the task in `parse_instr`, at an instruction it has no case for |
| `CreateNothing` | `create_context` returning NULL, which `run_vm` reads |
| `InitGlobals`, `InitMem`, `InitMemStray`, `CreateFuncs` | the parts of `create_context` |
| `CreateMemFault`, `CreateFuncsFault` | reading behind a vector: the first memory of an empty section, the type of an import that is no function |
| `Const`, `DropTop`, `DoNothing`, `GetLocal`, `SetLocal`, `GetGlobal`, `SetGlobal` | those cases of `invoke_i` |
| `Load`, `Store` | all loads, all stores; `Through` is the comparison in `buffer.c`, of ints |
| `Eqz`, `Binop` | arithmetic and comparison; `Computed` has one line for each |
| `DivideFault`, `DivideAnyway` | a division without result: x86 faults, riscv goes on |
| `EndOrReturn`, `TaskExit` | the `end` of `_start` and `return`, which is the same in straight code; `unreachable` |

`at` becomes "fault" where the kernel reads NULL or behind a vector or divides by 0, and "stray" where an access
leaves linear memory and the comparison lets it through. Of an import that is no function `parse_importsec` reads two numbers, of a passive
segment `parse_datasec` reads one; when more items follow, they are parsed from the wrong byte, as names, as instructions of
any kind, or as nothing of the section. `at` is then "misread" and the model stops: what such a parse gives, or whether it ends, depends on
bytes that mean something else. When nothing follows, the parse goes on with the next section, and so does the model. `WasmStore` is written from the WASM standard
and not from the code: it counts in unsigned words, has values rather than words on its stack, and copies segments
to their offsets. Its `Supported` leaves out what this interpreter does otherwise:

* no function or no exported `_start` with code: the kernel reads NULL;
* imports that are not functions count as functions (`vm.c`'s index of a function counts all imports);
* a global of type i64 keeps 32 bits, and leaves a word of its initial value on the operand stack;
* what follows a passive data segment, or an import that is no function, is parsed from the wrong byte: "misread", as above;
* the first number of such an import is taken for the index of a type: if there is none, the kernel reads behind `typesec`
  (`vm.c:22`);
* a memory section without a memory: `create_context` reads `mems.x[0]` all the same (`vm.c:821`);
* an instruction without a case in `parse_instr` ends the task before anything runs;
* a segment at a negative address, and a load or store in the upper half of the address space, reach the
  kernel's memory in front of linear memory, because the comparison is of ints; so does an access to the
  upper half of the address space when linear memory is that large;
* `drop` takes one word, of an i64 too.

It also leaves out locals that are neither i32 nor i64 (`vm.c` pushes nothing for one and sets it to 0) and code that is not plain
arithmetic: nothing is promised of `unreachable`, `nop` and `return`. Modules with blocks, branches and calls are
not written by `WasmBinary`; they are `Interp`'s.

A load or store that WASM traps at reads 0 or is dropped; after a trap nothing is promised (`Traps`).

### Leb128 and the code

A word is the set of its bits that are 1. `byte & 0b1111111` and `~0` are ints and are
shifted as ints, before `|=` extends them to 64 bits; `Shl` is that shift and
extension. A shift by the width of an int or more is undefined in C; `Shl` takes
the count modulo the width, which is what the shift instructions of the three
architectures do. `NextByte` is the loop, `LastByte` the return, for both decoders.

## What is checked

| run | instance | states | what it shows |
|---|---|---|---|
| `ipc` | 4 slots: idle, the server vm, shell, and one slot `c` that is created, exits, is destroyed and reused; at most one registered buffer | 295 000 | the kernel invariants below for every well-behaved set of programs |
| `rendezvous` | 4 slots, two servers that call each other; no buffers, one task named "shell" | 14 000 | `ipc.c` implements `Rendezvous` |
| `system` | the shipped programs, 6 slots, 3 descriptors, up to 4 hellos; a line buffer of 8, and lines that are commands, a command with more behind it, and around the buffer's length | 2 435 | they run what is typed, obey the rules, answer each other correctly, leave nothing behind; each command ends |
| `memory` | 4 tasks, 2 of which create others, 6 pages and 2 behind them, 3 units a page, objects of 1, 2 and 5 units, chunks of 1 and 2 pages | 175 000 | page ownership, heap objects, stacks |
| `switch` | 4 tasks on 4 pages, 2 registers, three architectures, at most 2 tasks with calls on their stacks | 107 000 | pointers and context switch implement coroutines with queues |
| `interp` | every valid `_start` of up to six instructions of twelve kinds and three longer ones, with each of eleven functions it may call; values 0 and 1, a stack of four words | 79 000 | the parser builds the nesting; the interpreter does what WASM says for the code it supports |
| `instance` | every combination of sections, and `_start`s that compute, load and store; bytes of 2 bits, words of 8 | 43 600 | what is parsed is what was written; each instruction does what WASM says; where the kernel faults or leaves linear memory |
| `leb128` | every encoding of up to six groups of 2 bits; ints of 9 bits, longs of 18 | 73 000 | the decoders are right where they are |
| `ipc_any_program`, `system_vm_heap`, `memory_zone_end`, `leb128_constants` | as above, one property each | | the disagreements listed under Findings |

Why the bounds are enough to be interesting. In `ipc` a sender, its receiver and a third
task that interferes are all there; senders queue two deep; the slot `c` can have any
of the three names, so a name can be shared by tasks and can move from one slot to another;
slot reuse needs no more than one free slot. The run has one buffer because `shared`
multiplies the states and meets the rest only in `task_destroy`. The
four-slot instance with two servers is in `rendezvous`, where calls between servers and
the mutual waiting they could cause appear. `system` is deterministic but for what is
typed and for slot contents, hence few states; its lines end one in front of, at, one and two behind the
last index of the line buffer; 4 hellos exceed the number of free slots
and of descriptors, so anything one command leaves behind would starve a later one.

`memory` runs into the end of memory in many different shapes; a page is filled exactly by
objects of 1 and 2 units or left with a rest, and objects of 5 units do not fit a page.
In `switch` a receiver, two senders queued at it and
the idle task are all the tasks there are, pages are freed and used again, and two registers
with different values are enough to see two words exchanged or a frame read one word off.

The code of `interp` has blocks nested
two deep with branches out of both, calls inside of blocks and loops, and functions
that return at once, from the end, from within a block, or call back; six
instructions hold a loop around a call with its argument and a condition on its
result, and the longer ones branch out of two blocks with and without operands left
behind. The stack holds just what the largest supported pair of functions needs.
Bounds on the code itself: blocks have neither parameters nor results, every function
but `_start` takes and returns one i32, and nothing but an `end` follows a branch.

In `instance` the constants lie at -128, -1, 0, 1 and 127, the edges of
a word of 8 bits, addresses at both edges of linear memory (20 bytes) and of the address space, and sums of
address and offset wrap; a byte, a half word, a word and a long have different lengths as with 8 bits a byte.
Sections are combined freely with a few variants each, since the parser's and
`create_context`'s mistakes would be in how they refer to each other. Among them are imports of a memory and of a global, alone, first and
last, with and without a type of their number; passive segments first and last; a memory section without a memory; and code
with an `else` and with an instruction on floats, where the parser exits. In `leb128` four
groups fit an int and the fifth reaches one bit beyond it, as 4 and 5 groups of 7 do with 32 bits.

The properties (their comments in the modules say more):

* `OnlyExpectedFaults`, `RunQueueExact`, `SendersExact`, `Handshake`,
  `NoLostRendezvous`, `DeliveredToReceiver`, `DeadStaysDead` of the kernel;
  `ImplementsRendezvous` relates it to the abstract specification.
* `UsesKernelWell`, `RepliesMatch`, `QuietAtPrompt`, `LaunchesTheFile`,
  `StopsOnlyAfterExit`, `CommandsAsTyped`, `OnlyLongLinesOverrun`, and the liveness properties `HelloReturns` and `ExitPanics` of the
  shipped system.
* `OneOwner`, `ObjectsDisjoint`, `ObjectsInOwnPages`, `StacksKept` of memory.
* `ListsMirrored`, `LinkedAsStateSays` of lists; `ImplementsCoroutines` relates pointers and
  context switch to tasks with a stack of their own.
* `ParsedAsWritten`, `FaultsOnlyThere`, `StraysOnlyAbove` of the launch of a module;
  `ImplementsStore` relates it to the WASM store.
* `ParsedAsNested`, `NeverWild`, `BreaksOnlyUnsupported`, `FramesMatchCalls` of the parser and
  the interpreter; `ImplementsWasm` relates them to structured control.
* `UnsignedRight`, `SignedRight` of the decoders.

Definitions named `Bug_...` are not part of any specification. Each is the definition
that follows it with a plausible mistake; PROJECT.json says which property notices it.

**Fairness.** Only `SysSpec` has any: weak fairness of `Machine`, every step that needs no
user. One CPU executes instructions without stopping, and the next instruction is
determined, so weak fairness of their disjunction is what the hardware gives; nothing is
assumed about typing, nor about the scheduler preferring one task, which it
does not guarantee (the run queue is a stack).

**Deadlock** checking is off because these systems do stop: after a PANIC, at the prompt
once the bound on typed lines is reached, and when memory is used up. What stopping is
allowed is a property instead (`OnlyExpectedFaults`, `StopsOnlyAfterExit`, `FaultsOnlyThere`,
`BreaksOnlyUnsupported`).

## What is proved

For every number of slots, all names, boot tasks, messages and servers that satisfy
`BootAssumption` (the names booted are distinct and leave a slot free for the idle task; vm is
a server; the servers are among the booted tasks and the shell is not one; no name is
empty):

* `SystemProofs`: `TypeOK`, `OnlyExpectedFaults`, `RunQueueExact`, `SendersExact`,
  `Handshake`, `NoLostRendezvous` are invariants of `Ipc!Spec`; `DeliveredToReceiver` and
  `DeadStaysDead` hold of its steps; and `Spec => ImplementsRendezvous`.

and under `MemoryAssumption`, for all sizes and numbers:

* `MemoryProofs`: `TypeOK`, `OneOwner`, `ObjectsDisjoint`, `ObjectsInOwnPages` and `StacksKept`.

and under `SwitchAssumption` (at least one task and one page, the names of the saved registers are different and
none is "ra", NULL is no node, IPC_ANY no task, an image is given as two words), for any number of tasks, pages and registers:

* `SwitchProofs`: `ListsMirrored` and `LinkedAsStateSays`; and `Spec => ImplementsCoroutines`.

and under `SystemAssumption` (the three boot tasks of the image, "hello" among the names, at least 5
slots and one descriptor, a line buffer with room for "hello" and its end, lines of characters other
than the return; the code has 8 slots, 3 descriptors and 128 characters):

* `SystemProofs`: all safety properties of `System` that a run checks: `SysTypeOK`, `UsesKernelWell`, `RepliesMatch`,
  `QuietAtPrompt`, `LaunchesTheFile`, `StopsOnlyAfterExit`, `CommandsAsTyped` and `OnlyLongLinesOverrun`.
  With `UsesKernelWell` everything that is proved of `Spec` holds of the shipped system.

and under `ProgramAssumption` (each module is a sequence of functions that `WellFormed` accepts, with a
`_start`; calls are of its functions or of the kernel, local indices are 0 or 1), for all sets of such modules, all
values and sizes of the operand stack:

* `InterpProofs`: `InterpTypeOK`, `ParsedAsNested`, `NeverWild`, `BreaksOnlyUnsupported` and
  `FramesMatchCalls`.

and under `ByteAssumption`, `PageAssumption` and `StackAssumption` (bytes have at least one bit, sizes are naturals),
`ModulesAssumption` (each module is one that can be written: its names, indices and bytes are naturals, a constant expression is a
constant and an `End`), `ValidAssumption` (`WasmModule!Valid`, what validation promises of it: indices
are of something, a global's constant has its type, exported names are different, code ends in `End`, the operands of straight code have the types
it takes) and `NullAssumption` (NULL is no vector), for modules of any size and any width of bytes:

* `InstanceProofs`: `ParsedAsWritten`, `FaultsOnlyThere` and `StraysOnlyAbove`;
* `StoreProofs`: `RefinementSpec => ImplementsStore`.

and under `LebAssumption`, for every width of groups, ints and longs and every encoding:

* `Leb128Proofs`: `UnsignedRight` and `SignedRight`.

**The invariant of the kernel.** None of the properties is inductive alone. The danger
is the sender that resumes: nothing re-checks its receiver, so it must be shown that
between `ipc_receive` picking it and its running again the receiver cannot have been
woken. Another sender wakes a blocked task `d` when `waitFor[d]` is `ANY` or the sender.
A receiver that has picked has `waitFor` equal to the picked sender, which rules out
others (`Handshake`). A *sender* that is blocked has a stale `waitFor`: for a server it is
`DENY`, because a server has received before it first sends (`ServerInv`), and only servers
have anybody who sends to them without knowing them to be receiving. Hence `IInv` adds to
the properties: `CurrentInv` and `IdleInv` (who has the CPU), `PcInv` (what `pc` says of
`state`), `ReadInv` (unread messages), `WaitInv` (`waitFor` of receivers), `ServerInv`,
`SendInv` (what a sender's `out` refers to), `TellInv` and `ExitInv` (the two messages the kernel
sends). The proof has a lemma per action; `SwitchLemma` does the run queue for all that
end in `task_switch`, with the sequence facts from `SeqLemmas`.

**The refinement.** `sendingBar` is the offer of a task inside `ipc_send`, `receivingBar`
whom a blocked receiver accepts (everyone, or the one it has named or picked), and the
inbox is `message`. `SendReady` is `SendNow`, `SendQueue` is `Offer`,
`ReceivePick` is `Commit`, `ReceiveNone` is `Receive`, `ResumeSend` is `Complete`,
`FinishReceive` is `Read`, and the rest stutter. The step that needs the invariant is
`Complete`: its guard is `Handshake`.

**Memory.** `OneOwner` needs that reference counts are 0 or 1, that the pages on a list lie in
the `struct page` memory, and that a slot about to be reused has an empty list
(`PagesInv`), which holds because `task_destroy` frees whatever is on it.

That objects do not overlap is less obvious, because all tasks share one `next_paddr`
and each task has a heap page of its own. `Layout` says why it works: while a task launches nobody
else runs, and `next_paddr` is behind everything in its heap page (`LaunchInv`); a
task that has not run has no heap (`CreatedInv`), so the first `malloc` of a launch takes a new page and the
`next_paddr` another task left is not used. Each object has a page of its owner (`PlacedInv`),
and different pages share no address (`PagesApart`). The stack of a task is on the list of the
task that created it; it stays because such a task is never destroyed (`CreatorsInv`,
`StackInv`), and it is nobody's heap page (`HeapPageInv`). A creator that exits
(`Bug_TaskExit`) or a `next_paddr` moved on too little (`Bug_Object`) makes them false, which TLC shows.

**Lists.** A list is a *ring*: a header, a sequence without repetitions, and pointers that lead from the header through the
sequence and back, and the same way in the other direction (`Ring`). Each operation of `list.c` writes the pointers of two or three
nodes, which `Written` says, and so does to the sequence what its name says (`PushRing`, `RemoveRing`, `PopRing`, `EmptyRing`);
a ring none of whose nodes is written stays (`RingSame`). The two loops are recursive functions over pointers. What they
compute is not read off their definitions: `Iteration` shows that a recursion over naturals has a solution, and `SetInduction`, from
the well-foundedness of the naturals, that a set with 0 and all successors is all of them; with these `WalkRing` says that
`Walk` yields the sequence, and `FreeRing` that `pfree_by_list`, which removes the elements it walks over, empties the list and
writes nothing else. `KernelInv` then has a sequence for every header: the rings share no node, a linked `waitqueue_next` or page is in
one (`Lists`), and the state of a task fits the queues it is in (`Fits`). `list_pop_tail` leaves the links of what it pops, so that
nothing of the kind holds of `next`; there `Fits` says that only runnable tasks without the CPU are in the run queue, which is
why `list_push_back` never gets an element that is in a list.

**The context switch.** `StackInv` is what the stacks hold: every task that is in use and not on the CPU has a whole
frame on top of its stack; if that frame leads to `arch_vm_entry`, the image and size are all that lies below it, and the task is runnable and
has not exited (`Sound`, `IsFresh`). `ArchFacts` compares the assembly of each architecture with itself: the order that is pushed is the order that is
popped, every saved register and the return address is in it, and `arch_vm_init` puts `arch_vm_entry` where the return address is
popped. Hence a frame is read as it was written (`FramePushed`, `FrameFresh`), and `arch_context_switch` changes nothing
that `Coroutines` sees of either task (`ContextSwitch`). The lists that `KernelInv` gives are, struct by struct, those of `Coroutines`
(`Views`), and each operation on them is one on sequences of tasks and pages (`BehindReady` to `TakenReady`). With a lemma for each action (`PauseMaps` to
`CreateMaps`) every step of `Switch` is the step of `Coroutines` of the same meaning.

**LEB128.** The invariant says of the loop that, as long as no sign has been extended, the
result is exactly the number read so far if that fits an int without its sign bit
(`Exact`), and agrees with it in the bits of an int if it fits an int (`LowBits`). A group that
fits is shifted by less than an int's width, or is 0, so that the shift loses nothing and
`Shl` is the mathematical shift (`ShlExact`, `ShlLow`); `ShlOnes` is the sign mask.

**System.** The four programs look like concurrent processes, and the kernel lets them be: a
boot order, a slot that is reused, a server that has not run yet. `Conversation` shows that they are
one conversation. It has a predicate for each point that they pass between two prompts, which
says who has the CPU, where each of the others is parked (in `ipc_receive`, in an `ipc_call`, not yet run), whose slot
holds which message, which files are open and which task is being made; a step leads from
one to the next, or back to the prompt. That the vm server has not
run before the first command is a disjunct of `VmAside`; fs, the top of the run queue, always has. The kernel's `IInv` is kept because `UsesKernelWell`
is proved along with it: the guards with which `Ipc` restricts well-behaved programs follow from the point the programs are at.
`LineInv` is the inner loop of the shell: what `cmdline` holds is the line up to where it was read, or the line was too long.

**The parser.** `ParserInv` says of the lists under construction that each holds instructions of one function, behind
its block and in order, that no instruction is in two of them and that every instruction read is in one or is a block
under way (`ListInv`), and of `open` that it is the blocks around the cursor
(`OpenInv`, `BalanceInv`). That the lists are the right ones needs more: the parser closes a block exactly at its `Match`
(`SurplusInv`: since the block began, more was begun than has ended), and what is put into a list has around it what its block has,
and the block (`NestInv`). At an instruction without a case the parser stops with what it has, and nothing of the module runs. `Match` and `Count` are a minimum and a cardinality; where a proof needs induction it takes
the least counterexample instead (`Least`, `OneByOne`).

**The interpreter.** `ctx->blocks` mixes blocks and calls, and nothing in the code relates it to the call stack or to the
nesting. `Chained` is the relation that every step keeps, with any code: each block is in the list of the one below it, or of the body of the function
if that is a call, and so is the next instruction. Lists end with an `end`, which is never a
block, so `link.next` of a block is an instruction: `NeverWild`. The chain is also the
nesting (`DepthFacts`): the innermost blocks, as many as there are around the next instruction, are no
calls. A valid label is not beyond them, so that a branch pops no call and the frames stay those of the calls
(`Framed`), and a branch with a label of a block does not run out of blocks. Blocks between two calls are
in one function and at rising positions (`FunctionFacts`, `AscendingFacts`); so a block or a function that is met twice means that a
function has two frames, and since each function leads to the ones above it (`Led`), that it calls itself.

**Parsing a module.** `LoadInv` says that `buf` is the sections of the module from some section on, one after the other, and
that `m` is `Filled` with the sections before. A step reads one section (`ReadFrame`): what `Section` writes of a
sequence of items begins with its id and its length, so `readbuffer` cuts off exactly its contents; and a vector of items reads back
item by item if one item does, whatever follows it (`ReadsAll`, for which a step of the loop is compared with the items that are
left). That one item does is a lemma for each kind of item, from indices and names to functions; an instruction takes one, two or three
tokens by its opcode, and `parse_expr` and `parse_func` stop exactly behind the last one because only
the last is an `End`, or because only there nothing is left. The recursions of the parser
are functions over naturals, and as in `SwitchProofs` it is proved that they have a solution and only one (`SameRun`). A section that
hides the rest of itself is not parsed (`Misread`); in any other, an import that is no function and a passive segment are last, and
`readbuffer` leaves the rest of the section unread, so that every section but `datasec` is as written, and `datasec` is but for what is passive
(`ParsedAsWritten`).

**Running `_start`.** `RunInv` says that what runs is the function the export names, with its code as written, and that `ip` has passed no
`End`. Code that is valid ends in `End`, so `ip` stays in it, and once `_start` runs what can fault is a division. Before that,
the faults are the cases that `FaultsOnlyThere` lists: that an import has no type is read off `written`, since `m` has the same imports, and that
a function import always has one is validation (`UntypedImport`). `ValInv` says
that values are words: globals, locals, bytes of memory and the operand stack are naturals, though of stores, shifts
and divisions `Computed` gives any integers, because each is written as a word. While segments are placed the stack has
room for an address, since each global leaves at most its high word, or the stack is full and the
address is what is on its top. An access that passes the comparison and is not in memory then has a negative address, or a
sum beyond the greatest int; both say that the address as an unsigned word, plus offset and size, is
in the upper half (`AccessStray`, `SegmentStray`).

**The store.** `StoreInv` says what `stack` is while `_start` runs: there are values `vs`, one for each type that
`OperandTypes` gives for the code before `ip`, as many words each as its type has, and the stack is these words one after the
other (`RunsWith`, `Represents`). The values are the only ones (`ValuesUnique`), so that `Operands` is `vs`
(`BarIs`), and what an instruction pops and pushes is a value when its types say so (`RepPop`, `RepPush`, `OperandsThere`): validation gives
that it finds operands of the right types (`TypesAre`), and that an i64 is never dropped by half is `Supported`. Each case of `invoke_i` has a lemma that it leads to the step of
`WasmStore` for that instruction (`ConstLeads` to `StoreLeads`), together in `RunsOn`; a division without result is a trap (`UndividedTraps`).

Under them lies the arithmetic. The code computes with ints, WASM with words, and bit by bit: the bits of a word are a sum of powers of two with 0 and 1
as factors (`BitSums`, `WordBits`), an int cut to a word keeps its bits (`LowBits`), the masks of `and`, `or` and `xor` and the two shifts are the operations on bits
(`BitwiseIs`, `ShiftsAre`), and a word read from bytes is their sum with weights (`NumberWord`, `LoadedIs`, `StoredIs`). Powers of two are
cardinalities of sets of subsets (`Powers`), from which their laws follow by `SetInduction`; a quotient is the
one number with a remainder in range (`DivUnique`). That an access lies in memory is compared with ints in the code and with words in
WASM; below half of the address space they agree (`InBounds`).

At the start each byte is that of the last segment that covers it (`LastWriter`), for the code because later
segments overwrite earlier ones and for WASM by definition (`StartByte`, `MemoryStart`), and each global is its
constant (`GlobalsStart`); a supported module has all that `create_context` follows (`NothingMissing`), and no segment strays (`NothingStray`).

**Only model-checked**: liveness (`HelloReturns`, `ExitPanics`), which the prover does not do, and `ImplementsWasm`. That one says
of branches and calls what `ImplementsStore` says of straight code: the words on the stack are the values that each activation has, by types
that a fold over its code gives, where a branch drops what its block left. What it shares with the theorems above is
what it needs of control: `FramesMatchCalls`, `NeverWild`, `ParsedAsNested`.

## Findings

Places where the code does not do what it, or the documentation, says; each has a run.

1. `NeverReachHere` (`ipc_any_program`). With arbitrary programs the end of
   `task_exit`, "never reach here" (`task.c:158`), is reached: a task blocked in its first
   `ipc_send` has `wait_for` 0, which is `IPC_ANY`, and is mistaken for a receiver.
   The shipped programs do not meet it (`UsesKernelWell` and `DeadStaysDead`).
2. `VmMemoryIntact` (`system_vm_heap`). The vm server's libc heap is never freed and `malloc`'s
   NULL is not checked; a later hello is copied over the vm server's memory.
3. `PagesInZone` (`memory_zone_end`). A request for several pages at the end of the zone gets
   pages outside of it instead of the warning.
4. `ConstantsRight` (`leb128_constants`). `readi64_LEB128` shifts the sign mask `~0`, an int, by 35
   after a fifth byte: undefined, and 3 on the machines. An i32 constant below -2^27
   has five bytes and is read with all bits from 3 on set: -2147483648 is read as -8.

Seen on the way, without a line of the repository that says otherwise:

* `destroyed` is never cleared when a slot is reused: every hello
  but the first runs with it set, so the check in `task_destroy` would let a running
  task be destroyed. The vm server asks for that only after `EXIT_TASK_MSG`.
* The kernel stack of a task is on its creator's list and is not freed with the task.
* A line of the shell's buffer length or more is stored behind the buffer
  (`OnlyLongLinesOverrun` says that no other is).
* The deviations from WASM listed under Interp and Instance above.

## What is not modelled

* `br_table` with an index that is negative as an int (`vm.c:448`) reads in front of its labels:
  `Interp` does not follow the values of operands.
* The instructions `Interp` has and `Instance` has not, in one model: control and values meet only in
  the operand stack. Kernel functions that a program imports are `Ipc`'s calls, and in `Interp` one that takes and
  returns an i32. `print_instr` only prints.
* Images that are not a module at all: the parser is modelled on what a compiler can write.
* An object larger than a page is not followed beyond its page (`Memory`).
* The boot loader (UEFI calls, ELF copying), trap handlers and devices. The timer is not enabled, so no
  interrupt changes the order of anything.
* Printing and formatting, `tools/` and the build. `System`
  takes from `mkimage.py` that the image holds the file `hello`.
* The program of a task that crashes (`unreachable`, a module given up by the parser) ends with `task_exit`;
  there is no other recovery in the code, and no storage that outlives it, so no crash and restart is modelled.

## Plan

The order puts the parts first on which the others stand.

1. Done: `Ipc`, `Rendezvous` and `IpcRefinement`, `System`, `Memory`, with the proofs above.
2. Done: `Parser`, `Interp`, `Operands`, `Wasm` and `InterpRefinement`; `Leb128` with its proofs.
3. Done: `List`, `Switch`, `Coroutines` and `SwitchRefinement`, so that what `Ipc` says of
   sequences is true of pointers and stacks.
4. Done: `Binary`, `Instance`, `WasmStore` and `InstanceRefinement`; declared locals in `Interp`;
   the line buffer in `System`; objects larger than a page in `Memory`, with its proofs.
5. Done: `SystemProofs`, `InterpProofs`; the lists and the context switch in `SwitchProofs`; `InstanceProofs`; `StoreProofs`.
6. Open: `ImplementsWasm`, with values and types of operands for each activation as `StoreProofs` has them for `_start`.

## Running

`tlc -config IpcMC.cfg IpcMC` and likewise for the other runs of PROJECT.json;
`tlapm SystemProofs.tla` and likewise for the other proof modules.
