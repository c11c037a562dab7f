------------------------------ MODULE Instance ------------------------------
(***************************************************************************)
(* The life of a task's program from launch_vm_task on (kernel/task.c):    *)
(* new_module reads the sections, create_context makes globals, linear     *)
(* memory and functions of them, and run_vm runs _start (kernel/vm.c).     *)
(* Interp has the control of run_vm; here _start is straight code, and     *)
(* what matters are the values: what instructions compute, and what they   *)
(* read and write in globals, locals and linear memory (kernel/buffer.c).  *)
(***************************************************************************)
EXTENDS Binary, Operands

CONSTANTS
    Modules,      \* the modules that are launched
    PageBytes,    \* WASM_PAGE_SIZE
    Start         \* the name "_start"

Format == INSTANCE WasmBinary

ASSUME PageAssumption == PageBytes \in Nat

ASSUME ModulesAssumption == Modules \subseteq Format!Writable

\* NULL is not a vector of segments.
ASSUME NullAssumption == NULL \notin Seq([kind : Nat, expr : Seq(Format!Instruction), data : Seq(Nat)])

VARIABLES
    written,      \* the module as it was written
    at,           \* where launch_vm_task is, or how it ended
    buf,          \* the image, from its cursor on
    m,            \* struct module
    globals, mem, funcs,  \* ctx->globals, ctx->mem, ctx->funcs
    locals,       \* locals[...]->val of _start
    stack,        \* ctx->stack
    ip            \* the position in _start of the next instruction

loadVars == <<buf, m>>
dataVars == <<globals, mem, locals, stack>>
vars == <<written, at, loadVars, dataVars, funcs, ip>>

\* newbuffer, and new_module up to its loop: magic and version are skipped.
Init ==
    /\ written \in Modules
    /\ at = "new_module"
    /\ buf = Skip(Format!Binary(written), 2)
    /\ m = NoSections
    /\ globals = <<>> /\ mem = <<>> /\ funcs = <<>> /\ locals = <<>>
    /\ stack = <<>>
    /\ ip = 0

Items(sec) == IF sec = NULL THEN <<>> ELSE sec

\* The next section, and struct module with it.
NextSection == readbuffer(Skip(buf, 2), Token(buf, 2))
NextModule  == parse_section(m, Token(buf, 1), NextSection.new)

\* An import that is no function, or a segment that is not active, is not read to its end: what
\* is behind it is read as something else, a name, an instruction or nothing of the section.
Hides(sec) == \E k \in DOMAIN Items(sec) : k < Len(Items(sec)) /\ Items(sec)[k].kind # 0
Hidden == \/ Token(buf, 1) = 2 /\ Hides(written.importsec)
          \/ Token(buf, 1) = 11 /\ Hides(written.datasec)

\* The parser has no case for this instruction.
Unknown(f) == \E k \in DOMAIN f.expr : f.expr[k].op \notin Known
MeetsUnknown(c) == \E k \in DOMAIN Items(c) : Unknown(c[k])

\* launch_vm_task is somewhere it does not go on from as the module says.
Stop(place) == at' = place /\ UNCHANGED <<written, loadVars, dataVars, funcs, ip>>

ReadSection ==
    /\ at = "new_module" /\ ~eof(buf)
    /\ ~Hidden /\ ~MeetsUnknown(NextModule.codesec)
    /\ m' = NextModule
    /\ buf' = NextSection.buf
    /\ UNCHANGED <<written, at, dataVars, funcs, ip>>

\* Nothing can be said of what is made of such a section.
Misread == at = "new_module" /\ ~eof(buf) /\ Hidden /\ Stop("misread")

\* parse_instr says so, and exits the task.
ParseUnsupported ==
    /\ at = "new_module" /\ ~eof(buf)
    /\ ~Hidden /\ MeetsUnknown(NextModule.codesec)
    /\ Stop("unsupported")

----------------------------------------------------------------------------
(* create_context                                                          *)

\* The exported functions named _start; without an export section NULL is read.
Starts == IF m.exportsec = NULL THEN {}
          ELSE {k \in DOMAIN m.exportsec : m.exportsec[k].kind = 0 /\ m.exportsec[k].name = Start}
Export == m.exportsec[CHOOSE k \in Starts : \A j \in Starts : k <= j]

\* create_context returns NULL, and run_vm(NULL) reads ctx->entry.
CreateNothing ==
    /\ at = "new_module" /\ eof(buf)
    /\ m.funcsec = NULL \/ Starts = {}
    /\ Stop("fault")

\* A constant expression, an i32.const or an i64.const and End, leaves its value on s.
Constant(s, expr) ==
    LET c == expr[1] IN IF c.op = I32Const THEN writei32(s, Word(c.n)) ELSE writei64(s, Words(c.n))

\* Each value is taken from the stack as an i32.
InitGlobals ==
    /\ at = "new_module" /\ eof(buf)
    /\ m.funcsec # NULL /\ Starts # {}
    /\ LET gs == Items(m.globalsec)
           left[k \in 0..Len(gs)] == IF k = 0 THEN stack ELSE After32(Constant(left[k - 1], gs[k].expr))
       IN /\ stack' = left[Len(gs)]
          /\ globals' = [k \in 1..Len(gs) |-> [ty |-> gs[k].ty, val |-> readi32(Constant(left[k - 1], gs[k].expr))]]
    /\ at' = "create_mem"
    /\ UNCHANGED <<written, loadVars, mem, funcs, locals, ip>>

\* Only the first byte of an access is looked at.
Bug_Through(ea, n) == IF ea + n >= Limit \div 2 THEN BOOLEAN ELSE {ea + 1 <= Len(mem)}

\* What `ea + n > buf->len` lets through; a sum that overflows an int may pass or not.
Through(ea, n) == IF ea + n >= Limit \div 2 THEN BOOLEAN ELSE {ea + n <= Len(mem)}
InMem(ea, n)   == ea >= 0 /\ ea + n <= Len(mem)

\* What is outside of a buffer and passes the test is memory of the kernel.
Stray == Stop("stray")

Segments == IF m.memsec = NULL THEN <<>> ELSE Items(m.datasec)
Offset(d) == Int32(readi32(Constant(stack, d.expr)))

\* Where the bytes of the segments go, and an address that is the greatest int.
Targets  == UNION {{Int32(Offset(d) + k - 1) : k \in DOMAIN d.data} : d \in {c \in ToSet(Segments) : c.kind = 0}}
Greatest == Limit \div 2 - 1

\* The first memory of an empty section is whatever is behind the vector.
CreateMemFault == at = "create_mem" /\ m.memsec = <<>> /\ Stop("fault")

\* A byte behind the end is left out, one in front is not.
InitMem ==
    /\ at = "create_mem" /\ m.memsec # <<>>
    /\ LET zero == IF m.memsec = NULL THEN <<>> ELSE [k \in 1..(PageBytes * m.memsec[1].min) |-> 0]
           store(r, d) ==
               [k \in DOMAIN r |->
                   IF d.kind = 0 /\ k - Offset(d) \in DOMAIN d.data THEN d.data[k - Offset(d)] ELSE r[k]]
           filled[k \in 0..Len(Segments)] == IF k = 0 THEN zero ELSE store(filled[k - 1], Segments[k])
       IN mem' = filled[Len(Segments)]
    /\ \A a \in Targets : a >= 0
    /\ at' = "create_funcs"
    /\ UNCHANGED <<written, loadVars, globals, funcs, locals, stack, ip>>

InitMemStray ==
    /\ at = "create_mem" /\ m.memsec # <<>>
    /\ \E a \in Targets : a < 0 \/ a = Greatest
    /\ Stray

create_imported_func(d) ==
    LET ty == m.typesec[d.idx + 1]
    IN [imported |-> TRUE, ty |-> ty, codes |-> <<>>, name |-> d.nm, locals |-> ty.rt1]

\* The declared locals first.
Bug_create_defined_func(k) ==
    LET ty == m.typesec[m.funcsec[k] + 1]
        f  == m.codesec[k]
    IN [imported |-> FALSE, ty |-> ty, codes |-> f.expr, name |-> <<>>,
        locals |-> FlattenSeq([j \in DOMAIN f.locals |-> [l \in 1..f.locals[j].num |-> f.locals[j].ty]]) \o ty.rt1]

create_defined_func(k) ==
    LET ty == m.typesec[m.funcsec[k] + 1]
        f  == m.codesec[k]
    IN [imported |-> FALSE, ty |-> ty, codes |-> f.expr, name |-> <<>>,
        locals |-> ty.rt1 \o FlattenSeq([j \in DOMAIN f.locals |-> [l \in 1..f.locals[j].num |-> f.locals[j].ty]])]

Imported == [k \in DOMAIN Items(m.importsec) |-> create_imported_func(m.importsec[k])]
Defined  == [k \in DOMAIN m.funcsec |-> create_defined_func(k)]

\* The imports last.
Bug_Functions == Defined \o Imported

\* Imports first, whatever they are imports of.
Functions == Imported \o Defined

\* The number an import that is no function begins with is taken for a type's: there may be none.
Untyped == \E k \in DOMAIN Items(m.importsec) : m.importsec[k].idx + 1 \notin DOMAIN Items(m.typesec)
CreateFuncsFault == at = "create_funcs" /\ Untyped /\ Stop("fault")

\* An imported _start has no code.
CreateFuncs ==
    /\ at = "create_funcs" /\ ~Untyped
    /\ funcs' = Functions
    /\ LET start == Functions[Export.idx + 1] IN
        /\ locals' = [k \in DOMAIN start.locals |-> <<0, 0>>]
        /\ at' = IF start.imported THEN "fault" ELSE "run_vm"
    /\ ip' = 1
    /\ UNCHANGED <<written, loadVars, globals, mem, stack>>

----------------------------------------------------------------------------
(* invoke_i                                                                *)

Function == funcs[Export.idx + 1]
Now      == Function.codes[ip]
At(ops)  == at = "run_vm" /\ Now.op \in ops

\* An instruction that leaves the operand stack s.
Push(s) == stack' = s /\ ip' = ip + 1 /\ UNCHANGED <<written, at, loadVars, funcs>>

\* ctx->blocks is empty: end() gives NULL, and run_vm and launch_vm_task return.
EndOrReturn == At({End, Return}) /\ Stop("returned")

TaskExit  == At({Unreachable}) /\ Stop("task_exit")
DoNothing == At({Nop}) /\ Push(stack) /\ UNCHANGED <<globals, mem, locals>>

Const == At(Consts) /\ Push(Constant(stack, <<Now>>)) /\ UNCHANGED <<globals, mem, locals>>
DropTop == At({Drop}) /\ Push(After32(stack)) /\ UNCHANGED <<globals, mem, locals>>

\* An int as the two words of an int64_t.
Extend(w) == Words(Int32(w))

\* The stack has values of two types only: of another nothing is pushed or popped, and 0 is kept.

GetLocal ==
    /\ At({LocalGet})
    /\ LET v == locals[Now.n + 1] IN
        Push(CASE Function.locals[Now.n + 1] = I32 -> writei32(stack, v[2])
               [] Function.locals[Now.n + 1] = I64 -> writei64(stack, v)
               [] OTHER -> stack)
    /\ UNCHANGED <<globals, mem, locals>>

SetLocal ==
    /\ At({LocalSet})
    /\ CASE Function.locals[Now.n + 1] = I32 ->
              locals' = [locals EXCEPT ![Now.n + 1] = Extend(readi32(stack))] /\ Push(After32(stack))
         [] Function.locals[Now.n + 1] = I64 ->
              locals' = [locals EXCEPT ![Now.n + 1] = readi64(stack)] /\ Push(After64(stack))
         [] OTHER -> locals' = [locals EXCEPT ![Now.n + 1] = <<0, 0>>] /\ Push(stack)
    /\ UNCHANGED <<globals, mem>>

\* A global is an int whatever its type.
GetGlobal ==
    /\ At({GlobalGet})
    /\ LET g == globals[Now.n + 1] IN
        Push(CASE g.ty = I32 -> writei32(stack, g.val)
               [] g.ty = I64 -> writei64(stack, Extend(g.val))
               [] OTHER -> stack)
    /\ UNCHANGED <<globals, mem, locals>>

SetGlobal ==
    /\ At({GlobalSet})
    /\ CASE globals[Now.n + 1].ty = I32 ->
              globals' = [globals EXCEPT ![Now.n + 1].val = readi32(stack)] /\ Push(After32(stack))
         [] globals[Now.n + 1].ty = I64 ->
              globals' = [globals EXCEPT ![Now.n + 1].val = readi64(stack)[2]] /\ Push(After64(stack))
         [] OTHER -> globals' = [globals EXCEPT ![Now.n + 1].val = 0] /\ Push(stack)
    /\ UNCHANGED <<mem, locals>>

\* The bytes an instruction loads or stores, and the address, an int, given its i.
Size(op) == CASE op \in {I32Load, I32Store} -> 4 [] op \in {I64Load, I64Store} -> 8
              [] op = I32Load16_u -> 2 [] OTHER -> 1
Address(i) == Int32(i + Now.n)

\* The operand stack s and what is loaded.
Loaded(op, s, bytes) ==
    CASE op = I64Load    -> writei64(s, <<Number(SubSeq(bytes, 5, 8)), Number(SubSeq(bytes, 1, 4))>>)
      [] op = I32Load8_s -> writei32(s, Word(Int8(bytes[1])))
      [] OTHER           -> writei32(s, Number(bytes))

\* The byte is not extended.
Bug_Loaded(op, s, bytes) ==
    CASE op = I64Load    -> writei64(s, <<Number(SubSeq(bytes, 5, 8)), Number(SubSeq(bytes, 1, 4))>>)
      [] OTHER           -> writei32(s, Number(bytes))

\* A load that does not pass the test is 0.
Load ==
    /\ At(Loads)
    /\ LET ea == Address(readi32(stack))
           n  == Size(Now.op)
           value(bytes) == Loaded(Now.op, After32(stack), bytes)
       IN \E through \in Through(ea, n) :
            IF through /\ ~InMem(ea, n) THEN Stray
            ELSE /\ Push(value(IF through THEN SubSeq(mem, ea + 1, ea + n) ELSE [k \in 1..n |-> 0]))
                 /\ UNCHANGED <<globals, mem, locals>>

\* A store that does not is dropped.
Store ==
    /\ At(Stores)
    /\ LET wide  == Now.op = I64Store
           c     == readi64(stack)
           below == IF wide THEN After64(stack) ELSE After32(stack)
           ea    == Address(readi32(below))
           n     == Size(Now.op)
           bytes == IF wide THEN Bytes(c[2], 4) \o Bytes(c[1], 4) ELSE Bytes(readi32(stack), n)
       IN \E through \in Through(ea, n) :
            IF through /\ ~InMem(ea, n) THEN Stray
            ELSE /\ Push(After32(below))
                 /\ mem' = [k \in DOMAIN mem |-> IF through /\ k - ea \in 1..n THEN bytes[k - ea] ELSE mem[k]]
                 /\ UNCHANGED <<globals, locals>>

Truth(b) == IF b THEN 1 ELSE 0

\* On ints; what is written back is the low word of it.  A shift takes the low bits of rhs.
Computed(op, lhs, rhs) ==
    CASE op = I32Eq   -> Truth(lhs = rhs)
      [] op = I32Ne   -> Truth(lhs # rhs)
      [] op = I32Lt_s -> Truth(lhs < rhs)
      [] op = I32Gt_s -> Truth(lhs > rhs)
      [] op = I32Gt_u -> Truth(Word(lhs) > Word(rhs))
      [] op = I32Ge_s -> Truth(lhs >= rhs)
      [] op = I32Add  -> lhs + rhs
      [] op = I32Sub  -> lhs - rhs
      [] op = I32Mul  -> lhs * rhs
      [] op = I32And  -> Mask(Ones(lhs) \cap Ones(rhs))
      [] op = I32Or   -> Mask(Ones(lhs) \cup Ones(rhs))
      [] op = I32Xor  -> Mask((Ones(lhs) \cup Ones(rhs)) \ (Ones(lhs) \cap Ones(rhs)))
      [] op = I32Shl  -> lhs * 2^(Word(rhs) % Width)
      [] op = I32Shr_s -> lhs \div 2^(Word(rhs) % Width)
      [] op = I32Div_s -> Quotient(lhs, rhs)
      [] op = I32Rem_s -> lhs - rhs * Quotient(lhs, rhs)

Rhs == Int32(readi32(stack))
Lhs == Int32(readi32(After32(stack)))
Result(n) == Push(writei32(After32(After32(stack)), Word(n))) /\ UNCHANGED <<globals, mem, locals>>
Undivided == Rhs = 0 \/ (Rhs = -1 /\ Lhs = Least)

Eqz    == At({I32Eqz}) /\ Push(writei32(After32(stack), Truth(readi32(stack) = 0))) /\ UNCHANGED <<globals, mem, locals>>
Binop  == At(Binaries) /\ ~(Now.op \in Divisions /\ Undivided) /\ Result(Computed(Now.op, Lhs, Rhs))

\* The division of x86_64 faults; that of riscv gives -1, or the dividend and no remainder.
DivideFault == At(Divisions) /\ Undivided /\ Stop("fault")
DivideAnyway ==
    /\ At(Divisions) /\ Undivided
    /\ Result(IF Rhs = 0 THEN IF Now.op = I32Div_s THEN -1 ELSE Lhs
              ELSE IF Now.op = I32Div_s THEN Lhs ELSE 0)

invoke_i ==
    \/ EndOrReturn \/ TaskExit \/ DoNothing \/ Const \/ DropTop \/ GetLocal \/ SetLocal \/ GetGlobal \/ SetGlobal
    \/ Load \/ Store \/ Eqz \/ Binop \/ DivideFault \/ DivideAnyway

Next ==
    \/ ReadSection \/ Misread \/ ParseUnsupported
    \/ CreateNothing \/ InitGlobals \/ InitMem \/ InitMemStray \/ CreateMemFault
    \/ CreateFuncs \/ CreateFuncsFault \/ invoke_i

Spec == Init /\ [][Next]_vars
=============================================================================
