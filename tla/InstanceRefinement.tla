------------------------- MODULE InstanceRefinement -------------------------
(***************************************************************************)
(* Instance implements WasmStore.  The words of ctx->stack are the values  *)
(* of the types that the code before ip leaves.                             *)
(***************************************************************************)
EXTENDS Instance

VARIABLE trapped            \* WASM has trapped

M == INSTANCE WasmModule

ASSUME ValidAssumption == \A p \in Modules : M!Valid(p)

\* The values of types ts in the words s.
Values(s, ts) ==
    LET below[k \in 0..Len(ts)] == IF k = 0 THEN 0 ELSE below[k - 1] + M!Wide(ts[k])
    IN IF below[Len(ts)] # Len(s) THEN <<"none">>
       ELSE [k \in DOMAIN ts |-> SubSeq(s, below[k - 1] + 1, below[k])]

\* The operands before the next instruction.
Operands == Values(stack, M!OperandTypes(written, M!EntryIndex(written))[ip - 1])

globalsBar == [k \in DOMAIN globals |-> <<globals[k].val>>]
localsBar  == [k \in DOMAIN locals |-> IF Function.locals[k] = I64 THEN locals[k] ELSE <<locals[k][2]>>]

storeBar ==
    IF trapped THEN [status |-> "undefined"]
    ELSE IF at \in {"new_module", "create_mem", "create_funcs"} THEN [status |-> "loading"]
    ELSE [status  |-> IF at = "run_vm" THEN "running" ELSE at,
          pc      |-> ip,
          ops     |-> Operands,
          mem     |-> mem,
          globals |-> globalsBar,
          locals  |-> localsBar]

S == INSTANCE WasmStore WITH program <- written, store <- storeBar

RefinementInit == Init /\ trapped = ~M!Supported(written)
RefinementNext == Next /\ trapped' = (trapped \/ (at = "run_vm" /\ S!Traps))
RefinementSpec == RefinementInit /\ [][RefinementNext]_<<vars, trapped>>

(* create_context makes the globals, the linear memory and the functions   *)
(* the module says, and each invoke_i of _start computes, loads and stores *)
(* what WASM says, until the program traps or ends (vm.c:753-863,          *)
(* vm.c:464-732, buffer.c:29-200): function indices count imports first,   *)
(* parameters come before declared locals, segments are copied to their    *)
(* offsets, bytes are little endian and extended as the load says.         *)
ImplementsStore == S!Spec

(* What new_module builds is the module that was written, whichever        *)
(* sections it has and whatever unknown ones stand between them, if it is  *)
(* built at all: of a passive segment only that it is there                *)
(* (module.c:445-500).                                                     *)
ParsedAsWritten ==
    at \notin {"new_module", "misread", "unsupported"} =>
        /\ \A sec \in DOMAIN m \ {"datasec"} : m[sec] = written[sec]
        /\ DOMAIN Items(m.datasec) = DOMAIN Items(written.datasec)
        /\ \A k \in DOMAIN Items(written.datasec) :
              written.datasec[k].kind = 0 => m.datasec[k] = written.datasec[k]

(* launch_vm_task faults in the kernel only when there is no function or   *)
(* no exported _start with code, when an import or a segment hides what is *)
(* behind it, when the memory section is empty or an import that is no     *)
(* function begins with a number no type has; run_vm only when a division  *)
(* has no result.  The task exits in the parser only at an instruction the *)
(* parser does not know (task.c:60, module.c:176-178, module.c:247-312,    *)
(* vm.c:22, vm.c:755-774, vm.c:821, vm.c:687, vm.c:695).                   *)
FaultsOnlyThere ==
    /\ at \in {"fault", "misread"} =>
        \/ written.funcsec = NULL \/ M!Exported(written) = {}
        \/ \A e \in M!Exported(written) : e.idx < Len(Items(written.importsec))
        \/ Hides(written.importsec) \/ Hides(written.datasec)
        \/ written.memsec = <<>>
        \/ \E d \in ToSet(Items(written.importsec)) : d.kind # 0 /\ d.idx + 1 \notin DOMAIN Items(written.typesec)
        \/ ip \in DOMAIN Function.codes /\ Now.op \in Divisions /\ Undivided
    /\ at = "unsupported" => MeetsUnknown(written.codesec)

(* The int comparisons of buffer.c:150-200 keep every access of a program  *)
(* in its linear memory whose address is in the lower half of the address  *)
(* space.                                                                  *)
StraysOnlyAbove ==
    at = "stray" =>
        \/ \E d \in ToSet(Items(written.datasec)) : d.kind = 0 /\ (M!Begin(d) < 0 \/ M!Begin(d) + Len(d.data) >= Limit \div 2)
        \/ Now.op \in Loads /\ readi32(stack) + Now.n + Size(Now.op) >= Limit \div 2
        \/ Now.op \in Stores /\
              readi32(IF Now.op = I64Store THEN After64(stack) ELSE After32(stack)) + Now.n + Size(Now.op) >= Limit \div 2
=============================================================================
